SPECIFICATION Spec
CONSTANTS
  f1 = f1
  f2 = f2
  f3 = f3
  c1 = c1
  c2 = c2
  Racers <- Three
  InitiallyOut = {}
  InitialDuck <- DucksAtStart
  MaxDuck = 1
  MaxRevision = 1
  Clients = {c1, c2}
  MayLeave = {f1, f2, f3}
  MayReturn = {f1, f2, f3}
  MayLoseDuck = {}
  MayErase = FALSE
  MayCorrect = FALSE
SYMMETRY Swap
CHECK_DEADLOCK FALSE
INVARIANTS
  OfferedPlacesAreAccepted
  PodiumCanBeFinished
