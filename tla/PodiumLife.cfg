SPECIFICATION Spec
CONSTANTS
  f1 = f1
  f2 = f2
  f3 = f3
  c1 = c1
  c2 = c2
  Racers <- Three
  InitiallyOut = {}
  InitialDuck <- DucksAtStart
  MaxDuck = 3
  MaxRevision = 2
  Clients = {c1}
  MayLeave = {f1, f2}
  MayReturn = {f1}
  MayLoseDuck = {f1}
  MayErase = TRUE
  MayCorrect = TRUE
CHECK_DEADLOCK FALSE
INVARIANTS
  SelectionsFollowDucks
