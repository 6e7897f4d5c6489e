SPECIFICATION Spec
CONSTANTS
  a1 = a1
  a2 = a2
  a3 = a3
  b1 = b1
  b2 = b2
  b3 = b3
  w1 = w1
  w2 = w2
  c1 = c1
  c2 = c2
  Racers <- TwoHeats
  InitialHeat <- Draw
  InitiallyOut = {a3, b3}
  MaxHeat = 2
  HeatCapacity = 3
  FinalCapacity = 2
  MaxDuck = 1
  Clients = {c1, c2}
  MayLeave = {a1}
  MayLoseDuck = {}
  MayReplaceRoster = TRUE
SYMMETRY Swap
CHECK_DEADLOCK FALSE
INVARIANTS
  OneAccountPerHeat
PROPERTIES
  ResultsAreKept
