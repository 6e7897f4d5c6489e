SPECIFICATION Spec
CONSTANTS
  a1 = a1
  a2 = a2
  a3 = a3
  b1 = b1
  b2 = b2
  b3 = b3
  w1 = w1
  w2 = w2
  c1 = c1
  c2 = c2
  Racers <- OneHeatTwoWalkUps
  InitialHeat <- Draw
  InitiallyOut = {a2, a3}
  MaxHeat = 3
  HeatCapacity = 3
  FinalCapacity = 2
  MaxDuck = 2
  Clients = {c1, c2}
  MayLeave = {a1}
  MayLoseDuck = {a1}
  MayReplaceRoster = FALSE
SYMMETRY SwapWalkUps
CHECK_DEADLOCK FALSE
INVARIANTS
  WithinCapacity
  FinalistsAreWinners
PROPERTIES
  WalkUpsKeepAHeat
