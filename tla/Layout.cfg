SPECIFICATION Spec
CONSTANTS
  r1 = r1
  r2 = r2
  r3 = r3
  c1 = c1
  c2 = c2
  Racers = {r1, r2, r3}
  MayLeave = {r1}
  Early = {r1, r2}
  Clients = {c1, c2}
  Capacity = 2
  FinalCapacity = 3
  MinimumHeatSize = 2
  MaxHeat = 4
  OvertakeReopening = FALSE
  OvertakeClosing = TRUE
  LeaveDuringPairing = FALSE
SYMMETRY Symmetric
CHECK_DEADLOCK FALSE
INVARIANTS
  TypeOK
  SlotsContiguous
  ClosingMends
  ReopeningMends
  RoundIsLocked
PROPERTIES
  PlacesAreKept
