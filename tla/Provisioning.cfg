\* Two ducks and two stickers at two stations.
CONSTANTS
  Stations = {s1, s2}
  Stickers = {k1, k2}
  None = None
  MaxDucks = 2
  MaxTakeovers = 2
  TapDuringTakeover = FALSE
  TapDuringRecovery = FALSE
SPECIFICATION Spec
SYMMETRY Alike
INVARIANTS TypeOK StockIsWritten OneStartedEach
CHECK_DEADLOCK FALSE
