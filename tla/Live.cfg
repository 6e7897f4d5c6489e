SPECIFICATION Spec
CONSTANTS
  director = director
  registrar = registrar
  Roles = {director, registrar}
  InitialRoles <- OneRole
  MaxVersion = 1
  MaxAccess = 1
  MaxMoves = 1
  MaxFaults = 1
CHECK_DEADLOCK FALSE
INVARIANTS
  TypeOK
PROPERTIES
  NothingComesBack
  CatchesUp
  RevokedIsCleared
