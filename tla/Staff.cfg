SPECIFICATION Spec
CONSTANTS
  ann = ann
  bob = bob
  eve = eve
  r1 = r1
  i1 = i1
  i2 = i2
  c1 = c1
  c2 = c2
  People = {ann, bob, eve}
  Founders = {ann, bob}
  Roles = {r1}
  Ids = {i1, i2}
  Clients = {c1, c2}
  MaxSub = 4
  MaxFaults = 1
SYMMETRY Symmetric
CHECK_DEADLOCK FALSE
INVARIANTS
  TypeOK
  AdminRemains
  StoresAgree
  NoSessionLeft
