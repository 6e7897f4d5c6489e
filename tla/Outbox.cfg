SPECIFICATION Spec
CONSTANTS
  n1 = n1
  p1 = p1
  k1 = k1
  k2 = k2
  a1 = a1
  a2 = a2
  nowhere = nowhere
  Notes = {n1}
  Upcoming = {n1}
  Channel <- ByEmail
  Addresses = {a1, a2}
  FirstAddress = a1
  NoAddress = nowhere
  Nobody = 0
  Workers = {1, 2}
  Publishers = {p1}
  Copies = {k1, k2}
  FinalAttempt = 2
  MaxDeliveries = 2
  MaxFaults = 1
  MaxChanges = 2
  MayOverrun = FALSE
CHECK_DEADLOCK FALSE
INVARIANTS
  TypeOK
  OnlyUnsentIsRetried
  QueuedIsCarried
PROPERTIES
  NoUnwantedMail
  AtMostOnce
  EverythingSettles
