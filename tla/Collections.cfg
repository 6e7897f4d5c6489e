SPECIFICATION Spec
CONSTANTS
  b1 = b1
  b2 = b2
  t1 = t1
  t2 = t2
  t3 = t3
  r1 = r1
  k1 = k1
  k2 = k2
  s1 = s1
  None = None
  Browsers = {b1, b2}
  Tabs = {t1, t2, t3}
  Regs = {r1}
  Collections = {k1, k2}
  Staff = {s1}
  MaxRev = 2
  BrowserOf <- MCBrowserOf
  Author <- OneAuthor
SYMMETRY Interchangeable
CHECK_DEADLOCK FALSE
INVARIANTS
  TypeOK
  OnlyRegistrantsOwn
  RacedAreKept
PROPERTIES
  CredentialsAreKept
  EditsAreSeen
