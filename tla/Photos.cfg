\* Two captures under the commands of two page lives, two requests, one drain.
CONSTANTS
  Commands = {c1, c2}
  Captures = {x1, x2}
  Uploads = {u1, u2}
  Drains = {d1}
  Nil = Nil
  MaxFaults = 1
  RetryEarly = FALSE
SPECIFICATION PhotoSpec
INVARIANTS PhotoTypeOK ReadyHasObject NothingOrphaned
PROPERTIES ObjectsSettle
CHECK_DEADLOCK FALSE
