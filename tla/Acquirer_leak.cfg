SPECIFICATION FairSpec
CONSTANTS
  Proc = {p1, p2}
  Key = {k1}
  Cancelable = {p1}
PROPERTY
  EventuallyAcquired
CHECK_DEADLOCK FALSE
