SPECIFICATION FairSpec
CONSTANTS
  k1 = k1
  k2 = k2
  p1 = p1
  p2 = p2
  p3 = p3
  Proc = {p1, p2, p3}
  Key = {k1, k2}
  max = 4
  Cancelable = {p1}
  Failing = {p2}
  Requests <- Crossing
INVARIANTS
  InitAlone
  NothingLeft
PROPERTIES
  InitNotLost
  EventuallyAcquired
  ImplementsContainerUse
CHECK_DEADLOCK FALSE
