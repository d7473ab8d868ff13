SPECIFICATION FairSpec
CONSTANTS
  k1 = k1
  k2 = k2
  k3 = k3
  p1 = p1
  p2 = p2
  Proc = {p1, p2}
  Key = {k1, k2, k3}
  max = 3
  Cancelable = {p1}
  Failing = {p1}
  Requests <- Mixed
INVARIANTS
  HandlerCleans
PROPERTIES
  ImplementsContainerUse
  CallEnds
CHECK_DEADLOCK FALSE
