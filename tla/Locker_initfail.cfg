SPECIFICATION Spec
CONSTANTS
  k1 = k1
  k2 = k2
  p1 = p1
  p2 = p2
  p3 = p3
  Proc = {p1, p2}
  Key = {k1, k2}
  max = 4
  Cancelable = {}
  Failing = {p1}
  Requests <- InitContainers
INVARIANTS
  InitBeforeUse
