SPECIFICATION Spec
CONSTANTS
  k1 = k1
  k2 = k2
  k3 = k3
  p1 = p1
  p2 = p2
  Proc = {p1, p2}
  Key = {k1, k2}
  max = 3
  Cancelable = {}
  Failing = {}
  Requests <- TwoInits
INVARIANTS
  ClientProtected
