SPECIFICATION Spec
CONSTANTS
  Proc = {p1, p2, p3}
  Key = {k1, k2, k3}
  Cancelable = {p1, p2}
SYMMETRY Symmetry
INVARIANTS
  TypeOK
  OneLockerPerKey
  ArrivalOrder
  NoLostProceed
CHECK_DEADLOCK FALSE
