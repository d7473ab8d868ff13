SPECIFICATION FairSpec
CONSTANTS
  Proc = {p1, p2, p3, p4, p5}
  Key = {k1}
  max = 6
INVARIANTS
  TypeOK
  Exclusion
  TokensAccounted
  NoLostWakeup
PROPERTIES
  NoOvertaking
  WaiterServed
