SPECIFICATION FairSpec
CONSTANTS
  Call = {c1, c2}
  u1 = u1
  u2 = u2
  v1 = v1
  v2 = v2
  v3 = v3
  Local = {l}
  Global = {u1, u2}
  storeName <- OneStore
  Value = {v1, v2, v3}
  Sprint <- SameText
  n = 0
  width = 2
  None = None
INVARIANTS
  GivenOnce
  StoreAccounted
PROPERTIES
  CallReturns
