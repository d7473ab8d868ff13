SPECIFICATION LockFairSpec
CONSTANTS
  Client = {p1, p2, p3}
  Mutex = {namespace}
  Keyed = {image}
  Mortal = {p1, p2}
  None = None
INVARIANTS
  LockTypeOK
  ClientOwns
  LockHandlerCleans
PROPERTIES
  LockAcquired
CHECK_DEADLOCK FALSE
