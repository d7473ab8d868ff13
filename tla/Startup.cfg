SPECIFICATION FairSpec
CONSTANTS
  i1 = i1
  i2 = i2
  Inst = {i1, i2}
  Port = {80, 443}
  Conf <- Samples
  MaxRuns <- Twice
  MaxExits = 1
  MaxCalls = 3
  None = None
INVARIANTS
  ReadyWhenRun
  PortsBound
  NilMeansDone
PROPERTIES
  ReuseConsistent
  RunReturns
CHECK_DEADLOCK FALSE
