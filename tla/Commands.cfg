SPECIFICATION Spec
CONSTANTS
  c1 = c1
  t1 = t1
  Start = {s1, s2}
  Stop = {x1, x2}
  TestCmd = {c1}
  Test = {t1}
  Envs <- MCEnvs
  Ident <- MCIdent
  Reusable = {}
  Reads = 2
  Mortal = {s1, s2, t1}
SYMMETRY Symmetry
INVARIANTS
  ServerFindable
  StaleFileExplained
  CleanedUp
  NotAlone
  ServedThroughout
PROPERTIES
  Undisturbed
CHECK_DEADLOCK FALSE
