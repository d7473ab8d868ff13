SPECIFICATION Spec
CONSTANTS
  Proc = {b1, b2, l}
  Beacon = {b1, b2}
  Builder = {b1, b2}
  Before <- OldContainers
  Name = {c}
  User = User
  Other = Other
  None = None
INVARIANTS
  NoConflict
PROPERTIES
  OwnRemoval
  CloseCleans
  TestCleans
CHECK_DEADLOCK FALSE

SYMMETRY BeaconSymmetry
