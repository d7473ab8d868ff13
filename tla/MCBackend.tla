----------------------------- MODULE MCBackend -----------------------------
(* Backend for TLC: two instances with a beacon server and one without.      *)
EXTENDS Backend, TLC

\* A container that is not on the network, one that runs on it, and two that
\* cannot be used.
OldContainers ==
  { [id |-> User, state |-> "created", nets |-> {Other}, image |-> TRUE],
    [id |-> User, state |-> "running", nets |-> {User}, image |-> TRUE],
    [id |-> User, state |-> "paused", nets |-> {Other}, image |-> TRUE],
    [id |-> User, state |-> "running", nets |-> {Other}, image |-> FALSE] }

\* Instances with a beacon server are alike.
BeaconSymmetry == Permutations(Beacon)
=============================================================================
