----------------------------- MODULE MCCommands -----------------------------
(* Commands for TLC: the environment of the processes.                       *)
EXTENDS Commands, TLC

CONSTANTS c1, t1

\* The test and the stops are on their own; or the test and one of the stops are
\* run by `confort test`, or without integration.
MCEnvs ==
  { [x \in Stop \cup Test |-> "unset"] }
    \cup { [x \in Stop \cup Test |-> IF x \in {t1, y} THEN e ELSE "unset"] :
             e \in {c1, "disabled"}, y \in Stop }

MCIdent == [c \in TestCmd |-> "dir"]

Symmetry == Permutations(Start) \cup Permutations(Stop)
=============================================================================
