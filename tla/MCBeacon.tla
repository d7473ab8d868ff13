------------------------------ MODULE MCBeacon ------------------------------
(* Beacon for TLC: the params of the calls.                                  *)
EXTENDS Beacon, TLC

CONSTANTS k1, k2, k3, p1, p2

Ex == [exclusive |-> TRUE, init |-> FALSE]
InitSh == [exclusive |-> FALSE, init |-> TRUE]
InitEx == [exclusive |-> TRUE, init |-> TRUE]

\* A call with two init functions, and calls with one.
Mixed ==
  p1 :> { k1 :> InitSh @@ k2 :> InitSh, k3 :> InitSh } @@
  p2 :> { k1 :> Ex @@ k3 :> InitEx }

\* Two init functions in every call.
TwoInits == [p \in Proc |-> { k1 :> InitSh @@ k2 :> InitSh }]
=============================================================================
