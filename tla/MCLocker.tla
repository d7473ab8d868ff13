------------------------------ MODULE MCLocker ------------------------------
(* Locker for TLC: the params of the calls.                                  *)
EXTENDS Locker, TLC

CONSTANTS k1, k2, p1, p2, p3

Sh == [exclusive |-> FALSE, init |-> FALSE]
Ex == [exclusive |-> TRUE, init |-> FALSE]
InitSh == [exclusive |-> FALSE, init |-> TRUE]
InitEx == [exclusive |-> TRUE, init |-> TRUE]

\* Users of both containers, with init functions for them in different modes,
\* against exclusive users of each.
Crossing ==
  p1 :> { k1 :> InitSh @@ k2 :> InitEx } @@
  p2 :> { k1 :> InitEx @@ k2 :> InitSh } @@
  p3 :> { k1 :> Ex, k1 :> Sh @@ k2 :> Ex }

\* Users that all bring an init function.
InitContainers ==
  [p \in Proc |-> { k1 :> InitSh, k1 :> InitSh @@ k2 :> InitSh }]
=============================================================================
