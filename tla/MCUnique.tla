------------------------------ MODULE MCUnique ------------------------------
(* Unique for TLC: a local Unique, and two global ones with one store.       *)
EXTENDS Unique, TLC

CONSTANTS u1, u2, v1, v2, v3

OneStore == u1 :> "s" @@ u2 :> "s"

\* Two of the values look the same.
SameText == v1 :> "a" @@ v2 :> "a" @@ v3 :> "b"
=============================================================================
