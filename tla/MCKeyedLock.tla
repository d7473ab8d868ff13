---------------------------- MODULE MCKeyedLock ----------------------------
(* KeyedLock for TLC: five goroutines on one name.                           *)
EXTENDS KeyedLock
=============================================================================
