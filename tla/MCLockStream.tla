---------------------------- MODULE MCLockStream ----------------------------
(* LockStream for TLC: three clients, two of which may die, and one lock of  *)
(* each kind.                                                                *)
EXTENDS LockStream
=============================================================================
