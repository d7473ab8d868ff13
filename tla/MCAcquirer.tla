----------------------------- MODULE MCAcquirer -----------------------------
(* Acquirer for TLC: three callers and three names, so that a call can wait  *)
(* for two others at once and let a third pass.                              *)
EXTENDS Acquirer, TLC

Symmetry == Permutations(Key) \cup Permutations(Proc \ Cancelable)
              \cup Permutations(Cancelable)
=============================================================================
