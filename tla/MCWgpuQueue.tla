---------------------------- MODULE MCWgpuQueue ----------------------------
(***************************************************************************)
(* Small instances of WgpuQueue.  A run's effect depends on both its meta  *)
(* words and its input, and no two of the commands commute in general.     *)
(***************************************************************************)
EXTENDS WgpuQueue, TLC

MCEffect(w, v) == (w + v) % 2

Symmetry == Permutations(Threads) \cup Permutations(Buffers)

=============================================================================
