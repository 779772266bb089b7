------------------------------- MODULE MCPool -------------------------------
(***************************************************************************)
(* Small pools: a device of a few words, and packed tensors of one and two *)
(* of them, asked for with lengths that are no whole words.                *)
(***************************************************************************)
EXTENDS Pool, TLC

MCAsks == {<<"Int4", 3>>, <<"Int4", 9>>}
MCSize == [k \in Keys |-> buffer_bytes(k[1], k[2])]

Symmetry == Permutations(Threads) \cup Permutations(Buffers)

=============================================================================
