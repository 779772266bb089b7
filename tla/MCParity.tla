------------------------------ MODULE MCParity ------------------------------
(***************************************************************************)
(* Workgroups of four threads and tiles of two by two.                     *)
(***************************************************************************)
EXTENDS Parity

MCRandom(slot, i) == ((3 * i + slot) % 5) - 2
MCHash(i, seed) == (7 * i + 3 * seed) % 11

=============================================================================
