------------------------------- MODULE MCArea -------------------------------
(***************************************************************************)
(* Small areas: a CPU area of four words; a CUDA area of two of its        *)
(* 256-byte steps, and one that ends between two steps.                    *)
(***************************************************************************)
EXTENDS Area

OnCpu(bytes) == [cuda |-> FALSE, least |-> 0, align |-> 4, total |-> bytes]
OnCuda(bytes) == [cuda |-> TRUE, least |-> 4, align |-> 256, total |-> bytes]

MCAreas == {OnCpu(14), OnCuda(512), OnCuda(600)}

=============================================================================
