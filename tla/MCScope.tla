------------------------------ MODULE MCScope ------------------------------
(***************************************************************************)
(* Small instances of Scope: one kind, one shader that reads its first     *)
(* slot and writes its second, both at least as long as the meta says.     *)
(***************************************************************************)
EXTENDS Scope, TLC

MCKind == [t \in Tensors |-> "F32"]
MCLayout == [sh \in {"each_n"} |-> <<[role |-> "Input", kind |-> "F32"],
                                     [role |-> "Output", kind |-> "F32"]>>]
\* A shader with one written slot: the least that can be captured.
MCLayout1 == [sh \in {"fill"} |-> <<[role |-> "InOut", kind |-> "F32"]>>]
MCMinLens == [sh \in {"each_n"} |-> [m \in Metas |-> <<m, m>>]]
MCMinLens1 == [sh \in {"fill"} |-> [m \in Metas |-> <<m>>]]

Symmetry == Permutations(Buffers) \cup Permutations(NodeIds) \cup Permutations(Scopes)
              \cup Permutations(Tensors) \cup Permutations(Addresses) \cup Permutations(Places)
=============================================================================
