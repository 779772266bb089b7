------------------------------- MODULE Rules -------------------------------
(***************************************************************************)
(* The checks the safe layer shares with the tools (src/safe/rules.rs).    *)
(* Each is the condition under which the function returns Ok.  A layout is *)
(* the sequence of a shader's roles, one per tensor slot; a role is a      *)
(* record [role, kind] where role is one of "Input", "Output", "InOut" and *)
(* "Accumulate".                                                           *)
(***************************************************************************)
EXTENDS Integers, Sequences

RoleNames == {"Input", "Output", "InOut", "Accumulate"}

same_device(expected, got) == expected = got

same_kind(expected, got) == expected = got

same_len(expected, got) == expected = got

slot_count(layout, got) == Len(layout) = got

\* One tensor per slot, each of its slot's kind.
slot_kinds(layout, kinds) ==
    /\ slot_count(layout, Len(kinds))
    /\ \A slot \in DOMAIN layout : layout[slot].kind = kinds[slot]

\* One value per meta field, each of its field's type.
meta_types(fields, types) == fields = types

\* No dimension of the workgroup count is 0.
has_workgroups(workgroups) == \A d \in DOMAIN workgroups : workgroups[d] # 0

\* Arg::Read for an Input slot, Arg::Write for the others.
slot_access(role, write) == write = (role.role # "Input")

long_enough(needs, holds) == holds >= needs

\* A written slot's tensor is in no other slot.
not_aliased(layout, tensors) ==
    \A slot \in DOMAIN layout \cap DOMAIN tensors :
        layout[slot].role # "Input" =>
            \A other \in DOMAIN tensors \ {slot} : tensors[other] # tensors[slot]

=============================================================================
