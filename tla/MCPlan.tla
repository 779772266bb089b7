------------------------------- MODULE MCPlan -------------------------------
(***************************************************************************)
(* Plans of two tensors and two calls.  The one number given later, n, is  *)
(* the length of the second tensor; the first, which is packed, has a      *)
(* length computed from it, by a closure that is not pure.                 *)
(***************************************************************************)
EXTENDS Plan, TLC

MCGiven == [zero |-> {0}, few |-> {8}, n |-> {0, 9}]
MCFixed == [zero |-> 0, few |-> 8]
MCInputs == [guess |-> <<"n">>, words |-> <<"few", "guess">>]
MCDynamics == [d1 |-> {9}, d2 |-> {8}]
MCComputes(c, got) == IF c = "guess" /\ got[1] # 0 THEN {8, 9} ELSE {got[Len(got)]}

In(kind) == [role |-> "Input", kind |-> kind]
Out(kind) == [role |-> "Output", kind |-> kind]
MCShaders ==
    [unpack |-> [layout |-> <<In("Int4"), Out("Int8")>>, fields |-> <<"Uint", "Uint">>],
     step   |-> [layout |-> <<Out("Int8")>>,             fields |-> <<"Uint">>],
     scale  |-> [layout |-> <<Out("Int8")>>,             fields |-> <<"Float">>]]
MCMinLens(shader, meta) == IF shader = "unpack" THEN <<meta[1], meta[2]>> ELSE <<meta[1]>>

Once(cell) == [per_run |-> FALSE, ty |-> "Uint", from |-> cell]
PerRunOf(d) == [per_run |-> TRUE, ty |-> "Uint", from |-> d]

Words(init) == [kind |-> "Int4", len |-> "words", init |-> init, data |-> [kind |-> "Int4", len |-> 8]]
Bytes == [kind |-> "Int8", len |-> "n", init |-> "Zero", data |-> [kind |-> "Int8", len |-> 0]]

Call(shader, sources, tensors, workgroups) ==
    [shader |-> shader, sources |-> sources, tensors |-> tensors, workgroups |-> workgroups]
Unpack(tensors) == Call("unpack", <<Once("few"), PerRunOf("d1")>>, tensors, "few")
Step(workgroups) == Call("step", <<PerRunOf("d2")>>, <<2>>, workgroups)

\* The plan; one whose tensors are of other kinds; one whose step has no workgroups.
MCPlans ==
    {[tensors |-> <<Words("Upload"), Bytes>>, calls |-> <<Unpack(<<1, 2>>), Step("few")>>],
     [tensors |-> <<Words("Blank"), Bytes>>, calls |-> <<Unpack(<<2, 1>>), Step("few")>>],
     [tensors |-> <<Words("Blank"), Bytes>>, calls |-> <<Step("zero")>>]}

MCEditTensors == {[kind |-> "Int8", len |-> 8]}
MCEditNodes == {[shader |-> "unpack", meta |-> <<9, 0>>], [shader |-> "scale", meta |-> <<0>>]}

=============================================================================
