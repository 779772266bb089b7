---------------------------- MODULE ScopeProofs ----------------------------
(***************************************************************************)
(* Proofs about Scope, for every value of its constants.                   *)
(***************************************************************************)
EXTENDS Scope, TLAPS

-----------------------------------------------------------------------------
(* A group of the type invariant depends on its own variables only.        *)

LEMMA SameTensors == TensorsOK /\ UNCHANGED <<buffer, tensor>> => TensorsOK'
    BY DEF TensorsOK

LEMMA SameNodes == NodesOK /\ UNCHANGED <<node, place>> => NodesOK'
    BY DEF NodesOK

LEMMA SameScopes ==
    ScopesOK /\ UNCHANGED <<phase, bufs, nodes, ahead, place, tensor>> => ScopesOK'
    BY DEF ScopesOK

LEMMA SameCaptures ==
    CapturesOK /\ UNCHANGED <<recording, capturing, graph, kept>> => CapturesOK'
    BY DEF CapturesOK

LEMMA SameDevice == DeviceOK /\ UNCHANGED <<queue, meta_words>> => DeviceOK'
    BY DEF DeviceOK

-----------------------------------------------------------------------------
(* The device's queue.                                                     *)

LEMMA EnqueueType ==
    ASSUME NEW cs \in Seq(Commands), queue \in Seq(Commands), Enqueue(cs)
    PROVE  /\ queue' \in Seq(Commands)
           /\ Len(queue') = Len(queue) + Len(cs)
    BY DEF Enqueue

LEMMA MetaCommand ==
    ASSUME NEW i \in NodeIds, NEW m \in Metas
    PROVE  <<[op |-> "meta", by |-> None, node |-> i, place |-> None,
              bufs |-> <<>>, meta |-> m, how |-> "called"]>> \in Seq(Commands)
    <1> DEFINE c == [op |-> "meta", by |-> None, node |-> i, place |-> None,
                     bufs |-> <<>>, meta |-> m, how |-> "called"]
    <1>1. c.bufs \in Seq(Buffers)
        OBVIOUS
    <1>2. c \in Commands
        BY DEF Commands
    <1> HIDE DEF c
    <1>3. <<c>> \in Seq(Commands)
        BY <1>2
    <1> QED
        BY <1>3 DEF c

LEMMA StartSyncType ==
    ASSUME NEW s \in Scopes, StartSync(s), ScopesOK, queue' \in Seq(Commands),
           UNCHANGED <<nodes, place, tensor>>,
           bufs' \in [Scopes -> SUBSET Tensors],
           \A u \in Scopes : \A t \in bufs'[u] : tensor[t] # None
    PROVE  ScopesOK'
    BY DEF StartSync, ScopesOK

LEMMA InitTypeOK == Init => TypeOK
    <1> SUFFICES ASSUME Init PROVE TypeOK
        OBVIOUS
    <1>1. TensorsOK
        BY DEF Init, TensorsOK
    <1>2. NodesOK
        BY DEF Init, NodesOK
    <1>3. ScopesOK
        BY DEF Init, ScopesOK
    <1>4. CapturesOK
        <2>1. /\ NotRecording \in [on : BOOLEAN, armed : BOOLEAN, calls : Seq(RecordedCall)]
              /\ NoRecording \in [on : BOOLEAN, calls : Seq(RecordedCall), raw : Seq(RawCall)]
              /\ <<>> \in Seq(RawCall)
            BY DEF NotRecording, NoRecording
        <2> QED
            BY <2>1 DEF Init, CapturesOK
    <1>5. DeviceOK
        BY DEF Init, DeviceOK
    <1> QED
        BY <1>1, <1>2, <1>3, <1>4, <1>5 DEF TypeOK

LEMMA AllocType ==
    ASSUME TypeOK, NEW t \in Tensors, NEW len \in Lens, Alloc(t, len)
    PROVE  TypeOK'
    <1> USE DEF scopevars, capturevars
    <1>1. TensorsOK'
        BY DEF TypeOK, TensorsOK, Alloc, Kinds
    <1>2. ScopesOK'
        BY NoneAssumption DEF TypeOK, ScopesOK, TensorsOK, Alloc
    <1> QED
        BY <1>1, <1>2, SameNodes, SameCaptures, SameDevice DEF TypeOK, Alloc

LEMMA DropTensorType ==
    ASSUME TypeOK, NEW t \in Tensors, DropTensor(t)
    PROVE  TypeOK'
    <1> USE DEF scopevars, capturevars
    <1>1. TensorsOK'
        BY NoneAssumption DEF TypeOK, TensorsOK, DropTensor
    <1>2. ScopesOK'
        BY DEF TypeOK, ScopesOK, TensorsOK, DropTensor, Unbound, BoundTensors
    <1> QED
        BY <1>1, <1>2, SameNodes, SameCaptures, SameDevice DEF TypeOK, DropTensor

LEMMA ReplaceTensorType ==
    ASSUME TypeOK, NEW t \in Tensors, NEW u \in Tensors, ReplaceTensor(t, u)
    PROVE  TypeOK'
    <1> USE DEF scopevars, capturevars
    <1>1. TensorsOK'
        BY DEF TypeOK, TensorsOK, ReplaceTensor
    <1>2. ScopesOK'
        BY DEF TypeOK, ScopesOK, TensorsOK, ReplaceTensor
    <1> QED
        BY <1>1, <1>2, SameNodes, SameCaptures, SameDevice DEF TypeOK, ReplaceTensor

LEMMA BuildNodeType ==
    ASSUME TypeOK, NEW p \in Places, NEW i \in NodeIds, NEW sh \in Shaders, NEW m \in Metas,
           BuildNode(p, i, sh, m)
    PROVE  TypeOK'
    <1> USE DEF scopevars, capturevars
    <1>1. NodesOK'
        BY LayoutAssumption, NoneAssumption DEF TypeOK, NodesOK, BuildNode
    <1>2. ScopesOK'
        BY NoneAssumption DEF TypeOK, ScopesOK, NodesOK, BuildNode
    <1>3. DeviceOK'
        BY EnqueueType, MetaCommand DEF TypeOK, DeviceOK, BuildNode
    <1> QED
        BY <1>1, <1>2, <1>3, SameTensors, SameCaptures DEF TypeOK, BuildNode

LEMMA DropNodeType ==
    ASSUME TypeOK, NEW p \in Places, DropNode(p)
    PROVE  TypeOK'
    <1> USE DEF scopevars, capturevars
    <1>1. NodesOK'
        <2>1. /\ place[p] \in NodeIds
              /\ node' = [node EXCEPT ![place[p]].st = "dropped"]
              /\ place' = [place EXCEPT ![p] = None]
            BY DEF TypeOK, NodesOK, DropNode
        <2>2. \A q \in Places : place'[q] = IF q = p THEN None ELSE place[q]
            BY <2>1 DEF TypeOK, NodesOK
        <2>3. \A q \in Places : place'[q] # None => place'[q] = place[q] /\ place'[q] # place[p]
            BY <2>1, <2>2 DEF TypeOK, NodesOK
        <2>4. \A i \in NodeIds : i # place[p] => node'[i] = node[i]
            BY <2>1 DEF TypeOK, NodesOK
        <2>5. node' \in [NodeIds -> [st : {"unbuilt", "live", "dropped"},
                                    shader : Shaders \cup {None},
                                    meta : Metas \cup {None}, lens : Seq(Nat)]]
            BY <2>1 DEF TypeOK, NodesOK
        <2>6. place' \in [Places -> NodeIds \cup {None}]
            BY <2>1 DEF TypeOK, NodesOK
        <2> QED
            BY <2>1, <2>3, <2>4, <2>5, <2>6 DEF TypeOK, NodesOK
    <1>2. ScopesOK'
        BY DEF TypeOK, ScopesOK, NodesOK, DropNode, UnboundPlace, BoundPlaces
    <1> QED
        BY <1>1, <1>2, SameTensors, SameCaptures, SameDevice DEF TypeOK, DropNode

LEMMA MoveNodeType ==
    ASSUME TypeOK, NEW p \in Places, NEW q \in Places, MoveNode(p, q)
    PROVE  TypeOK'
    <1> USE DEF scopevars, capturevars
    <1>1. NodesOK'
        BY NoneAssumption DEF TypeOK, NodesOK, MoveNode
    <1>2. ScopesOK'
        BY DEF TypeOK, ScopesOK, NodesOK, MoveNode, UnboundPlace, BoundPlaces
    <1> QED
        BY <1>1, <1>2, SameTensors, SameCaptures, SameDevice DEF TypeOK, MoveNode

LEMMA ReplaceNodeType ==
    ASSUME TypeOK, NEW p \in Places, NEW q \in Places, ReplaceNode(p, q)
    PROVE  TypeOK'
    <1> USE DEF scopevars, capturevars
    <1>1. NodesOK'
        BY DEF TypeOK, NodesOK, ReplaceNode
    <1>2. ScopesOK'
        BY DEF TypeOK, ScopesOK, NodesOK, ReplaceNode
    <1> QED
        BY <1>1, <1>2, SameTensors, SameCaptures, SameDevice DEF TypeOK, ReplaceNode

LEMMA UpdateMetaType ==
    ASSUME TypeOK, NEW p \in Places, NEW m \in Metas, update_meta(p, m)
    PROVE  TypeOK'
    <1> USE DEF scopevars, capturevars
    <1>0. place[p] \in NodeIds /\ node[place[p]].shader \in Shaders
        BY DEF TypeOK, NodesOK, update_meta
    <1>1. NodesOK'
        <2> DEFINE i == place[p]
        <2>1. MinLens[node[i].shader][m] \in Seq(Nat)
            BY <1>0, LayoutAssumption
        <2>2. node' = [node EXCEPT ![i] = [node[i] EXCEPT !.lens = MinLens[node[i].shader][m],
                                                         !.meta = m]]
            BY DEF update_meta
        <2>3. [node[i] EXCEPT !.lens = MinLens[node[i].shader][m], !.meta = m]
                \in [st : {"unbuilt", "live", "dropped"}, shader : Shaders \cup {None},
                    meta : Metas \cup {None}, lens : Seq(Nat)]
            BY <1>0, <2>1 DEF TypeOK, NodesOK
        <2>4. node'[i].st = node[i].st /\ node'[i].shader = node[i].shader /\ node'[i].meta = m
            BY <1>0, <2>2 DEF TypeOK, NodesOK
        <2> QED
            <3>1. node' \in [NodeIds -> [st : {"unbuilt", "live", "dropped"},
                                         shader : Shaders \cup {None},
                                         meta : Metas \cup {None}, lens : Seq(Nat)]]
                BY <2>2, <2>3 DEF TypeOK, NodesOK
            <3>2. ASSUME NEW q \in Places, place[q] # None
                  PROVE  /\ node'[place[q]].st = "live"
                         /\ node'[place[q]].shader \in Shaders
                         /\ node'[place[q]].meta \in Metas
                BY <1>0, <2>2, <2>4, <3>2 DEF TypeOK, NodesOK
            <3> QED
                BY <3>1, <3>2 DEF TypeOK, NodesOK, update_meta
    <1>2. ScopesOK'
        BY SameScopes DEF TypeOK, update_meta
    <1>3. DeviceOK'
        BY <1>0, EnqueueType, MetaCommand DEF TypeOK, DeviceOK, update_meta
    <1> QED
        BY <1>1, <1>2, <1>3, SameTensors, SameCaptures DEF TypeOK, update_meta

-----------------------------------------------------------------------------
(* Scopes.                                                                 *)

LEMMA OpenScopeType ==
    ASSUME TypeOK, NEW s \in Scopes, OpenScope(s)
    PROVE  TypeOK'
    <1> USE DEF hostvars, capturevars
    <1>1. ScopesOK'
        BY DEF TypeOK, ScopesOK, OpenScope
    <1> QED
        BY <1>1, SameTensors, SameNodes, SameCaptures, SameDevice DEF TypeOK, OpenScope

LEMMA BindType ==
    ASSUME TypeOK, NEW s \in Scopes, NEW t \in Tensors, bind(s, t)
    PROVE  TypeOK'
    <1> USE DEF hostvars, capturevars
    <1>1. ScopesOK'
        BY DEF TypeOK, ScopesOK, bind
    <1> QED
        BY <1>1, SameTensors, SameNodes, SameCaptures, SameDevice DEF TypeOK, bind

LEMMA BindNodeType ==
    ASSUME TypeOK, NEW s \in Scopes, NEW p \in Places, bind_node(s, p)
    PROVE  TypeOK'
    <1> USE DEF hostvars, capturevars
    <1>1. ScopesOK'
        BY DEF TypeOK, ScopesOK, bind_node
    <1> QED
        BY <1>1, SameTensors, SameNodes, SameCaptures, SameDevice DEF TypeOK, bind_node

LEMMA EndScopeType ==
    ASSUME TypeOK, NEW s \in Scopes, EndScope(s)
    PROVE  TypeOK'
    <1> USE DEF hostvars, capturevars
    <1>1. ScopesOK'
        BY DEF TypeOK, ScopesOK, DeviceOK, EndScope, StartSync
    <1> QED
        BY <1>1, SameTensors, SameNodes, SameCaptures, SameDevice DEF TypeOK, EndScope

LEMMA CloseScopeType ==
    ASSUME TypeOK, NEW s \in Scopes, CloseScope(s)
    PROVE  TypeOK'
    <1> USE DEF hostvars
    <1>1. ScopesOK'
        BY DEF TypeOK, ScopesOK, CloseScope
    <1>2. CapturesOK'
        <2>1. NotRecording \in [on : BOOLEAN, armed : BOOLEAN, calls : Seq(RecordedCall)]
            BY DEF NotRecording
        <2> QED
            BY <2>1 DEF TypeOK, CapturesOK, CloseScope
    <1> QED
        BY <1>1, <1>2, SameTensors, SameNodes, SameDevice DEF TypeOK, CloseScope

\* The arguments of an execute are a sequence, one per slot of a known layout,
\* of tensors that hold a buffer.
LEMMA ArgsType ==
    ASSUME TypeOK, NEW s \in Scopes, NEW p \in nodes[s], NEW args \in ArgLists(node[place[p]]),
           \A slot \in DOMAIN args : args[slot].tensor \in bufs[s]
    PROVE  /\ args \in Seq(Arg)
           /\ RawBuffers(args) \in Seq(Buffers)
           /\ RecordedArgs(args) \in Seq(RecordedArg)
    <1>1. p \in Places /\ node[place[p]].shader \in Shaders
        BY DEF TypeOK, ScopesOK, NodesOK
    <1>2. PICK n \in Nat : DOMAIN Layout[node[place[p]].shader] = 1..n
        <2>1. Layout[node[place[p]].shader] \in Seq([role : RoleNames, kind : STRING])
            BY <1>1, LayoutAssumption
        <2> QED
            BY <2>1
    <1>3. args \in [1..n -> Arg]
        BY <1>2 DEF ArgLists
    <1>4. args \in Seq(Arg)
        BY <1>3
    <1>5. \A slot \in 1..n : tensor[args[slot].tensor] \in Buffers
        BY <1>3 DEF TypeOK, ScopesOK, TensorsOK, Arg
    <1>6. RawBuffers(args) \in [1..n -> Buffers]
        BY <1>3, <1>5 DEF RawBuffers
    <1>7. \A slot \in 1..n : buffer[tensor[args[slot].tensor]].address \in Addresses
        BY <1>3, <1>5 DEF TypeOK, ScopesOK, TensorsOK, Arg
    <1>8. RecordedArgs(args) \in [1..n -> RecordedArg]
        BY <1>3, <1>7 DEF RecordedArgs, RecordedArg, Arg
    <1> QED
        BY <1>4, <1>6, <1>8

LEMMA CommandType ==
    ASSUME TypeOK, NEW s \in Scopes, NEW op \in {"run", "copy", "clear"},
           NEW bs \in Seq(Buffers), NEW m \in Metas \cup {None},
           NEW p \in Places \cup {None}, p # None => place[p] # None
    PROVE  <<Command(s, op, p, bs, m)>> \in Seq(Commands)
    <1>1. (IF p = None THEN None ELSE place[p]) \in NodeIds \cup {None}
        BY NoneAssumption DEF TypeOK, NodesOK
    <1>2. Command(s, op, p, bs, m) \in Commands
        BY <1>1 DEF Command, Commands
    <1> QED
        BY <1>2

LEMMA ExecuteType ==
    ASSUME TypeOK, NEW s \in Scopes, NEW p \in nodes[s], NEW args \in ArgLists(node[place[p]]),
           execute(s, p, args)
    PROVE  TypeOK'
    <1> USE DEF hostvars, scopevars
    <1>1. p \in Places /\ place[p] \in NodeIds /\ node[place[p]].meta \in Metas
        BY NoneAssumption DEF TypeOK, ScopesOK, NodesOK
    <1>2. RawBuffers(args) \in Seq(Buffers) /\ args \in Seq(Arg)
        BY ArgsType DEF execute
    <1>3. DeviceOK'
        <2>1. CASE capturing
            BY <2>1 DEF TypeOK, DeviceOK, execute
        <2>2. CASE ~capturing
            <3> DEFINE cs == <<Command(s, "run", p, RawBuffers(args), node[place[p]].meta)>>
            <3>1. cs \in Seq(Commands)
                BY <1>1, <1>2, CommandType, NoneAssumption
            <3>2. Enqueue(cs)
                BY <2>2 DEF execute
            <3> HIDE DEF cs
            <3> QED
                BY <3>1, <3>2, EnqueueType DEF TypeOK, DeviceOK, execute
        <2> QED
            BY <2>1, <2>2
    <1>4. CapturesOK'
        <2> DEFINE raw == [node |-> place[p], place |-> p, bufs |-> RawBuffers(args),
                          call |-> IF recording[s].armed
                                   THEN Len(recording[s].calls) + 1 ELSE 0]
                   call == [node |-> p, args |-> RecordedArgs(args)]
                   new == WithCall(recording[s], call)
        <2>1. raw \in RawCall
            <3>1. Len(recording[s].calls) \in Nat
                BY DEF TypeOK, CapturesOK
            <3> QED
                BY <1>1, <1>2, <3>1 DEF RawCall
        <2>2. call \in RecordedCall
            <3>1. RecordedArgs(args) \in Seq(RecordedArg)
                BY ArgsType DEF execute
            <3> QED
                BY <3>1, <1>1 DEF RecordedCall
        <2>3. graph' = graph \/ graph' = Append(graph, raw)
            BY DEF execute
        <2>4. recording' = [recording EXCEPT ![s] = new] \/ recording' = recording
            BY DEF execute
        <2> HIDE DEF raw, call
        <2>5. graph' \in Seq(RawCall)
            <3>1. graph \in Seq(RawCall)
                BY DEF TypeOK, CapturesOK
            <3>2. Append(graph, raw) \in Seq(RawCall)
                BY <2>1, <3>1
            <3> QED
                BY <2>3, <3>1, <3>2
        <2>6. recording' \in [Scopes -> [on : BOOLEAN, armed : BOOLEAN, calls : Seq(RecordedCall)]]
            <3> DEFINE R == [on : BOOLEAN, armed : BOOLEAN, calls : Seq(RecordedCall)]
            <3>1. recording \in [Scopes -> R] /\ recording[s] \in R
                BY DEF TypeOK, CapturesOK
            <3>2. Append(recording[s].calls, call) \in Seq(RecordedCall)
                <4> DEFINE calls == recording[s].calls
                <4>1. calls \in Seq(RecordedCall)
                    BY <3>1
                <4> HIDE DEF calls
                <4>2. Append(calls, call) \in Seq(RecordedCall)
                    BY <2>2, <4>1
                <4> QED
                    BY <4>2 DEF calls
            <3>3. new \in R
                BY <3>1, <3>2 DEF WithCall
            <3> HIDE DEF R, new
            <3>4. recording' \in [Scopes -> R]
                BY <2>4, <3>1, <3>3
            <3> QED
                BY <3>4 DEF R
        <2> QED
            BY <2>5, <2>6 DEF execute, TypeOK, CapturesOK
    <1> QED
        BY <1>3, <1>4, SameTensors, SameNodes, SameScopes DEF TypeOK, execute

LEMMA CopyType ==
    ASSUME TypeOK, NEW s \in Scopes, NEW t \in Tensors, NEW u \in Tensors, copy(s, t, u)
    PROVE  TypeOK'
    <1> USE DEF hostvars, scopevars, capturevars
    <1> DEFINE cs == <<Command(s, "copy", None, <<tensor[t], tensor[u]>>, None)>>
    <1>1. <<tensor[t], tensor[u]>> \in Seq(Buffers)
        BY DEF TypeOK, TensorsOK, ScopesOK, copy
    <1>2. cs \in Seq(Commands)
        BY <1>1, CommandType
    <1>3. Enqueue(cs)
        BY DEF copy
    <1> HIDE DEF cs
    <1>4. DeviceOK'
        BY <1>2, <1>3, EnqueueType DEF TypeOK, DeviceOK, copy
    <1> QED
        BY <1>4, SameTensors, SameNodes, SameScopes, SameCaptures DEF TypeOK, copy

LEMMA BlockingType ==
    ASSUME TypeOK, NEW s \in Scopes, NEW op \in {"copy", "clear"}, NEW ts \in Seq(Tensors),
           Blocking(s, op, ts)
    PROVE  TypeOK'
    <1> USE DEF hostvars, scopevars, capturevars
    <1> DEFINE bs == [k \in DOMAIN ts |-> tensor[ts[k]]]
               cs == <<Command(s, op, None, bs, None)>>
    <1>1. bs \in Seq(Buffers)
        <2>1. \A k \in DOMAIN ts : ts[k] \in Tensors /\ tensor[ts[k]] \in Buffers
            BY DEF TypeOK, TensorsOK, Blocking
        <2>2. bs \in [1..Len(ts) -> Buffers]
            BY <2>1
        <2> QED
            BY <2>2
    <1> HIDE DEF bs
    <1>2. cs \in Seq(Commands)
        BY <1>1, CommandType
    <1>3. Enqueue(cs)
        BY DEF Blocking, bs
    <1> HIDE DEF cs
    <1>4. queue' \in Seq(Commands) /\ DeviceOK'
        BY <1>2, <1>3, EnqueueType DEF TypeOK, DeviceOK, Blocking
    <1>5. ScopesOK'
        <2>1. {ts[k] : k \in DOMAIN ts} \subseteq Tensors
            OBVIOUS
        <2>2. bufs' \in [Scopes -> SUBSET Tensors]
            BY <2>1 DEF TypeOK, ScopesOK, Blocking
        <2>3. \A u \in Scopes : \A t \in bufs'[u] : tensor[t] # None
            BY DEF TypeOK, ScopesOK, Blocking
        <2> QED
            BY <1>4, <2>2, <2>3, StartSyncType DEF TypeOK, Blocking
    <1> QED
        BY <1>4, <1>5, SameTensors, SameNodes, SameCaptures DEF TypeOK, Blocking

-----------------------------------------------------------------------------
(* Captures.                                                               *)

LEMMA BeginCaptureType ==
    ASSUME TypeOK, NEW s \in Scopes, BeginCapture(s)
    PROVE  TypeOK'
    <1> USE DEF hostvars
    <1>1. CapturesOK'
        <2>1. <<>> \in Seq(RecordedCall) /\ <<>> \in Seq(RawCall)
            OBVIOUS
        <2>2. [on |-> TRUE, armed |-> ~capturing, calls |-> <<>>]
                  \in [on : BOOLEAN, armed : BOOLEAN, calls : Seq(RecordedCall)]
            BY <2>1
        <2> QED
            BY <2>1, <2>2 DEF TypeOK, CapturesOK, BeginCapture
    <1>2. ScopesOK'
        <2>2. CASE StartSync(s)
            BY <2>2, StartSyncType DEF TypeOK, ScopesOK, DeviceOK, BeginCapture
        <2>3. CASE UNCHANGED <<phase, ahead>>
            BY <2>3, SameScopes DEF TypeOK, BeginCapture
        <2> QED
            BY <2>2, <2>3 DEF BeginCapture
    <1> QED
        BY <1>1, <1>2, SameTensors, SameNodes, SameDevice DEF TypeOK, BeginCapture

LEMMA StopRecordingType ==
    ASSUME TypeOK, NEW s \in Scopes, StopRecording(s)
    PROVE  /\ TensorsOK' /\ NodesOK' /\ DeviceOK'
           /\ recording' \in [Scopes -> [on : BOOLEAN, armed : BOOLEAN, calls : Seq(RecordedCall)]]
           /\ capturing' \in BOOLEAN
           /\ graph' \in Seq(RawCall)
    <1> USE DEF hostvars
    <1>1. /\ NotRecording \in [on : BOOLEAN, armed : BOOLEAN, calls : Seq(RecordedCall)]
          /\ <<>> \in Seq(RawCall)
        BY DEF NotRecording
    <1> QED
        BY <1>1, SameTensors, SameNodes, SameDevice DEF TypeOK, CapturesOK, StopRecording

LEMMA EndCaptureType ==
    ASSUME TypeOK, NEW s \in Scopes, NEW r \in Recordings, EndCapture(s, r)
    PROVE  TypeOK'
    <1>0. StopRecording(s)
        BY DEF EndCapture
    <1> DEFINE new == [on |-> TRUE, calls |-> recording[s].calls, raw |-> graph]
    <1>1. new \in [on : BOOLEAN, calls : Seq(RecordedCall), raw : Seq(RawCall)]
        BY DEF TypeOK, CapturesOK
    <1>2. kept' = [kept EXCEPT ![r] = new]
        BY DEF EndCapture
    <1> HIDE DEF new
    <1>3. CapturesOK'
        BY <1>0, <1>1, <1>2, StopRecordingType DEF TypeOK, CapturesOK
    <1>4. ScopesOK'
        BY <1>0, SameScopes DEF TypeOK, EndCapture, StopRecording, hostvars
    <1> QED
        BY <1>0, <1>3, <1>4, StopRecordingType DEF TypeOK

LEMMA FailCaptureType ==
    ASSUME TypeOK, NEW s \in Scopes, FailCapture(s)
    PROVE  TypeOK'
    <1>0. StopRecording(s)
        BY DEF FailCapture
    <1>1. CapturesOK'
        BY <1>0, StopRecordingType DEF TypeOK, CapturesOK, FailCapture
    <1>2. ScopesOK'
        BY <1>0, SameScopes DEF TypeOK, FailCapture, StopRecording, hostvars
    <1> QED
        BY <1>0, <1>1, <1>2, StopRecordingType DEF TypeOK

LEMMA PanicInCaptureType ==
    ASSUME TypeOK, NEW s \in Scopes, PanicInCapture(s)
    PROVE  TypeOK'
    <1>0. StopRecording(s)
        BY DEF PanicInCapture
    <1>1. CapturesOK'
        BY <1>0, StopRecordingType DEF TypeOK, CapturesOK, PanicInCapture
    <1>2. ScopesOK'
        BY DEF TypeOK, ScopesOK, DeviceOK, PanicInCapture, StopRecording, StartSync, hostvars
    <1> QED
        BY <1>0, <1>1, <1>2, StopRecordingType DEF TypeOK

LEMMA DropRecordingType ==
    ASSUME TypeOK, NEW r \in Recordings, DropRecording(r)
    PROVE  TypeOK'
    <1> USE DEF hostvars, scopevars
    <1>1. CapturesOK'
        <2>1. <<>> \in Seq(RecordedCall) /\ <<>> \in Seq(RawCall)
            OBVIOUS
        <2>2. NoRecording \in [on : BOOLEAN, calls : Seq(RecordedCall), raw : Seq(RawCall)]
            BY <2>1 DEF NoRecording
        <2> QED
            BY <2>2 DEF TypeOK, CapturesOK, DropRecording
    <1> QED
        BY <1>1, SameTensors, SameNodes, SameScopes, SameDevice DEF TypeOK, DropRecording

LEMMA ReplayType ==
    ASSUME TypeOK, NEW s \in Scopes, NEW r \in Recordings, replay(s, r)
    PROVE  TypeOK'
    <1> USE DEF hostvars, scopevars, capturevars
    <1> DEFINE raw == kept[r].raw
               cs == [k \in DOMAIN raw |-> ReplayCommand(s, raw[k])]
    <1>1. raw \in Seq(RawCall)
        BY DEF TypeOK, CapturesOK
    <1>2. ASSUME NEW k \in DOMAIN raw
          PROVE  ReplayCommand(s, raw[k]) \in Commands
        <2>1. raw[k] \in RawCall
            BY <1>1
        <2>2. raw[k].node \in NodeIds /\ raw[k].place \in Places /\ raw[k].bufs \in Seq(Buffers)
            BY <2>1 DEF RawCall
        <2>3. node[raw[k].node].meta \in Metas \cup {None}
            BY <2>2 DEF TypeOK, NodesOK
        <2> QED
            BY <2>2, <2>3 DEF Commands, ReplayCommand
    <1>3. Enqueue(cs)
        BY DEF replay
    <1>4. cs \in Seq(Commands)
        <2>1. DOMAIN raw = 1..Len(raw) /\ Len(raw) \in Nat
            BY <1>1
        <2> HIDE DEF raw
        <2>2. cs \in [1..Len(raw) -> Commands]
            BY <1>2, <2>1
        <2> QED
            BY <2>1, <2>2
    <1> HIDE DEF cs
    <1>5. DeviceOK'
        BY <1>3, <1>4, EnqueueType DEF TypeOK, DeviceOK, replay
    <1> QED
        BY <1>5, SameTensors, SameNodes, SameScopes, SameCaptures DEF TypeOK, replay

-----------------------------------------------------------------------------
(* The device.                                                             *)

LEMMA RunCommandType ==
    ASSUME TypeOK, RunCommand
    PROVE  TypeOK'
    <1> USE DEF hostvars, capturevars
    <1>1. Head(queue) \in Commands /\ queue' \in Seq(Commands)
        BY DEF TypeOK, DeviceOK, RunCommand
    <1>2. meta_words' \in [NodeIds -> Metas \cup {None}]
        <2>1. Head(queue).meta \in Metas \cup {None}
            BY <1>1 DEF Commands
        <2> QED
            BY <2>1 DEF TypeOK, DeviceOK, RunCommand
    <1>3. ScopesOK'
        BY DEF TypeOK, ScopesOK, RunCommand
    <1> QED
        BY <1>1, <1>2, <1>3, SameTensors, SameNodes, SameCaptures
        DEF TypeOK, DeviceOK, RunCommand

-----------------------------------------------------------------------------
(* Every step.                                                             *)

LEMMA StutterTypeOK == TypeOK /\ UNCHANGED vars => TypeOK'
    BY SameTensors, SameNodes, SameScopes, SameCaptures, SameDevice
    DEF TypeOK, vars, hostvars, scopevars, capturevars

LEMMA NextTypeOK == TypeOK /\ [Next]_vars => TypeOK'
    <1> SUFFICES ASSUME TypeOK, [Next]_vars PROVE TypeOK'
        OBVIOUS
    <1>1. CASE \E t \in Tensors : \/ \E len \in Lens : Alloc(t, len)
                                  \/ DropTensor(t)
                                  \/ \E u \in Tensors : ReplaceTensor(t, u)
        BY <1>1, AllocType, DropTensorType, ReplaceTensorType
    <1>2. CASE \E p \in Places :
                 \/ \E i \in NodeIds, sh \in Shaders, m \in Metas : BuildNode(p, i, sh, m)
                 \/ DropNode(p)
                 \/ \E q \in Places : MoveNode(p, q) \/ ReplaceNode(p, q)
                 \/ \E m \in Metas : update_meta(p, m)
        BY <1>2, BuildNodeType, DropNodeType, MoveNodeType, ReplaceNodeType, UpdateMetaType
    <1>3. CASE \E s \in Scopes : \/ OpenScope(s) \/ EndScope(s) \/ CloseScope(s)
                                 \/ \E t \in Tensors : bind(s, t)
                                 \/ \E p \in Places : bind_node(s, p)
        BY <1>3, OpenScopeType, EndScopeType, CloseScopeType, BindType, BindNodeType
    <1>4. CASE \E s \in Scopes : \E p \in nodes[s] :
                 \E args \in ArgLists(node[place[p]]) : execute(s, p, args)
        BY <1>4, ExecuteType
    <1>5. CASE \E s \in Scopes : \/ \E t, u \in Tensors : copy(s, t, u) \/ copy_into(s, t, u)
                                 \/ \E t \in Tensors : zero(s, t)
        <2>1. ASSUME NEW s \in Scopes, NEW t \in Tensors, NEW u \in Tensors, copy_into(s, t, u)
              PROVE  TypeOK'
            <3>1. <<t, u>> \in Seq(Tensors)
                OBVIOUS
            <3> QED
                BY <2>1, <3>1, BlockingType DEF copy_into
        <2>2. ASSUME NEW s \in Scopes, NEW t \in Tensors, zero(s, t)
              PROVE  TypeOK'
            <3>1. <<t>> \in Seq(Tensors)
                OBVIOUS
            <3> QED
                BY <2>2, <3>1, BlockingType DEF zero
        <2> QED
            BY <1>5, <2>1, <2>2, CopyType
    <1>6. CASE \E s \in Scopes : \/ BeginCapture(s) \/ FailCapture(s) \/ PanicInCapture(s)
                                 \/ \E r \in Recordings : EndCapture(s, r) \/ replay(s, r)
        BY <1>6, BeginCaptureType, FailCaptureType, PanicInCaptureType, EndCaptureType, ReplayType
    <1>7. CASE \E r \in Recordings : DropRecording(r)
        BY <1>7, DropRecordingType
    <1>8. CASE RunCommand
        BY <1>8, RunCommandType
    <1>9. CASE UNCHANGED vars
        BY <1>9, StutterTypeOK
    <1> QED
        BY <1>1, <1>2, <1>3, <1>4, <1>5, <1>6, <1>7, <1>8, <1>9 DEF Next

\* The host's records, the device's queue and every captured call keep their
\* types, whatever the calls and their order: what a tensor, a place or a
\* scope names is always there (src/safe/mod.rs, src/safe/scope.rs).
THEOREM TypeCorrect == Spec => []TypeOK
    <1>1. Init => TypeOK
        BY InitTypeOK
    <1>2. TypeOK /\ [Next]_vars => TypeOK'
        BY NextTypeOK
    <1> QED
        BY <1>1, <1>2, PTL DEF Spec

-----------------------------------------------------------------------------
(* What the host's own steps leave alone.                                  *)

\* What a step leaves alone of the scopes that are not closed.
KeepsBorrows ==
    \A s \in Scopes : phase[s] # "closed" =>
      /\ phase'[s] = phase[s]
      /\ ahead'[s] = ahead[s]
      /\ \A t \in bufs[s] : t \in bufs'[s] /\ tensor'[t] = tensor[t]
      /\ \A p \in nodes[s] : p \in nodes'[s] /\ place'[p] = place[p]

\* Steps outside a scope touch nothing that is bound.
LEMMA TensorStepKeeps ==
    ASSUME TypeOK, NEW t \in Tensors,
           \/ \E len \in Lens : Alloc(t, len)
           \/ DropTensor(t)
           \/ \E u \in Tensors : ReplaceTensor(t, u)
    PROVE  KeepsBorrows /\ queue' = queue
    <1> USE DEF hostvars, scopevars, capturevars, TypeOK, ScopesOK, TensorsOK
    <1>1. ASSUME NEW len \in Lens, Alloc(t, len)
          PROVE  KeepsBorrows /\ queue' = queue
        BY <1>1 DEF KeepsBorrows, Alloc
    <1>2. ASSUME DropTensor(t)
          PROVE  KeepsBorrows /\ queue' = queue
        BY <1>2 DEF KeepsBorrows, DropTensor, Unbound, BoundTensors
    <1>3. ASSUME NEW u \in Tensors, ReplaceTensor(t, u)
          PROVE  KeepsBorrows /\ queue' = queue
        BY <1>3 DEF KeepsBorrows, ReplaceTensor, Unbound, BoundTensors
    <1> QED
        BY <1>1, <1>2, <1>3

LEMMA NodeStepKeeps ==
    ASSUME TypeOK, NEW p \in Places,
           \/ DropNode(p)
           \/ \E q \in Places : MoveNode(p, q) \/ ReplaceNode(p, q)
    PROVE  KeepsBorrows /\ queue' = queue
    <1> USE DEF hostvars, scopevars, capturevars, TypeOK, ScopesOK, NodesOK
    <1>1. ASSUME DropNode(p)
          PROVE  KeepsBorrows /\ queue' = queue
        BY <1>1 DEF KeepsBorrows, DropNode, UnboundPlace, BoundPlaces
    <1>2. ASSUME NEW q \in Places, MoveNode(p, q)
          PROVE  KeepsBorrows /\ queue' = queue
        BY <1>2 DEF KeepsBorrows, MoveNode, UnboundPlace, BoundPlaces
    <1>3. ASSUME NEW q \in Places, ReplaceNode(p, q)
          PROVE  KeepsBorrows /\ queue' = queue
        BY <1>3 DEF KeepsBorrows, ReplaceNode, UnboundPlace, BoundPlaces
    <1> QED
        BY <1>1, <1>2, <1>3

\* Meta writes go after the work that is queued.
LEMMA MetaStepKeeps ==
    ASSUME TypeOK, NEW p \in Places, NEW m \in Metas,
           \/ \E i \in NodeIds, sh \in Shaders : BuildNode(p, i, sh, m)
           \/ update_meta(p, m)
    PROVE  KeepsBorrows /\ \E c \in Commands : c.op = "meta" /\ Enqueue(<<c>>)
    <1> USE DEF hostvars, scopevars, capturevars
    <1>1. PICK i \in NodeIds :
              Enqueue(<<[op |-> "meta", by |-> None, node |-> i, place |-> None,
                         bufs |-> <<>>, meta |-> m, how |-> "called"]>>)
        <2>1. CASE update_meta(p, m)
            <3>1. place[p] \in NodeIds
                BY <2>1, NoneAssumption DEF TypeOK, NodesOK, update_meta
            <3> QED
                BY <2>1, <3>1 DEF update_meta
        <2> QED
            BY <2>1 DEF BuildNode
    <1> DEFINE c == [op |-> "meta", by |-> None, node |-> i, place |-> None,
                     bufs |-> <<>>, meta |-> m, how |-> "called"]
    <1>2. c \in Commands
        <2>1. <<>> \in Seq(Buffers)
            OBVIOUS
        <2> QED
            BY <2>1 DEF Commands
    <1>3. KeepsBorrows
        <2>1. CASE update_meta(p, m)
            BY <2>1 DEF KeepsBorrows, update_meta
        <2>2. CASE \E j \in NodeIds, sh \in Shaders : BuildNode(p, j, sh, m)
            <3>1. /\ UNCHANGED <<tensor, phase, bufs, nodes, ahead>>
                  /\ \A q \in Places : q # p => place'[q] = place[q]
                  /\ place[p] = None
                BY <2>2 DEF TypeOK, NodesOK, BuildNode
            <3>2. \A s \in Scopes : \A q \in nodes[s] : q \in Places /\ q # p
                BY <3>1 DEF TypeOK, ScopesOK
            <3> QED
                BY <3>1, <3>2 DEF KeepsBorrows
        <2> QED
            BY <2>1, <2>2
    <1>4. c.op = "meta" /\ Enqueue(<<c>>)
        BY <1>1
    <1> HIDE DEF c
    <1> QED
        BY <1>2, <1>3, <1>4

LEMMA OpeningKeeps ==
    ASSUME TypeOK, NEW s \in Scopes,
           \/ OpenScope(s)
           \/ \E t \in Tensors : bind(s, t)
           \/ \E p \in Places : bind_node(s, p)
    PROVE  KeepsBorrows /\ queue' = queue
    BY DEF hostvars, capturevars, TypeOK, ScopesOK, KeepsBorrows, OpenScope, bind, bind_node

LEMMA BufferSteps ==
    [Next]_vars =>
      \/ UNCHANGED <<buffer, tensor>>
      \/ \E t \in Tensors : \/ \E len \in Lens : Alloc(t, len)
                            \/ DropTensor(t)
                            \/ \E u \in Tensors : ReplaceTensor(t, u)
    <1> USE DEF hostvars
    <1>1. ASSUME NEW s \in Scopes,
                 \/ BeginCapture(s) \/ FailCapture(s) \/ PanicInCapture(s)
                 \/ \E r \in Recordings : EndCapture(s, r) \/ replay(s, r)
                 \/ \E p \in nodes[s] : \E args \in ArgLists(node[place[p]]) : execute(s, p, args)
          PROVE  UNCHANGED <<buffer, tensor>>
        BY <1>1 DEF BeginCapture, FailCapture, PanicInCapture, EndCapture, StopRecording, replay,
            execute
    <1>2. ASSUME NEW s \in Scopes,
                 \/ OpenScope(s) \/ EndScope(s) \/ CloseScope(s)
                 \/ \E t \in Tensors : bind(s, t) \/ zero(s, t)
                 \/ \E p \in Places : bind_node(s, p)
                 \/ \E t, u \in Tensors : copy(s, t, u) \/ copy_into(s, t, u)
          PROVE  UNCHANGED <<buffer, tensor>>
        BY <1>2 DEF OpenScope, bind, bind_node, EndScope, CloseScope, copy, copy_into, zero,
            Blocking
    <1>3. ASSUME NEW p \in Places,
                 \/ \E i \in NodeIds, sh \in Shaders, m \in Metas : BuildNode(p, i, sh, m)
                 \/ DropNode(p)
                 \/ \E q \in Places : MoveNode(p, q) \/ ReplaceNode(p, q)
                 \/ \E m \in Metas : update_meta(p, m)
          PROVE  UNCHANGED <<buffer, tensor>>
        BY <1>3 DEF BuildNode, DropNode, MoveNode, ReplaceNode, update_meta
    <1> QED
        BY <1>1, <1>2, <1>3 DEF Next, vars, RunCommand, DropRecording

-----------------------------------------------------------------------------
(* One capture, one owner.                                                 *)

\* The steps that touch a capture, or a phase.
LEMMA CaptureSteps ==
    [Next]_vars =>
      \/ UNCHANGED <<recording, capturing, phase>>
      \/ \E s \in Scopes : \/ \E p, args : execute(s, p, args)
                           \/ BeginCapture(s)
                           \/ StopRecording(s) /\ (StartSync(s) \/ UNCHANGED phase)
                           \/ OpenScope(s) \/ EndScope(s) \/ CloseScope(s)
                           \/ \E op, ts : Blocking(s, op, ts)
    <1> USE DEF capturevars
    <1>1. ASSUME NEW s \in Scopes,
                 \/ FailCapture(s) \/ PanicInCapture(s)
                 \/ \E r \in Recordings : EndCapture(s, r)
          PROVE  StopRecording(s) /\ (StartSync(s) \/ UNCHANGED phase)
        BY <1>1 DEF FailCapture, PanicInCapture, EndCapture
    <1>2. ASSUME NEW s \in Scopes,
                 \/ \E t \in Tensors : bind(s, t)
                 \/ \E p \in Places : bind_node(s, p)
                 \/ \E t, u \in Tensors : copy(s, t, u)
                 \/ \E r \in Recordings : replay(s, r)
          PROVE  UNCHANGED <<recording, capturing, phase>>
        BY <1>2 DEF bind, bind_node, copy, replay, scopevars
    <1>3. ASSUME NEW s \in Scopes, NEW t \in Tensors, NEW u \in Tensors,
                 copy_into(s, t, u) \/ zero(s, t)
          PROVE  \E op, ts : Blocking(s, op, ts)
        BY <1>3 DEF copy_into, zero
    <1>4. ASSUME NEW t \in Tensors, \/ \E len \in Lens : Alloc(t, len)
                                    \/ DropTensor(t)
                                    \/ \E u \in Tensors : ReplaceTensor(t, u)
          PROVE  UNCHANGED <<recording, capturing, phase>>
        BY <1>4 DEF Alloc, DropTensor, ReplaceTensor, scopevars
    <1>5. ASSUME NEW p \in Places,
                 \/ \E i \in NodeIds, sh \in Shaders, m \in Metas : BuildNode(p, i, sh, m)
                 \/ DropNode(p)
                 \/ \E q \in Places : MoveNode(p, q) \/ ReplaceNode(p, q)
                 \/ \E m \in Metas : update_meta(p, m)
          PROVE  UNCHANGED <<recording, capturing, phase>>
        BY <1>5 DEF BuildNode, DropNode, MoveNode, ReplaceNode, update_meta, scopevars
    <1>6. ASSUME RunCommand \/ UNCHANGED vars \/ \E r \in Recordings : DropRecording(r)
          PROVE  UNCHANGED <<recording, capturing, phase>>
        BY <1>6 DEF RunCommand, DropRecording, vars, scopevars
    <1> QED
        BY <1>1, <1>2, <1>3, <1>4, <1>5, <1>6 DEF Next

LEMMA OneCaptureStep ==
    ASSUME TypeOK, OneCapture, [Next]_vars
    PROVE  OneCapture'
    <1> USE DEF OneCapture
    <1>0. /\ recording \in [Scopes -> [on : BOOLEAN, armed : BOOLEAN, calls : Seq(RecordedCall)]]
          /\ phase \in [Scopes -> {"closed", "open", "syncing"}]
        BY DEF TypeOK, CapturesOK, ScopesOK
    <1>1. ASSUME NEW s \in Scopes, NEW p, NEW args, execute(s, p, args)
          PROVE  OneCapture'
        <2>1. \A u \in Scopes : /\ recording'[u].on = recording[u].on
                                /\ recording'[u].armed = recording[u].armed
            <3>1. CASE recording[s].on
                <4> DEFINE call == [node |-> p, args |-> RecordedArgs(args)]
                           new == WithCall(recording[s], call)
                <4>1. recording' = [recording EXCEPT ![s] = new]
                    BY <1>1, <3>1 DEF execute
                <4>2. new.on = recording[s].on /\ new.armed = recording[s].armed
                    BY <1>0 DEF WithCall
                <4> HIDE DEF call, new
                <4> QED
                    BY <1>0, <4>1, <4>2
            <3>2. CASE ~recording[s].on
                BY <1>1, <3>2 DEF execute
            <3> QED
                BY <3>1, <3>2
        <2>2. capturing' = capturing /\ phase' = phase
            BY <1>1 DEF execute, scopevars
        <2> QED
            BY <2>1, <2>2
    <1>2. ASSUME NEW s \in Scopes, BeginCapture(s)
          PROVE  OneCapture'
        <2> DEFINE new == [on |-> TRUE, armed |-> ~capturing, calls |-> <<>>]
        <2>1. /\ recording' = [recording EXCEPT ![s] = new]
              /\ capturing' = TRUE
              /\ phase[s] = "open" /\ ~recording[s].on
            BY <1>2 DEF BeginCapture
        <2>2. new.on /\ new.armed = ~capturing
            OBVIOUS
        <2> HIDE DEF new
        <2>3. /\ recording'[s] = new
              /\ \A u \in Scopes \ {s} : recording'[u] = recording[u]
            BY <1>0, <2>1
        <2>4. \/ capturing /\ phase' = [phase EXCEPT ![s] = "syncing"]
              \/ phase' = phase
            BY <1>2 DEF BeginCapture, StartSync
        <2>5. CASE capturing
            <3>1. ~recording[s].armed /\ ~recording'[s].armed
                BY <2>1, <2>2, <2>3, <2>5
            <3> QED
                BY <1>0, <2>1, <2>2, <2>3, <2>4, <2>5, <3>1
        <2>6. CASE ~capturing
            BY <1>0, <2>1, <2>2, <2>3, <2>4, <2>6
        <2> QED
            BY <2>5, <2>6
    <1>3. ASSUME NEW s \in Scopes, StopRecording(s), StartSync(s) \/ UNCHANGED phase
          PROVE  OneCapture'
        <2>1. /\ recording[s].armed
              /\ ~recording'[s].on /\ ~recording'[s].armed
              /\ \A u \in Scopes \ {s} : recording'[u] = recording[u]
              /\ ~capturing'
            BY <1>0, <1>3 DEF StopRecording, NotRecording
        <2>2. /\ \A u \in Scopes \ {s} : phase'[u] = phase[u]
              /\ phase'[s] # "closed"
            BY <1>0, <1>3, <2>1 DEF StartSync
        <2> QED
            BY <2>1, <2>2
    <1>4. ASSUME NEW s \in Scopes, OpenScope(s)
          PROVE  OneCapture'
        BY <1>0, <1>4 DEF OpenScope, capturevars
    <1>5. ASSUME NEW s \in Scopes, EndScope(s)
          PROVE  OneCapture'
        BY <1>0, <1>5 DEF EndScope, StartSync, capturevars
    <1>6. ASSUME NEW s \in Scopes, CloseScope(s)
          PROVE  OneCapture'
        <2>1. /\ ~recording[s].armed
              /\ ~recording'[s].on /\ ~recording'[s].armed
              /\ \A u \in Scopes \ {s} : recording'[u] = recording[u] /\ phase'[u] = phase[u]
              /\ capturing' = capturing
            BY <1>0, <1>6 DEF CloseScope, NotRecording
        <2> QED
            BY <2>1
    <1>7. ASSUME NEW s \in Scopes, NEW op, NEW ts, Blocking(s, op, ts)
          PROVE  OneCapture'
        BY <1>0, <1>7 DEF Blocking, StartSync, capturevars
    <1>8. UNCHANGED <<recording, capturing, phase>> => OneCapture'
        OBVIOUS
    <1> HIDE DEF OneCapture
    <1> QED
        BY <1>1, <1>2, <1>3, <1>4, <1>5, <1>6, <1>7, <1>8, CaptureSteps

\* For any number of scopes, the device records exactly while one capture's closure
\* runs: a capture that fails or panics ends it, another that is refused does not, and
\* the flag a refused one leaves set ends with its scope.  The guard EndCaptureOnDrop
\* and the order of Scope::capture (src/safe/scope.rs).
THEOREM CaptureEnds == Spec => []OneCapture
    <1>1. Init => OneCapture
        BY DEF Init, OneCapture, NotRecording
    <1> QED
        BY <1>1, InitTypeOK, NextTypeOK, OneCaptureStep, PTL DEF Spec

LEMMA OneOwnerStep ==
    ASSUME TypeOK, OneOwner, [Next]_vars
    PROVE  OneOwner'
    <1> USE DEF OneOwner, Live, TypeOK, TensorsOK
    <1>1. ASSUME NEW t \in Tensors, NEW len \in Lens, Alloc(t, len)
          PROVE  OneOwner'
        BY <1>1, NoneAssumption DEF Alloc
    <1>2. ASSUME NEW t \in Tensors, DropTensor(t)
          PROVE  OneOwner'
        BY <1>2, NoneAssumption DEF DropTensor
    <1>3. ASSUME NEW t \in Tensors, NEW u \in Tensors, ReplaceTensor(t, u)
          PROVE  OneOwner'
        BY <1>3 DEF ReplaceTensor
    <1>4. UNCHANGED <<buffer, tensor>> => OneOwner'
        OBVIOUS
    <1> HIDE DEF OneOwner, Live, TypeOK, TensorsOK
    <1> QED
        BY <1>1, <1>2, <1>3, <1>4, BufferSteps

\* No buffer is in two tensors, in a tensor and the pool, or at another's
\* address, whatever is made, replaced, dropped, reused and drained: alloc,
\* Tensor::replace and Drop (src/safe/mod.rs), recycle (src/backend/pool.rs).
THEOREM BuffersOwned == Spec => []OneOwner
    <1>1. Init => OneOwner
        BY NoneAssumption DEF Init, OneOwner, Live
    <1> QED
        BY <1>1, InitTypeOK, NextTypeOK, OneOwnerStep, PTL DEF Spec

-----------------------------------------------------------------------------
(* What a queued run sees: the meta its node had when it was queued.       *)
(*                                                                         *)
(* What a command of the stream sees of a node is the last meta write      *)
(* before it, or the words that are there.  At the end of the stream that  *)
(* is the node's meta, whatever was queued; a command queued later changes *)
(* nothing for those before it.                                            *)

IsMeta(c, i) == c.op = "meta" /\ c.node = i

\* The k-th command of q, on a device with words w, sees meta m of node i.
Sees(q, w, k, i, m) ==
    \/ \E j \in 1..(k - 1) :
          /\ IsMeta(q[j], i) /\ q[j].meta = m
          /\ \A l \in (j + 1)..(k - 1) : ~ IsMeta(q[l], i)
    \/ w[i] = m /\ \A j \in 1..(k - 1) : ~ IsMeta(q[j], i)

\* What is queued next sees the host's meta of a node.
EndSees(q, w) ==
    \A i \in NodeIds : node[i].st # "unbuilt" => Sees(q, w, Len(q) + 1, i, node[i].meta)

RunSees(q, w) ==
    \A k \in 1..Len(q) : q[k].op = "run" =>
        q[k].node \in NodeIds /\ Sees(q, w, k, q[k].node, q[k].meta)

\* What is recorded are runs of nodes that were built.
OfBuilt(raw) == \A k \in 1..Len(raw) : node[raw[k].node].st # "unbuilt"
BuiltCalls == OfBuilt(graph) /\ \A r \in Recordings : OfBuilt(kept[r].raw)

StreamSees == EndSees(queue, meta_words) /\ RunSees(queue, meta_words)

MetaInv == StreamSees /\ BuiltCalls

-----------------------------------------------------------------------------
\* A stream that grows, and one whose oldest command runs.

LEMMA JoinFacts ==
    ASSUME NEW C, NEW q \in Seq(C), NEW cs \in Seq(C)
    PROVE  /\ Len(q) \in Nat /\ Len(cs) \in Nat /\ Len(q \o cs) = Len(q) + Len(cs)
           /\ \A k \in 1..Len(q) : (q \o cs)[k] = q[k]
           /\ \A k \in 1..Len(cs) : (q \o cs)[Len(q) + k] = cs[k]
OBVIOUS

LEMMA OldSee ==
    ASSUME NEW C, NEW q \in Seq(C), NEW cs \in Seq(C), NEW w, NEW i, NEW m,
           NEW k \in 1..(Len(q) + 1), Sees(q, w, k, i, m)
    PROVE  Sees(q \o cs, w, k, i, m)
<1> DEFINE r == q \o cs
<1>1. Len(q) \in Nat /\ \A j \in 1..Len(q) : r[j] = q[j]  BY JoinFacts
<1> HIDE DEF r
<1>2. \A j \in 1..(k - 1) : r[j] = q[j]  BY <1>1
<1>3. CASE w[i] = m /\ \A j \in 1..(k - 1) : ~ IsMeta(q[j], i)
  <2>1. Sees(r, w, k, i, m)  BY <1>2, <1>3 DEF Sees
  <2>2. QED  BY <2>1 DEF r
<1>4. ASSUME NEW j \in 1..(k - 1), IsMeta(q[j], i), q[j].meta = m,
             \A l \in (j + 1)..(k - 1) : ~ IsMeta(q[l], i)
      PROVE  Sees(q \o cs, w, k, i, m)
  <2>1. r[j] = q[j]  BY <1>2
  <2>2. \A l \in (j + 1)..(k - 1) : ~ IsMeta(r[l], i)  BY <1>2, <1>4
  <2>3. Sees(r, w, k, i, m)  BY <1>4, <2>1, <2>2 DEF Sees
  <2>4. QED  BY <2>3 DEF r
<1>5. QED  BY <1>3, <1>4 DEF Sees

LEMMA NewSee ==
    ASSUME NEW C, NEW q \in Seq(C), NEW cs \in Seq(C), NEW w, NEW i, NEW m,
           Sees(q, w, Len(q) + 1, i, m), \A n \in 1..Len(cs) : ~ IsMeta(cs[n], i),
           NEW k \in (Len(q) + 1)..(Len(q) + Len(cs) + 1)
    PROVE  Sees(q \o cs, w, k, i, m)
<1> DEFINE r == q \o cs
<1>1. Len(q) \in Nat /\ Len(cs) \in Nat /\ (\A j \in 1..Len(q) : r[j] = q[j])
      /\ (\A n \in 1..Len(cs) : r[Len(q) + n] = cs[n])
  BY JoinFacts
<1> HIDE DEF r
<1>2. ASSUME NEW l \in 1..(k - 1), l > Len(q) PROVE ~ IsMeta(r[l], i)
  <2> DEFINE n == l - Len(q)
  <2>1. n \in 1..Len(cs) /\ l = Len(q) + n  BY <1>1, <1>2
  <2> HIDE DEF n
  <2>2. QED  BY <1>1, <2>1
<1>3. CASE w[i] = m /\ \A j \in 1..Len(q) : ~ IsMeta(q[j], i)
  <2>1. \A j \in 1..(k - 1) : ~ IsMeta(r[j], i)  BY <1>1, <1>2, <1>3
  <2>2. Sees(r, w, k, i, m)  BY <1>3, <2>1 DEF Sees
  <2>3. QED  BY <2>2 DEF r
<1>4. ASSUME NEW j \in 1..Len(q), IsMeta(q[j], i), q[j].meta = m,
             \A l \in (j + 1)..Len(q) : ~ IsMeta(q[l], i)
      PROVE  Sees(q \o cs, w, k, i, m)
  <2>1. j \in 1..(k - 1) /\ r[j] = q[j]  BY <1>1
  <2>2. ASSUME NEW l \in (j + 1)..(k - 1) PROVE ~ IsMeta(r[l], i)
    <3>1. CASE l > Len(q)
      <4>1. l \in 1..(k - 1)  OBVIOUS
      <4>2. QED  BY <1>2, <3>1, <4>1
    <3>2. CASE l <= Len(q)
      <4>1. l \in (j + 1)..Len(q) /\ l \in 1..Len(q)  BY <1>1, <3>2
      <4>2. QED  BY <1>1, <1>4, <4>1
    <3>3. QED  BY <1>1, <3>1, <3>2
  <2>3. Sees(r, w, k, i, m)  BY <1>4, <2>1, <2>2 DEF Sees
  <2>4. QED  BY <2>3 DEF r
<1>5. (Len(q) + 1) - 1 = Len(q)  BY <1>1
<1>6. QED  BY <1>3, <1>4, <1>5 DEF Sees

LEMMA WriteSeen ==
    ASSUME NEW C, NEW q \in Seq(C), NEW c \in C, NEW w, NEW i, IsMeta(c, i)
    PROVE  Sees(q \o <<c>>, w, Len(q \o <<c>>) + 1, i, c.meta)
<1> DEFINE r == q \o <<c>>
<1>1. <<c>> \in Seq(C) /\ Len(<<c>>) = 1 /\ <<c>>[1] = c  OBVIOUS
<1>2. Len(q) \in Nat /\ Len(r) = Len(q) + 1 /\ r[Len(q) + 1] = c  BY <1>1, JoinFacts
<1> HIDE DEF r
<1>3. Len(r) \in 1..((Len(r) + 1) - 1) /\ IsMeta(r[Len(r)], i) /\ r[Len(r)].meta = c.meta
      /\ \A l \in (Len(r) + 1)..((Len(r) + 1) - 1) : ~ IsMeta(r[l], i)
  BY <1>2
<1>4. Sees(r, w, Len(r) + 1, i, c.meta)  BY <1>3 DEF Sees
<1>5. QED  BY <1>4 DEF r

LEMMA RestSees ==
    ASSUME NEW C, NEW q \in Seq(C), q # <<>>, NEW w, NEW i \in DOMAIN w, NEW m,
           NEW k \in 1..Len(q), Sees(q, w, k + 1, i, m),
           NEW v, v = IF q[1].op = "meta" THEN [w EXCEPT ![q[1].node] = q[1].meta] ELSE w
    PROVE  Sees(Tail(q), v, k, i, m)
<1> DEFINE r == Tail(q)
<1>1. Len(q) \in Nat \ {0} /\ k \in Nat \ {0}  OBVIOUS
<1>2. \A j \in 1..(k - 1) : r[j] = q[j + 1]  OBVIOUS
<1> HIDE DEF r
<1>3. v[i] = IF IsMeta(q[1], i) THEN q[1].meta ELSE w[i]  BY DEF IsMeta
<1>4. CASE w[i] = m /\ \A j \in 1..k : ~ IsMeta(q[j], i)
  <2>1. ~ IsMeta(q[1], i) /\ \A j \in 1..(k - 1) : ~ IsMeta(r[j], i)  BY <1>1, <1>2, <1>4
  <2>2. Sees(r, v, k, i, m)  BY <1>3, <1>4, <2>1 DEF Sees
  <2>3. QED  BY <2>2 DEF r
<1>5. ASSUME NEW j \in 1..k, IsMeta(q[j], i), q[j].meta = m, \A l \in (j + 1)..k : ~ IsMeta(q[l], i)
      PROVE  Sees(Tail(q), v, k, i, m)
  <2>1. CASE j = 1
    <3>1. v[i] = m /\ \A l \in 1..(k - 1) : ~ IsMeta(r[l], i)  BY <1>1, <1>2, <1>3, <1>5, <2>1
    <3>2. Sees(r, v, k, i, m)  BY <3>1 DEF Sees
    <3>3. QED  BY <3>2 DEF r
  <2>2. CASE j > 1
    <3> DEFINE n == j - 1
    <3>1. n \in 1..(k - 1) /\ r[n] = q[j] /\ \A l \in (n + 1)..(k - 1) : ~ IsMeta(r[l], i)
      BY <1>1, <1>2, <1>5, <2>2
    <3> HIDE DEF n
    <3>2. Sees(r, v, k, i, m)  BY <1>5, <3>1 DEF Sees
    <3>3. QED  BY <3>2 DEF r
  <2>3. QED  BY <2>1, <2>2
<1>6. (k + 1) - 1 = k  BY <1>1
<1>7. QED  BY <1>4, <1>5, <1>6 DEF Sees

-----------------------------------------------------------------------------
(* The stream, at a step.                                                  *)

\* A node that is built keeps its meta, and none is built.
SameMetas ==
    \A i \in NodeIds : /\ node'[i].st # "unbuilt" <=> node[i].st # "unbuilt"
                       /\ node'[i].meta = node[i].meta

LEMMA StreamStays ==
    ASSUME StreamSees, SameMetas, UNCHANGED <<queue, meta_words>>
    PROVE  StreamSees'
BY DEF StreamSees, EndSees, RunSees, SameMetas, Sees, IsMeta

\* Runs, copies and clears are queued with the metas the nodes have.
LEMMA CallsQueued ==
    ASSUME TypeOK, StreamSees, NEW cs \in Seq(Commands), Enqueue(cs),
           UNCHANGED <<node, meta_words>>,
           \A n \in 1..Len(cs) :
              /\ cs[n].op # "meta"
              /\ cs[n].op = "run" => /\ cs[n].node \in NodeIds
                                     /\ node[cs[n].node].st # "unbuilt"
                                     /\ cs[n].meta = node[cs[n].node].meta
    PROVE  StreamSees'
<1> DEFINE q == queue
           r == queue \o cs
           w == meta_words
<1>1. q \in Seq(Commands) /\ queue' = r  BY DEF Enqueue, TypeOK, DeviceOK
<1>2. /\ Len(q) \in Nat /\ Len(cs) \in Nat /\ Len(r) = Len(q) + Len(cs)
      /\ \A k \in 1..Len(q) : r[k] = q[k]
      /\ \A k \in 1..Len(cs) : r[Len(q) + k] = cs[k]
  BY <1>1, JoinFacts
<1>3. ASSUME NEW i \in NodeIds, node[i].st # "unbuilt", NEW k \in (Len(q) + 1)..(Len(r) + 1)
      PROVE  Sees(r, w, k, i, node[i].meta)
  <2>1. Sees(q, w, Len(q) + 1, i, node[i].meta)  BY <1>3 DEF StreamSees, EndSees
  <2>2. \A n \in 1..Len(cs) : ~ IsMeta(cs[n], i)  BY DEF IsMeta
  <2>3. k \in (Len(q) + 1)..(Len(q) + Len(cs) + 1)  BY <1>2, <1>3
  <2>4. QED  BY <1>1, <2>1, <2>2, <2>3, NewSee
<1>4. ASSUME NEW k \in 1..Len(q), r[k].op = "run"
      PROVE  r[k].node \in NodeIds /\ Sees(r, w, k, r[k].node, r[k].meta)
  <2>1. r[k] = q[k] /\ k \in 1..(Len(q) + 1)  BY <1>2
  <2>2. q[k].node \in NodeIds /\ Sees(q, w, k, q[k].node, q[k].meta)
    BY <1>4, <2>1 DEF StreamSees, RunSees
  <2>3. QED  BY <1>1, <2>1, <2>2, OldSee
<1>5. ASSUME NEW k \in (Len(q) + 1)..Len(r), r[k].op = "run"
      PROVE  r[k].node \in NodeIds /\ Sees(r, w, k, r[k].node, r[k].meta)
  <2> DEFINE n == k - Len(q)
  <2>1. n \in 1..Len(cs) /\ k = Len(q) + n /\ k \in (Len(q) + 1)..(Len(r) + 1)  BY <1>2
  <2> HIDE DEF n
  <2>2. r[k] = cs[n]  BY <1>2, <2>1
  <2> HIDE DEF r, q
  <2>3. QED  BY <1>3, <1>5, <2>1, <2>2
<1> HIDE DEF r, q
<1>6. Len(r) + 1 \in (Len(q) + 1)..(Len(r) + 1)  BY <1>2
<1>7. EndSees(r, w)  BY <1>3, <1>6 DEF EndSees
<1>8. \A k \in 1..Len(r) : k \in 1..Len(q) \/ k \in (Len(q) + 1)..Len(r)  BY <1>2
<1>9. RunSees(r, w)  BY <1>4, <1>5, <1>8 DEF RunSees
<1> HIDE DEF w
<1>10. queue' = r /\ meta_words' = w /\ node' = node  BY <1>1 DEF w
<1>11. QED  BY <1>7, <1>9, <1>10 DEF StreamSees, EndSees, RunSees

\* A node's meta changes with the write that is queued for it.
LEMMA MetaQueued ==
    ASSUME TypeOK, StreamSees, NEW i \in NodeIds, NEW c \in Commands, IsMeta(c, i),
           Enqueue(<<c>>), UNCHANGED meta_words,
           node'[i].meta = c.meta,
           \A j \in NodeIds \ {i} : node'[j] = node[j]
    PROVE  StreamSees'
<1> DEFINE q == queue
           r == queue \o <<c>>
           w == meta_words
<1>1. q \in Seq(Commands) /\ queue' = r  BY DEF Enqueue, TypeOK, DeviceOK
<1>2. <<c>> \in Seq(Commands) /\ Len(<<c>>) = 1 /\ <<c>>[1] = c  OBVIOUS
<1>3. /\ Len(q) \in Nat /\ Len(r) = Len(q) + 1
      /\ \A k \in 1..Len(q) : r[k] = q[k]
      /\ r[Len(q) + 1] = c
  BY <1>1, <1>2, JoinFacts
<1>4. Sees(r, w, Len(r) + 1, i, c.meta)  BY <1>1, WriteSeen
<1>5. ASSUME NEW j \in NodeIds \ {i}, node[j].st # "unbuilt"
      PROVE  Sees(r, w, Len(r) + 1, j, node[j].meta)
  <2>1. Sees(q, w, Len(q) + 1, j, node[j].meta)  BY <1>5 DEF StreamSees, EndSees
  <2>2. \A n \in 1..Len(<<c>>) : ~ IsMeta(<<c>>[n], j)  BY <1>2 DEF IsMeta
  <2>3. Len(r) + 1 \in (Len(q) + 1)..(Len(q) + Len(<<c>>) + 1)  BY <1>2, <1>3
  <2>4. QED  BY <1>1, <1>2, <2>1, <2>2, <2>3, NewSee
<1>6. ASSUME NEW k \in 1..Len(q), r[k].op = "run"
      PROVE  r[k].node \in NodeIds /\ Sees(r, w, k, r[k].node, r[k].meta)
  <2>1. r[k] = q[k] /\ k \in 1..(Len(q) + 1)  BY <1>3
  <2>2. q[k].node \in NodeIds /\ Sees(q, w, k, q[k].node, q[k].meta)
    BY <1>6, <2>1 DEF StreamSees, RunSees
  <2>3. QED  BY <1>1, <1>2, <2>1, <2>2, OldSee
<1> HIDE DEF r, q
<1>7. \A k \in 1..Len(r) : k \in 1..Len(q) \/ k = Len(q) + 1  BY <1>3
<1>8. RunSees(r, w)  BY <1>3, <1>6, <1>7 DEF RunSees, IsMeta
<1>9. \A j \in NodeIds : node'[j].st # "unbuilt" => Sees(r, w, Len(r) + 1, j, node'[j].meta)
  BY <1>4, <1>5
<1> HIDE DEF w
<1>10. queue' = r /\ meta_words' = w  BY <1>1 DEF w
<1>11. QED  BY <1>8, <1>9, <1>10 DEF StreamSees, EndSees, RunSees

\* The device takes the oldest command.
LEMMA OldestRuns ==
    ASSUME TypeOK, StreamSees, RunCommand
    PROVE  StreamSees'
<1> DEFINE q == queue
           r == Tail(queue)
           w == meta_words
           v == IF q[1].op = "meta" THEN [w EXCEPT ![q[1].node] = q[1].meta] ELSE w
<1>1. q \in Seq(Commands) /\ q # <<>> /\ queue' = r /\ meta_words' = v /\ node' = node
      /\ DOMAIN w = NodeIds
  <2>1. queue \in Seq(Commands) /\ queue # <<>> /\ DOMAIN meta_words = NodeIds
    BY DEF TypeOK, DeviceOK, RunCommand
  <2>2. Head(queue) = queue[1]  BY <2>1
  <2>3. QED  BY <2>1, <2>2 DEF RunCommand, hostvars
<1>2. Len(q) \in Nat \ {0} /\ Len(r) = Len(q) - 1 /\ \A k \in 1..Len(r) : r[k] = q[k + 1]
  BY <1>1
<1>3. ASSUME NEW k \in 1..Len(q), NEW i \in NodeIds, NEW m, Sees(q, w, k + 1, i, m)
      PROVE  Sees(r, v, k, i, m)
  BY <1>1, <1>3, RestSees
<1> HIDE DEF q, r, v, w
<1>4. EndSees(r, v)
  <2>1. Len(r) + 1 = Len(q) /\ Len(q) \in 1..Len(q)  BY <1>2
  <2>2. \A i \in NodeIds : node[i].st # "unbuilt" => Sees(q, w, Len(q) + 1, i, node[i].meta)
    BY DEF StreamSees, EndSees, q, w
  <2>3. QED  BY <1>3, <2>1, <2>2 DEF EndSees
<1>5. RunSees(r, v)
  <2>1. ASSUME NEW k \in 1..Len(r), r[k].op = "run"
        PROVE  r[k].node \in NodeIds /\ Sees(r, v, k, r[k].node, r[k].meta)
    <3>1. r[k] = q[k + 1] /\ k \in 1..Len(q) /\ k + 1 \in 1..Len(q)  BY <1>2
    <3>2. q[k + 1].node \in NodeIds /\ Sees(q, w, k + 1, q[k + 1].node, q[k + 1].meta)
      BY <2>1, <3>1 DEF StreamSees, RunSees, q, w
    <3>3. QED  BY <1>3, <3>1, <3>2
  <2>2. QED  BY <2>1 DEF RunSees
<1>6. QED  BY <1>1, <1>4, <1>5 DEF StreamSees, EndSees, RunSees

-----------------------------------------------------------------------------
(* What is recorded.                                                       *)

\* Calls are recorded, kept and forgotten; nodes stay built.
LEMMA CallsStay ==
    ASSUME TypeOK, BuiltCalls,
           \A i \in NodeIds : node[i].st # "unbuilt" => node'[i].st # "unbuilt",
           graph' = graph \/ graph' = <<>>,
           \A r \in Recordings : kept'[r].raw \in {kept[r].raw, graph, <<>>}
    PROVE  BuiltCalls'
<1>1. ASSUME NEW raw \in Seq(RawCall), OfBuilt(raw), NEW k \in 1..Len(raw)
      PROVE  node'[raw[k].node].st # "unbuilt"
  <2>1. raw[k] \in RawCall  OBVIOUS
  <2>2. QED  BY <1>1, <2>1 DEF OfBuilt, RawCall
<1>2. graph \in Seq(RawCall) /\ \A r \in Recordings : kept[r].raw \in Seq(RawCall)
  BY DEF TypeOK, CapturesOK
<1>3. \A raw \in Seq(RawCall) : OfBuilt(raw) =>
          \A k \in 1..Len(raw) : node'[raw[k].node].st # "unbuilt"
  BY <1>1
<1>4. Len(<<>>) = 0  OBVIOUS
<1>5. \A k \in 1..Len(graph') : node'[graph'[k].node].st # "unbuilt"
  BY <1>2, <1>3, <1>4 DEF BuiltCalls
<1>6. ASSUME NEW r \in Recordings, NEW k \in 1..Len(kept'[r].raw)
      PROVE  node'[kept'[r].raw[k].node].st # "unbuilt"
  BY <1>2, <1>3, <1>4, <1>6 DEF BuiltCalls
<1>7. QED  BY <1>5, <1>6 DEF BuiltCalls, OfBuilt

LEMMA CallRecorded ==
    ASSUME TypeOK, BuiltCalls, NEW raw, node[raw.node].st # "unbuilt",
           graph' = Append(graph, raw), UNCHANGED <<node, kept>>
    PROVE  BuiltCalls'
<1>1. graph \in Seq(RawCall)  BY DEF TypeOK, CapturesOK
<1>2. /\ Len(graph) \in Nat /\ Len(graph') = Len(graph) + 1
      /\ \A k \in 1..Len(graph) : graph'[k] = graph[k]
      /\ graph'[Len(graph) + 1] = raw
  BY <1>1
<1>3. \A k \in 1..Len(graph') : k \in 1..Len(graph) \/ k = Len(graph) + 1  BY <1>2
<1>4. QED  BY <1>2, <1>3 DEF BuiltCalls, OfBuilt

-----------------------------------------------------------------------------
(* Every step.                                                             *)

LEMMA InitMeta == Init => MetaInv
<1> SUFFICES ASSUME Init PROVE MetaInv  OBVIOUS
<1>1. Len(<<>>) = 0  OBVIOUS
<1>2. \A r \in Recordings : kept[r].raw = <<>>  BY DEF Init, NoRecording
<1>3. QED  BY <1>1, <1>2 DEF Init, MetaInv, StreamSees, EndSees, RunSees, BuiltCalls, OfBuilt

\* Steps that leave the stream, what is recorded and every meta alone.
LEMMA QuietStep ==
    ASSUME TypeOK, MetaInv, UNCHANGED <<queue, meta_words, graph, kept>>, SameMetas
    PROVE  MetaInv'
<1>1. StreamSees'  BY StreamStays DEF MetaInv
<1>2. BuiltCalls'  BY CallsStay DEF MetaInv, SameMetas
<1>3. QED  BY <1>1, <1>2 DEF MetaInv

LEMMA HostStep ==
    ASSUME TypeOK, MetaInv,
           \/ \E t \in Tensors : \/ \E len \in Lens : Alloc(t, len)
                                 \/ DropTensor(t)
                                 \/ \E u \in Tensors : ReplaceTensor(t, u)
           \/ \E p \in Places : \E q \in Places : MoveNode(p, q) \/ ReplaceNode(p, q)
           \/ \E s \in Scopes : \/ OpenScope(s)
                                \/ EndScope(s)
                                \/ CloseScope(s)
                                \/ \E t \in Tensors : bind(s, t)
                                \/ \E p \in Places : bind_node(s, p)
           \/ UNCHANGED vars
    PROVE  MetaInv'
<1>1. UNCHANGED <<node, queue, meta_words, graph, kept>>
  BY DEF Alloc, DropTensor, ReplaceTensor, MoveNode, ReplaceNode, OpenScope, EndScope, CloseScope,
         bind, bind_node, vars, hostvars, scopevars, capturevars
<1>2. QED  BY <1>1, QuietStep DEF SameMetas

LEMMA DropNodeStep ==
    ASSUME TypeOK, MetaInv, NEW p \in Places, DropNode(p)
    PROVE  MetaInv'
<1>1. place[p] \in NodeIds /\ node[place[p]].st = "live"
  BY DEF TypeOK, NodesOK, DropNode
<1>2. node' = [node EXCEPT ![place[p]].st = "dropped"]
      /\ UNCHANGED <<queue, meta_words, graph, kept>>
  BY DEF DropNode, capturevars
<1>3. SameMetas  BY <1>1, <1>2 DEF SameMetas, TypeOK, NodesOK
<1>4. QED  BY <1>2, <1>3, QuietStep

\* A meta write is queued where a node is built and where its meta changes.
LEMMA MetaStep ==
    ASSUME TypeOK, MetaInv, NEW p \in Places, NEW m \in Metas,
           \/ \E i \in NodeIds, sh \in Shaders : BuildNode(p, i, sh, m)
           \/ update_meta(p, m)
    PROVE  MetaInv'
<1>1. PICK i \in NodeIds :
         /\ Enqueue(<<[op |-> "meta", by |-> None, node |-> i, place |-> None,
                       bufs |-> <<>>, meta |-> m, how |-> "called"]>>)
         /\ node'[i].meta = m /\ node'[i].st # "unbuilt"
         /\ \A j \in NodeIds \ {i} : node'[j] = node[j]
         /\ UNCHANGED <<meta_words, graph, kept>>
  <2>1. CASE update_meta(p, m)
    <3>1. place[p] \in NodeIds /\ node[place[p]].st = "live"
      BY <2>1 DEF TypeOK, NodesOK, update_meta
    <3>2. /\ node'[place[p]].meta = m /\ node'[place[p]].st = node[place[p]].st
          /\ \A j \in NodeIds \ {place[p]} : node'[j] = node[j]
      BY <2>1, <3>1 DEF TypeOK, NodesOK, update_meta
    <3>3. QED  BY <2>1, <3>1, <3>2 DEF update_meta, capturevars
  <2>2. CASE \E i \in NodeIds, sh \in Shaders : BuildNode(p, i, sh, m)
    <3>1. PICK i \in NodeIds, sh \in Shaders : BuildNode(p, i, sh, m)  BY <2>2
    <3>2. node'[i].meta = m /\ node'[i].st = "live" /\ \A j \in NodeIds \ {i} : node'[j] = node[j]
      BY <3>1 DEF TypeOK, NodesOK, BuildNode
    <3>3. /\ Enqueue(<<[op |-> "meta", by |-> None, node |-> i, place |-> None,
                        bufs |-> <<>>, meta |-> m, how |-> "called"]>>)
          /\ UNCHANGED <<meta_words, graph, kept>>
      BY <3>1 DEF BuildNode, capturevars
    <3>4. QED  BY <3>2, <3>3
  <2>3. QED  BY <2>1, <2>2
<1> DEFINE c == [op |-> "meta", by |-> None, node |-> i, place |-> None, bufs |-> <<>>, meta |-> m,
                 how |-> "called"]
<1>2. c \in Commands
  <2>1. <<>> \in Seq(Buffers)  OBVIOUS
  <2>2. QED  BY <2>1 DEF Commands
<1>3. IsMeta(c, i) /\ c.meta = m /\ Enqueue(<<c>>)  BY <1>1 DEF IsMeta
<1> HIDE DEF c
<1>4. StreamSees'  BY <1>1, <1>2, <1>3, MetaQueued DEF MetaInv
<1>5. BuiltCalls'  BY <1>1, CallsStay DEF MetaInv
<1>6. QED  BY <1>4, <1>5 DEF MetaInv

\* A step that queues commands and records nothing.
LEMMA QueueStep ==
    ASSUME TypeOK, MetaInv, NEW cs \in Seq(Commands), Enqueue(cs),
           UNCHANGED <<node, meta_words, graph, kept>>,
           \A n \in 1..Len(cs) :
              /\ cs[n].op # "meta"
              /\ cs[n].op = "run" => /\ cs[n].node \in NodeIds
                                     /\ node[cs[n].node].st # "unbuilt"
                                     /\ cs[n].meta = node[cs[n].node].meta
    PROVE  MetaInv'
<1>1. StreamSees'  BY CallsQueued DEF MetaInv
<1>2. BuiltCalls'  BY CallsStay DEF MetaInv
<1>3. QED  BY <1>1, <1>2 DEF MetaInv

LEMMA ExecuteStep ==
    ASSUME TypeOK, MetaInv, NEW s \in Scopes, NEW p \in nodes[s],
           NEW args \in ArgLists(node[place[p]]), execute(s, p, args)
    PROVE  MetaInv'
<1> DEFINE c == Command(s, "run", p, RawBuffers(args), node[place[p]].meta)
           raw == [node |-> place[p], place |-> p, bufs |-> RawBuffers(args),
                   call |-> IF recording[s].armed THEN Len(recording[s].calls) + 1 ELSE 0]
<1>1. /\ p \in Places
      /\ place[p] \in NodeIds /\ node[place[p]].st = "live"
      /\ node[place[p]].meta \in Metas
  BY DEF TypeOK, ScopesOK, NodesOK
<1>2. <<c>> \in Seq(Commands)
  <2>1. RawBuffers(args) \in Seq(Buffers)  BY ArgsType DEF execute
  <2>2. QED  BY <1>1, <2>1, CommandType, NoneAssumption
<1>3. c.op = "run" /\ c.node = place[p] /\ c.meta = node[place[p]].meta
  BY <1>1, NoneAssumption DEF Command
<1>4. raw.node = place[p]  OBVIOUS
<1>5. UNCHANGED <<node, meta_words, kept>>  BY DEF execute, hostvars
<1>6. CASE capturing
  <2>1. queue' = queue /\ graph' = Append(graph, raw)  BY <1>6 DEF execute
  <2> HIDE DEF raw
  <2>2. StreamSees'  BY <1>5, <2>1, StreamStays DEF MetaInv, SameMetas
  <2>3. BuiltCalls'  BY <1>1, <1>4, <1>5, <2>1, CallRecorded DEF MetaInv
  <2>4. QED  BY <2>2, <2>3 DEF MetaInv
<1>7. CASE ~ capturing
  <2>1. Enqueue(<<c>>) /\ graph' = graph  BY <1>7 DEF execute
  <2> HIDE DEF c
  <2> DEFINE cs == <<c>>
  <2>2. \A n \in 1..Len(cs) : cs[n] = c  OBVIOUS
  <2>3. cs \in Seq(Commands) /\ Enqueue(cs)  BY <1>2, <2>1
  <2> HIDE DEF cs
  <2>4. QED  BY <1>1, <1>3, <1>5, <2>1, <2>2, <2>3, QueueStep
<1>8. QED  BY <1>6, <1>7

\* Copies and clears see no meta.
LEMMA CopyStep ==
    ASSUME TypeOK, MetaInv, NEW s \in Scopes, NEW op \in {"copy", "clear"}, NEW ts \in Seq(Tensors),
           \A k \in DOMAIN ts : tensor[ts[k]] # None,
           Enqueue(<<Command(s, op, None, [k \in DOMAIN ts |-> tensor[ts[k]]], None)>>),
           UNCHANGED <<node, meta_words, graph, kept>>
    PROVE  MetaInv'
<1> DEFINE bs == [k \in DOMAIN ts |-> tensor[ts[k]]]
           c == Command(s, op, None, bs, None)
<1>1. bs \in Seq(Buffers)
  <2>1. \A k \in DOMAIN ts : ts[k] \in Tensors /\ tensor[ts[k]] \in Buffers
    BY DEF TypeOK, TensorsOK
  <2>2. bs \in [1..Len(ts) -> Buffers]  BY <2>1
  <2>3. QED  BY <2>2
<1> HIDE DEF bs
<1>2. <<c>> \in Seq(Commands) /\ c.op = op  BY <1>1, CommandType DEF Command
<1>3. Enqueue(<<c>>)  BY DEF bs
<1> HIDE DEF c
<1> DEFINE cs == <<c>>
<1>4. \A n \in 1..Len(cs) : cs[n] = c  OBVIOUS
<1>5. cs \in Seq(Commands) /\ Enqueue(cs)  BY <1>2, <1>3
<1> HIDE DEF cs
<1>6. QED  BY <1>2, <1>4, <1>5, QueueStep

LEMMA CopiesStep ==
    ASSUME TypeOK, MetaInv, NEW s \in Scopes, NEW t \in Tensors, NEW u \in Tensors,
           copy(s, t, u) \/ copy_into(s, t, u) \/ zero(s, t)
    PROVE  MetaInv'
<1> USE DEF hostvars, capturevars
<1>1. <<t, u>> \in Seq(Tensors) /\ <<t>> \in Seq(Tensors)  OBVIOUS
<1>2. CASE copy(s, t, u)
  <2> DEFINE ts == <<t, u>>
             bs == [k \in DOMAIN ts |-> tensor[ts[k]]]
  <2>1. bs = <<tensor[t], tensor[u]>>  OBVIOUS
  <2>2. \A k \in DOMAIN ts : tensor[ts[k]] # None  BY <1>2 DEF copy, TypeOK, ScopesOK
  <2>3. Enqueue(<<Command(s, "copy", None, bs, None)>>)  BY <1>2, <2>1 DEF copy
  <2>4. UNCHANGED <<node, meta_words, graph, kept>>  BY <1>2 DEF copy
  <2> HIDE DEF ts
  <2>5. ts \in Seq(Tensors)  BY <1>1 DEF ts
  <2>6. QED  BY <2>2, <2>3, <2>4, <2>5, CopyStep
<1>3. ASSUME NEW op \in {"copy", "clear"}, NEW ts \in Seq(Tensors), Blocking(s, op, ts)
      PROVE  MetaInv'
  BY <1>3, CopyStep DEF Blocking
<1>4. QED  BY <1>1, <1>2, <1>3 DEF copy_into, zero

\* A capture that starts or ends queues nothing.
LEMMA CaptureStep ==
    ASSUME TypeOK, MetaInv,
           \/ \E s \in Scopes : \/ BeginCapture(s) \/ FailCapture(s) \/ PanicInCapture(s)
                                \/ \E r \in Recordings : EndCapture(s, r)
           \/ \E r \in Recordings : DropRecording(r)
    PROVE  MetaInv'
<1> USE DEF hostvars
<1>1. UNCHANGED <<node, queue, meta_words>> /\ (graph' = graph \/ graph' = <<>>)
  BY DEF BeginCapture, FailCapture, PanicInCapture, EndCapture, DropRecording, StopRecording
<1>2. \A r \in Recordings : kept'[r].raw \in {kept[r].raw, graph, <<>>}
  <2>1. ASSUME NEW s \in Scopes, NEW r \in Recordings, EndCapture(s, r)
        PROVE  \A x \in Recordings : kept'[x].raw \in {kept[x].raw, graph, <<>>}
    BY <2>1 DEF EndCapture, TypeOK, CapturesOK
  <2>2. ASSUME NEW r \in Recordings, DropRecording(r)
        PROVE  \A x \in Recordings : kept'[x].raw \in {kept[x].raw, graph, <<>>}
    BY <2>2 DEF DropRecording, NoRecording, TypeOK, CapturesOK
  <2>3. QED  BY <2>1, <2>2 DEF BeginCapture, FailCapture, PanicInCapture
<1>3. StreamSees'  BY <1>1, StreamStays DEF MetaInv, SameMetas
<1>4. BuiltCalls'  BY <1>1, <1>2, CallsStay DEF MetaInv
<1>5. QED  BY <1>3, <1>4 DEF MetaInv

\* A replay queues the recorded runs, each with its node's meta.
LEMMA ReplayStep ==
    ASSUME TypeOK, MetaInv, NEW s \in Scopes, NEW r \in Recordings, replay(s, r)
    PROVE  MetaInv'
<1> DEFINE raw == kept[r].raw
           run(k) == ReplayCommand(s, raw[k])
           cs == [k \in DOMAIN raw |-> run(k)]
<1>1. raw \in Seq(RawCall) /\ OfBuilt(raw)  BY DEF TypeOK, CapturesOK, MetaInv, BuiltCalls
<1>2. ASSUME NEW k \in 1..Len(raw)
      PROVE  /\ run(k) \in Commands /\ run(k).op = "run"
             /\ run(k).node \in NodeIds /\ node[run(k).node].st # "unbuilt"
             /\ run(k).meta = node[run(k).node].meta
  <2>1. raw[k] \in RawCall  BY <1>1
  <2>2. raw[k].node \in NodeIds /\ raw[k].place \in Places /\ raw[k].bufs \in Seq(Buffers)
    BY <2>1 DEF RawCall
  <2>3. node[raw[k].node].meta \in Metas \cup {None}  BY <2>2 DEF TypeOK, NodesOK
  <2>4. run(k) \in Commands  BY <2>2, <2>3 DEF Commands, ReplayCommand
  <2>5. node[raw[k].node].st # "unbuilt"  BY <1>1 DEF OfBuilt
  <2>6. QED  BY <2>2, <2>4, <2>5 DEF ReplayCommand
<1>3. Enqueue(cs) /\ UNCHANGED <<node, meta_words, graph, kept>>
  BY DEF replay, hostvars, capturevars
<1>4. DOMAIN raw = 1..Len(raw) /\ Len(raw) \in Nat  BY <1>1
<1> HIDE DEF raw, run
<1>5. cs \in [1..Len(raw) -> Commands] /\ \A k \in 1..Len(raw) : cs[k] = run(k)  BY <1>2, <1>4
<1> HIDE DEF cs
<1>6. cs \in Seq(Commands) /\ Len(cs) = Len(raw)  BY <1>4, <1>5
<1>7. \A k \in 1..Len(cs) :
         /\ cs[k].op # "meta"
         /\ cs[k].op = "run" => /\ cs[k].node \in NodeIds
                                /\ node[cs[k].node].st # "unbuilt"
                                /\ cs[k].meta = node[cs[k].node].meta
  BY <1>2, <1>5, <1>6
<1>8. QED  BY <1>3, <1>6, <1>7, QueueStep

LEMMA RunStep ==
    ASSUME TypeOK, MetaInv, RunCommand
    PROVE  MetaInv'
<1>1. StreamSees'  BY OldestRuns DEF MetaInv
<1>2. BuiltCalls'  BY CallsStay DEF MetaInv, RunCommand, hostvars, capturevars
<1>3. QED  BY <1>1, <1>2 DEF MetaInv

LEMMA NextMeta == TypeOK /\ MetaInv /\ [Next]_vars => MetaInv'
BY HostStep, DropNodeStep, MetaStep, ExecuteStep, CopiesStep, CaptureStep, ReplayStep, RunStep
   DEF Next

\* The oldest command has no write before it: what it sees is on the device.
LEMMA MetaSeen == TypeOK /\ MetaInv => RunsSeeTheirMeta
<1> SUFFICES ASSUME TypeOK, MetaInv, queue # <<>>, Head(queue).op = "run"
             PROVE  meta_words[Head(queue).node] = Head(queue).meta
  BY DEF RunsSeeTheirMeta
<1>1. queue \in Seq(Commands)  BY DEF TypeOK, DeviceOK
<1>2. Head(queue) = queue[1] /\ 1 \in 1..Len(queue)  BY <1>1
<1>3. Sees(queue, meta_words, 1, queue[1].node, queue[1].meta)
  BY <1>2 DEF MetaInv, StreamSees, RunSees
<1>4. 1..(1 - 1) = {}  OBVIOUS
<1>5. QED  BY <1>2, <1>3, <1>4 DEF Sees

\* A run, executed or replayed, sees the meta its node had when it was queued,
\* whatever update_meta, node builds and other scopes queue behind it
\* (Device::update_meta in src/backend/mod.rs, Scope::replay in src/safe/scope.rs).
THEOREM MetasSeen == Spec => []RunsSeeTheirMeta
<1>1. Init => MetaInv  BY InitMeta
<1>2. TypeOK /\ MetaInv /\ [Next]_vars => MetaInv'  BY NextMeta
<1>3. TypeOK /\ MetaInv => RunsSeeTheirMeta  BY MetaSeen
<1>4. QED  BY <1>1, <1>2, <1>3, TypeCorrect, PTL DEF Spec

-----------------------------------------------------------------------------
(* Buffers and nodes keep what they were made with.                        *)

SameBuffers ==
    \A b \in Buffers : buffer[b].st # "unmade" =>
        /\ buffer'[b].st # "unmade"
        /\ buffer'[b].len = buffer[b].len
        /\ buffer'[b].address = buffer[b].address

SameShaders ==
    \A i \in NodeIds : node[i].st # "unbuilt" =>
        node'[i].st # "unbuilt" /\ node'[i].shader = node[i].shader

\* A node's needed lengths are those of its meta.
LensAgree ==
    \A i \in NodeIds : node[i].st # "unbuilt" =>
        /\ node[i].shader \in Shaders /\ node[i].meta \in Metas
        /\ node[i].lens = MinLens[node[i].shader][node[i].meta]

LEMMA BuffersKeep == TypeOK /\ [Next]_vars => SameBuffers
<1> USE DEF TypeOK, TensorsOK, SameBuffers
<1>1. ASSUME NEW t \in Tensors, NEW len \in Lens, TypeOK, Alloc(t, len) PROVE SameBuffers
  BY <1>1 DEF Alloc
<1>2. ASSUME NEW t \in Tensors, TypeOK, DropTensor(t) PROVE SameBuffers
  BY <1>2 DEF DropTensor
<1>3. ASSUME NEW t \in Tensors, NEW u \in Tensors, ReplaceTensor(t, u) PROVE SameBuffers
  BY <1>3 DEF ReplaceTensor
<1>4. UNCHANGED <<buffer, tensor>> => SameBuffers  OBVIOUS
<1> HIDE DEF TypeOK, TensorsOK, SameBuffers
<1>5. QED  BY <1>1, <1>2, <1>3, <1>4, BufferSteps

LEMMA NodeSteps ==
    [Next]_vars =>
      \/ node' = node
      \/ \E p \in Places : \/ \E i \in NodeIds, sh \in Shaders, m \in Metas : BuildNode(p, i, sh, m)
                           \/ DropNode(p)
                           \/ \E m \in Metas : update_meta(p, m)
<1> USE DEF hostvars
<1>1. ASSUME NEW s \in Scopes,
             \/ BeginCapture(s) \/ FailCapture(s) \/ PanicInCapture(s)
             \/ \E r \in Recordings : EndCapture(s, r) \/ replay(s, r)
             \/ \E p \in nodes[s] : \E args \in ArgLists(node[place[p]]) : execute(s, p, args)
      PROVE  node' = node
  BY <1>1 DEF BeginCapture, FailCapture, PanicInCapture, EndCapture, StopRecording, replay, execute
<1>2. ASSUME NEW s \in Scopes,
             \/ OpenScope(s) \/ EndScope(s) \/ CloseScope(s)
             \/ \E t \in Tensors : bind(s, t) \/ zero(s, t)
             \/ \E p \in Places : bind_node(s, p)
             \/ \E t, u \in Tensors : copy(s, t, u) \/ copy_into(s, t, u)
      PROVE  node' = node
  BY <1>2 DEF OpenScope, bind, bind_node, EndScope, CloseScope, copy, copy_into, zero, Blocking
<1>3. ASSUME NEW t \in Tensors, \/ \E len \in Lens : Alloc(t, len)
                                \/ DropTensor(t)
                                \/ \E u \in Tensors : ReplaceTensor(t, u)
      PROVE  node' = node
  BY <1>3 DEF Alloc, DropTensor, ReplaceTensor
<1>4. ASSUME NEW p \in Places, NEW q \in Places, MoveNode(p, q) \/ ReplaceNode(p, q)
      PROVE  node' = node
  BY <1>4 DEF MoveNode, ReplaceNode
<1>5. QED  BY <1>1, <1>2, <1>3, <1>4 DEF Next, vars, RunCommand, DropRecording

LEMMA NodesKeep ==
    ASSUME TypeOK, LensAgree, [Next]_vars
    PROVE  SameShaders /\ LensAgree'
<1> USE DEF LensAgree, SameShaders, TypeOK, NodesOK
<1>1. ASSUME NEW p \in Places, NEW i \in NodeIds, NEW sh \in Shaders, NEW m \in Metas,
             BuildNode(p, i, sh, m)
      PROVE  SameShaders /\ LensAgree'
  BY <1>1 DEF BuildNode
<1>2. ASSUME NEW p \in Places, DropNode(p) PROVE SameShaders /\ LensAgree'
  BY <1>2 DEF DropNode
<1>3. ASSUME NEW p \in Places, NEW m \in Metas, update_meta(p, m) PROVE SameShaders /\ LensAgree'
  BY <1>3 DEF update_meta
<1>4. node' = node => SameShaders /\ LensAgree'  OBVIOUS
<1> HIDE DEF LensAgree, SameShaders, TypeOK, NodesOK
<1>5. QED  BY <1>1, <1>2, <1>3, <1>4, NodeSteps

\* The buffers of a run are long enough for the meta it was queued with.
LongEnough(c) ==
    c.op = "run" => /\ c.node \in NodeIds /\ node[c.node].st # "unbuilt"
                    /\ \A slot \in DOMAIN c.bufs :
                          /\ c.bufs[slot] \in Buffers
                          /\ buffer[c.bufs[slot]].st # "unmade"
                          /\ buffer[c.bufs[slot]].len >= MinLens[node[c.node].shader][c.meta][slot]

\* A call whose arguments pass the checks fits.
LEMMA CheckedFits ==
    ASSUME TypeOK, LensAgree, NEW s \in Scopes, NEW p \in nodes[s],
           NEW args \in ArgLists(node[place[p]]),
           \A slot \in DOMAIN args : args[slot].tensor \in bufs[s],
           check(node[place[p]], args)
    PROVE  LongEnough(Command(s, "run", p, RawBuffers(args), node[place[p]].meta))
<1> DEFINE i == place[p]
           bs == RawBuffers(args)
<1>1. /\ p \in Places /\ i \in NodeIds /\ node[i].st = "live" /\ p # None
      /\ node[i].lens = MinLens[node[i].shader][node[i].meta]
  BY NoneAssumption DEF TypeOK, ScopesOK, NodesOK, LensAgree
<1>2. DOMAIN args = DOMAIN Layout[node[i].shader] /\ DOMAIN bs = DOMAIN args
  BY DEF ArgLists, RawBuffers
<1>3. ASSUME NEW slot \in DOMAIN args
      PROVE  /\ bs[slot] \in Buffers /\ buffer[bs[slot]].st # "unmade"
             /\ buffer[bs[slot]].len >= node[i].lens[slot]
  <2>1. bs[slot] = tensor[args[slot].tensor] /\ args[slot].tensor \in bufs[s]  BY DEF RawBuffers
  <2>2. bs[slot] \in Buffers /\ buffer[bs[slot]].st # "unmade"
    BY <2>1 DEF TypeOK, ScopesOK, TensorsOK
  <2>3. buffer[bs[slot]].len >= node[i].lens[slot]  BY <1>2, <2>1 DEF check, long_enough
  <2>4. QED  BY <2>2, <2>3
<1> DEFINE c == Command(s, "run", p, bs, node[i].meta)
<1>4. c.op = "run" /\ c.node = i /\ c.bufs = bs /\ c.meta = node[i].meta  BY <1>1 DEF Command
<1> HIDE DEF bs, c, i
<1>5. LongEnough(c)  BY <1>1, <1>2, <1>3, <1>4 DEF LongEnough
<1>6. QED  BY <1>5 DEF c, bs, i
-----------------------------------------------------------------------------
(* What a scope recorded of its own calls.                                 *)

\* A scope's call, and what the device did for it in buffers b that were made.
Matches(b, call, new) ==
    /\ call.node = new.place
    /\ Len(call.args) = Len(new.bufs)
    /\ \A slot \in DOMAIN call.args :
          /\ b[new.bufs[slot]].st # "unmade"
          /\ call.args[slot].address = b[new.bufs[slot]].address

\* What the device recorded has the calls of others between those of the scope that
\* captures; of its own, the scope has each.
Agrees(b, calls, raw) ==
    \A k \in 1..Len(raw) : raw[k].call # 0 =>
        raw[k].call \in 1..Len(calls) /\ Matches(b, calls[raw[k].call], raw[k])

AgreeInv ==
    /\ \A s \in Scopes : recording[s].armed => Agrees(buffer, recording[s].calls, graph)
    /\ \A r \in Recordings : kept[r].on => Agrees(buffer, kept[r].calls, kept[r].raw)

\* A buffer that was made keeps its address.
LEMMA StillAgrees ==
    ASSUME NEW calls \in Seq(RecordedCall), NEW raw \in Seq(RawCall), NEW a, NEW b,
           \A x \in Buffers : a[x].st # "unmade" => b[x].st # "unmade" /\ b[x].address = a[x].address,
           Agrees(a, calls, raw)
    PROVE  Agrees(b, calls, raw)
<1>1. ASSUME NEW new \in RawCall, NEW call \in RecordedCall, Matches(a, call, new)
      PROVE  Matches(b, call, new)
  <2>1. call.args \in Seq(RecordedArg) /\ new.bufs \in Seq(Buffers)  BY DEF RecordedCall, RawCall
  <2>2. \A slot \in DOMAIN call.args : new.bufs[slot] \in Buffers  BY <1>1, <2>1 DEF Matches
  <2>3. QED  BY <1>1, <2>2 DEF Matches
<1>2. \A k \in 1..Len(raw) : raw[k] \in RawCall  OBVIOUS
<1>3. \A k \in 1..Len(calls) : calls[k] \in RecordedCall  OBVIOUS
<1>4. QED  BY <1>1, <1>2, <1>3 DEF Agrees

\* One more call of the scope itself.
LEMMA BothGrow ==
    ASSUME NEW calls \in Seq(RecordedCall), NEW raw \in Seq(RawCall), NEW b, Agrees(b, calls, raw),
           NEW call, NEW new, new.call = Len(calls) + 1, Matches(b, call, new)
    PROVE  Agrees(b, Append(calls, call), Append(raw, new))
<1> DEFINE c == Append(calls, call)
           r == Append(raw, new)
<1>1. /\ Len(c) = Len(calls) + 1 /\ Len(calls) \in Nat
      /\ \A k \in 1..Len(calls) : c[k] = calls[k]
      /\ c[Len(calls) + 1] = call
  OBVIOUS
<1>2. /\ Len(r) = Len(raw) + 1
      /\ \A k \in 1..Len(raw) : r[k] = raw[k]
      /\ r[Len(raw) + 1] = new
  OBVIOUS
<1> HIDE DEF c, r
<1>3. \A k \in 1..Len(r) : (k \in 1..Len(raw) /\ r[k] = raw[k]) \/ r[k] = new
  BY <1>2
<1>4. ASSUME NEW k \in 1..Len(raw), raw[k].call # 0
      PROVE  raw[k].call \in 1..Len(c) /\ Matches(b, c[raw[k].call], raw[k])
  <2>1. raw[k].call \in 1..Len(calls) /\ Matches(b, calls[raw[k].call], raw[k])
    BY <1>4 DEF Agrees
  <2>2. QED  BY <1>1, <2>1
<1>5. new.call \in 1..Len(c) /\ c[new.call] = call  BY <1>1
<1>6. Agrees(b, c, r)  BY <1>3, <1>4, <1>5 DEF Agrees
<1>7. QED  BY <1>6 DEF c, r

\* One more call of another scope.
LEMMA OtherGrows ==
    ASSUME NEW calls \in Seq(RecordedCall), NEW raw \in Seq(RawCall), NEW b, Agrees(b, calls, raw),
           NEW new, new.call = 0
    PROVE  Agrees(b, calls, Append(raw, new))
<1> DEFINE r == Append(raw, new)
<1>1. \A k \in 1..Len(r) : (k \in 1..Len(raw) /\ r[k] = raw[k]) \/ r[k] = new
  OBVIOUS
<1> HIDE DEF r
<1>2. Agrees(b, calls, r)  BY <1>1 DEF Agrees
<1>3. QED  BY <1>2 DEF r

\* A step after which each capture is as it was, or is new.
LEMMA AgreeStays ==
    ASSUME TypeOK, AgreeInv, SameBuffers,
           \A s \in Scopes : recording'[s].armed =>
               \/ recording'[s] = recording[s] /\ graph' = graph
               \/ graph' = <<>>,
           \A r \in Recordings : kept'[r].on =>
               \/ kept'[r] = kept[r]
               \/ \E s \in Scopes : /\ recording[s].armed
                                    /\ kept'[r].calls = recording[s].calls
                                    /\ kept'[r].raw = graph
    PROVE  AgreeInv'
<1>1. /\ graph \in Seq(RawCall)
      /\ \A r \in Recordings : kept[r].raw \in Seq(RawCall) /\ kept[r].calls \in Seq(RecordedCall)
      /\ \A s \in Scopes : recording[s].calls \in Seq(RecordedCall)
  BY DEF TypeOK, CapturesOK
<1>2. \A s \in Scopes : recording[s].armed => Agrees(buffer', recording[s].calls, graph)
  BY <1>1, StillAgrees DEF AgreeInv, SameBuffers
<1>3. \A r \in Recordings : kept[r].on => Agrees(buffer', kept[r].calls, kept[r].raw)
  BY <1>1, StillAgrees DEF AgreeInv, SameBuffers
<1>4. \A calls : Agrees(buffer', calls, <<>>)
  <2>1. Len(<<>>) = 0  OBVIOUS
  <2>2. QED  BY <2>1 DEF Agrees
<1>5. QED  BY <1>2, <1>3, <1>4 DEF AgreeInv

LEMMA ExecuteAgrees ==
    ASSUME TypeOK, OneCapture, AgreeInv, SameBuffers,
           NEW s \in Scopes, NEW p \in nodes[s], NEW args \in ArgLists(node[place[p]]),
           execute(s, p, args)
    PROVE  AgreeInv'
<1> DEFINE call == [node |-> p, args |-> RecordedArgs(args)]
           new == [node |-> place[p], place |-> p, bufs |-> RawBuffers(args),
                   call |-> IF recording[s].armed THEN Len(recording[s].calls) + 1 ELSE 0]
           rec == WithCall(recording[s], call)
<1>0. /\ recording \in [Scopes -> [on : BOOLEAN, armed : BOOLEAN, calls : Seq(RecordedCall)]]
      /\ recording[s] \in [on : BOOLEAN, armed : BOOLEAN, calls : Seq(RecordedCall)]
      /\ graph \in Seq(RawCall)
  BY DEF TypeOK, CapturesOK
<1>1. /\ recording' = [recording EXCEPT ![s] = rec] \/ recording' = recording
      /\ recording[s].on => recording' = [recording EXCEPT ![s] = rec]
      /\ graph' = IF capturing THEN Append(graph, new) ELSE graph
      /\ UNCHANGED <<kept, buffer>>
  BY DEF execute, hostvars
<1>2. rec.calls = Append(recording[s].calls, call) /\ rec.armed = recording[s].armed
  BY <1>0 DEF WithCall
<1>3. Matches(buffer, call, new)
  <2>1. Len(call.args) = Len(new.bufs)
    <3>1. RawBuffers(args) \in Seq(Buffers) /\ RecordedArgs(args) \in Seq(RecordedArg)
          /\ DOMAIN RawBuffers(args) = DOMAIN RecordedArgs(args)
      BY ArgsType DEF execute, RawBuffers, RecordedArgs
    <3>2. QED  BY <3>1
  <2>2. ASSUME NEW slot \in DOMAIN call.args
        PROVE  /\ buffer[new.bufs[slot]].st # "unmade"
               /\ call.args[slot].address = buffer[new.bufs[slot]].address
    <3>1. slot \in DOMAIN args /\ new.bufs[slot] = tensor[args[slot].tensor]
          /\ call.args[slot].address = buffer[tensor[args[slot].tensor]].address
      BY DEF RawBuffers, RecordedArgs
    <3>2. QED  BY <3>1 DEF execute, TypeOK, ScopesOK, TensorsOK
  <2>3. QED  BY <2>1, <2>2 DEF Matches
<1>4. new.call = IF recording[s].armed THEN Len(recording[s].calls) + 1 ELSE 0  OBVIOUS
<1> HIDE DEF call, new, rec
<1>5. ASSUME NEW u \in Scopes, recording'[u].armed
      PROVE  Agrees(buffer, recording'[u].calls, graph')
  <2>1. recording[u].armed  BY <1>0, <1>1, <1>2, <1>5
  <2>2. capturing /\ graph' = Append(graph, new)  BY <1>1, <2>1 DEF OneCapture
  <2>3. Agrees(buffer, recording[u].calls, graph)  BY <2>1 DEF AgreeInv
  <2>4. CASE u = s
    <3>1. recording[s].on  BY <2>1, <2>4 DEF OneCapture
    <3>2. recording'[u].calls = Append(recording[s].calls, call)  BY <1>0, <1>1, <1>2, <2>4, <3>1
    <3>3. new.call = Len(recording[s].calls) + 1  BY <1>4, <2>1, <2>4
    <3>4. QED  BY <1>0, <1>3, <2>2, <2>3, <2>4, <3>2, <3>3, BothGrow
  <2>5. CASE u # s
    <3>1. ~ recording[s].armed  BY <2>1, <2>5 DEF OneCapture
    <3>2. recording'[u] = recording[u] /\ recording[u].calls \in Seq(RecordedCall)
      BY <1>0, <1>1, <2>5
    <3>3. QED  BY <1>0, <1>4, <2>2, <2>3, <3>1, <3>2, OtherGrows
  <2>6. QED  BY <2>4, <2>5
<1>6. QED  BY <1>1, <1>5 DEF AgreeInv

\* The other steps of a capture.
LEMMA OthersAgree ==
    ASSUME TypeOK, OneCapture, AgreeInv, SameBuffers,
           \/ UNCHANGED capturevars
           \/ \E s \in Scopes : \/ BeginCapture(s) \/ FailCapture(s) \/ PanicInCapture(s)
                                \/ CloseScope(s)
                                \/ \E r \in Recordings : EndCapture(s, r)
           \/ \E r \in Recordings : DropRecording(r)
    PROVE  AgreeInv'
<1> USE DEF capturevars
<1>0. recording \in [Scopes -> [on : BOOLEAN, armed : BOOLEAN, calls : Seq(RecordedCall)]]
  BY DEF TypeOK, CapturesOK
<1>1. UNCHANGED capturevars => AgreeInv'  BY AgreeStays
<1>2. ASSUME NEW s \in Scopes, BeginCapture(s) PROVE AgreeInv'
  <2> DEFINE new == [on |-> TRUE, armed |-> ~ capturing, calls |-> <<>>]
  <2>1. recording' = [recording EXCEPT ![s] = new] /\ kept' = kept  BY <1>2 DEF BeginCapture
  <2>2. new.armed = ~ capturing  OBVIOUS
  <2>3. graph' = IF capturing THEN graph ELSE <<>>  BY <1>2 DEF BeginCapture
  <2> HIDE DEF new
  <2>4. \A u \in Scopes : recording'[u].armed => recording'[u] = recording[u] \/ ~ capturing
    BY <1>0, <2>1, <2>2
  <2>5. QED  BY <2>1, <2>3, <2>4, AgreeStays
<1>3. ASSUME NEW s \in Scopes, StopRecording(s)
      PROVE  /\ recording[s].armed
             /\ \A u \in Scopes : ~ recording'[u].armed
  BY <1>0, <1>3 DEF StopRecording, NotRecording, OneCapture
<1>4. ASSUME NEW s \in Scopes, FailCapture(s) \/ PanicInCapture(s) PROVE AgreeInv'
  <2>1. StopRecording(s) /\ kept' = kept  BY <1>4 DEF FailCapture, PanicInCapture
  <2>2. QED  BY <1>3, <2>1, AgreeStays
<1>5. ASSUME NEW s \in Scopes, NEW r \in Recordings, EndCapture(s, r) PROVE AgreeInv'
  <2> DEFINE new == [on |-> TRUE, calls |-> recording[s].calls, raw |-> graph]
  <2>1. StopRecording(s) /\ kept' = [kept EXCEPT ![r] = new]  BY <1>5 DEF EndCapture
  <2>2. new.calls = recording[s].calls /\ new.raw = graph  OBVIOUS
  <2> HIDE DEF new
  <2>3. \A x \in Recordings : kept'[x] = IF x = r THEN new ELSE kept[x]
    BY <2>1 DEF TypeOK, CapturesOK
  <2>4. QED  BY <1>3, <2>1, <2>2, <2>3, AgreeStays
<1>6. ASSUME NEW r \in Recordings, DropRecording(r) PROVE AgreeInv'
  <2>1. \A x \in Recordings : kept'[x] = kept[x] \/ ~ kept'[x].on
    BY <1>6 DEF DropRecording, NoRecording, TypeOK, CapturesOK
  <2>2. UNCHANGED <<recording, graph>>  BY <1>6 DEF DropRecording
  <2>3. QED  BY <2>1, <2>2, AgreeStays
<1>7. ASSUME NEW s \in Scopes, CloseScope(s) PROVE AgreeInv'
  <2>1. \A u \in Scopes : recording'[u] = recording[u] \/ ~ recording'[u].armed
    BY <1>0, <1>7 DEF CloseScope, NotRecording
  <2>2. UNCHANGED <<graph, kept>>  BY <1>7 DEF CloseScope
  <2>3. QED  BY <2>1, <2>2, AgreeStays
<1>8. QED  BY <1>1, <1>2, <1>4, <1>5, <1>6, <1>7

LEMMA AgreeStep ==
    ASSUME TypeOK, OneCapture, AgreeInv, [Next]_vars
    PROVE  AgreeInv'
<1>1. SameBuffers  BY BuffersKeep
<1>2. ASSUME NEW s \in Scopes,
             \/ OpenScope(s) \/ EndScope(s)
             \/ \E t \in Tensors : bind(s, t) \/ zero(s, t)
             \/ \E p \in Places : bind_node(s, p)
             \/ \E t, u \in Tensors : copy(s, t, u) \/ copy_into(s, t, u)
             \/ \E r \in Recordings : replay(s, r)
      PROVE  UNCHANGED capturevars
  BY <1>2 DEF OpenScope, bind, bind_node, EndScope, copy, copy_into, zero, Blocking, replay
<1>3. ASSUME NEW t \in Tensors, \/ \E len \in Lens : Alloc(t, len)
                                \/ DropTensor(t)
                                \/ \E u \in Tensors : ReplaceTensor(t, u)
      PROVE  UNCHANGED capturevars
  BY <1>3 DEF Alloc, DropTensor, ReplaceTensor
<1>4. ASSUME NEW p \in Places,
             \/ \E i \in NodeIds, sh \in Shaders, m \in Metas : BuildNode(p, i, sh, m)
             \/ DropNode(p)
             \/ \E q \in Places : MoveNode(p, q) \/ ReplaceNode(p, q)
             \/ \E m \in Metas : update_meta(p, m)
      PROVE  UNCHANGED capturevars
  BY <1>4 DEF BuildNode, DropNode, MoveNode, ReplaceNode, update_meta
<1>5. RunCommand \/ UNCHANGED vars => UNCHANGED capturevars  BY DEF RunCommand, vars
<1>6. QED  BY <1>1, <1>2, <1>3, <1>4, <1>5, ExecuteAgrees, OthersAgree DEF Next

-----------------------------------------------------------------------------
(* What is queued uses what is borrowed.                                   *)

\* A command that its scope checked, when it was called or when it was replayed.
Checked(c) == c.op # "meta" /\ c.how # "unchecked"

\* A tensor bound to the call's scope has the address it was given, the very buffer
\* if it was not replayed, and the length that the node there needs.
FoundAt(c, slot) ==
    \E t \in bufs[c.by] :
        /\ buffer[tensor[t]].address = buffer[c.bufs[slot]].address
        /\ c.how # "replayed" => tensor[t] = c.bufs[slot]
        /\ c.op = "run" /\ place[c.place] = c.node =>
              buffer[tensor[t]].len >= MinLens[node[c.node].shader][c.meta][slot]

\* The call's scope is not closed, and has bound what is found there.
Found(c) ==
    Checked(c) =>
        /\ c.by \in Scopes /\ phase[c.by] # "closed"
        /\ c.op = "run" => c.place \in nodes[c.by]
        /\ c.op = "run" /\ c.how = "called" => place[c.place] = c.node
        /\ \A slot \in DOMAIN c.bufs :
              /\ c.bufs[slot] \in Buffers /\ buffer[c.bufs[slot]].st # "unmade"
              /\ FoundAt(c, slot)

Waited(k, c) == Checked(c) /\ phase[c.by] = "syncing" => k <= ahead[c.by]

WorkFound == \A k \in 1..Len(queue) : Found(queue[k]) /\ Waited(k, queue[k])

\* A scope that is not closed, and keeps what it bound.
Keeps(s) ==
    /\ phase'[s] # "closed"
    /\ \A t \in bufs[s] : t \in bufs'[s] /\ tensor'[t] = tensor[t]
    /\ \A p \in nodes[s] : p \in nodes'[s] /\ place'[p] = place[p]

LEMMA FoundStays ==
    ASSUME TypeOK, SameBuffers, SameShaders, NEW c, Found(c), Checked(c) => Keeps(c.by)
    PROVE  Found(c)'
<1> SUFFICES ASSUME Checked(c) PROVE Found(c)'
  BY DEF Found, Checked
<1>1. c.by \in Scopes /\ Keeps(c.by)  BY DEF Found
<1>2. c.op = "run" => c.place \in nodes'[c.by] /\ place'[c.place] = place[c.place]
  BY <1>1 DEF Found, Keeps
<1>3. c.op = "run" /\ place[c.place] = c.node => node'[c.node].shader = node[c.node].shader
  <2>1. c.op = "run" /\ place[c.place] = c.node => c.node \in NodeIds /\ node[c.node].st = "live"
    BY <1>1 DEF Found, TypeOK, ScopesOK, NodesOK
  <2>2. QED  BY <2>1 DEF SameShaders
<1>4. ASSUME NEW slot \in DOMAIN c.bufs
      PROVE  /\ c.bufs[slot] \in Buffers /\ buffer'[c.bufs[slot]].st # "unmade"
             /\ FoundAt(c, slot)'
  <2>1. c.bufs[slot] \in Buffers /\ buffer[c.bufs[slot]].st # "unmade"  BY DEF Found
  <2>2. buffer'[c.bufs[slot]].st # "unmade" /\ buffer'[c.bufs[slot]].address = buffer[c.bufs[slot]].address
    BY <2>1 DEF SameBuffers
  <2>3. PICK t \in bufs[c.by] :
           /\ buffer[tensor[t]].address = buffer[c.bufs[slot]].address
           /\ c.how # "replayed" => tensor[t] = c.bufs[slot]
           /\ c.op = "run" /\ place[c.place] = c.node =>
                 buffer[tensor[t]].len >= MinLens[node[c.node].shader][c.meta][slot]
    BY DEF Found, FoundAt
  <2>4. tensor[t] \in Buffers /\ buffer[tensor[t]].st # "unmade"
    BY <1>1, <2>3, NoneAssumption DEF TypeOK, ScopesOK, TensorsOK
  <2>5. /\ buffer'[tensor[t]].address = buffer[tensor[t]].address
        /\ buffer'[tensor[t]].len = buffer[tensor[t]].len
    BY <2>4 DEF SameBuffers
  <2>6. t \in bufs'[c.by] /\ tensor'[t] = tensor[t]  BY <1>1, <2>3 DEF Keeps
  <2>7. FoundAt(c, slot)'  BY <1>2, <1>3, <2>2, <2>3, <2>5, <2>6 DEF FoundAt
  <2>8. QED  BY <2>1, <2>2, <2>7
<1>5. phase'[c.by] # "closed"  BY <1>1 DEF Keeps
<1>6. c.op = "run" /\ c.how = "called" => place'[c.place] = c.node  BY <1>2 DEF Found
<1>7. QED  BY <1>1, <1>2, <1>4, <1>5, <1>6 DEF Found, Checked

\* What is queued keeps what it found, and is waited for.
StillWaits(k, s) == phase'[s] = "syncing" => k <= ahead'[s]

WorkKeeps ==
    \A k \in 1..Len(queue) : Checked(queue[k]) =>
        Keeps(queue[k].by) /\ StillWaits(k, queue[k].by)

\* A step that queues cs, maybe none.
LEMMA WorkGrows ==
    ASSUME TypeOK, WorkFound, SameBuffers, SameShaders, WorkKeeps,
           NEW cs \in Seq(Commands), queue' = queue \o cs, NEW l, l = Len(queue),
           \A n \in 1..Len(cs) : Found(cs[n])' /\ Waited(l + n, cs[n])'
    PROVE  WorkFound'
<1> SUFFICES ASSUME NEW k \in 1..Len(queue'), NEW c, c = queue'[k]
             PROVE  Found(c)' /\ Waited(k, c)'
  BY DEF WorkFound, Found, FoundAt, Waited, Checked
<1>1. queue \in Seq(Commands)  BY DEF TypeOK, DeviceOK
<1>2. /\ Len(queue) \in Nat /\ Len(cs) \in Nat /\ Len(queue') = Len(queue) + Len(cs)
      /\ \A j \in 1..Len(queue) : queue'[j] = queue[j]
      /\ \A n \in 1..Len(cs) : queue'[Len(queue) + n] = cs[n]
  BY <1>1, JoinFacts
<1>3. CASE k \in 1..Len(queue)
  <2>1. c = queue[k]  BY <1>2, <1>3
  <2>2. Found(c) /\ (Checked(c) => Keeps(c.by) /\ StillWaits(k, c.by))
    BY <1>3, <2>1 DEF WorkFound, WorkKeeps
  <2>3. Found(c)'  BY <2>2, FoundStays
  <2>4. QED  BY <2>2, <2>3 DEF Waited, StillWaits, Checked
<1>4. CASE k \notin 1..Len(queue)
  <2> DEFINE n == k - l
  <2>1. n \in 1..Len(cs) /\ k = l + n  BY <1>2, <1>4
  <2> HIDE DEF n
  <2>2. c = cs[n]  BY <1>2, <2>1
  <2>3. QED  BY <2>1, <2>2
<1>5. QED  BY <1>3, <1>4

\* A step that queues nothing, and one that queues a command.
LEMMA WorkStays ==
    ASSUME TypeOK, WorkFound, SameBuffers, SameShaders, WorkKeeps, queue' = queue
    PROVE  WorkFound'
<1> DEFINE cs == <<>>
<1>1. cs \in Seq(Commands) /\ 1..Len(cs) = {}  OBVIOUS
<1>2. queue' = queue \o cs  BY DEF TypeOK, DeviceOK
<1> HIDE DEF cs
<1>3. \E m : m = Len(queue)  OBVIOUS
<1>4. QED  BY <1>1, <1>2, <1>3, WorkGrows

LEMMA WorkAdded ==
    ASSUME TypeOK, WorkFound, SameBuffers, SameShaders, WorkKeeps, NEW c \in Commands,
           Enqueue(<<c>>), NEW l, l = Len(queue) + 1, Found(c)', Waited(l, c)'
    PROVE  WorkFound'
<1> DEFINE cs == <<c>>
<1>1. cs \in Seq(Commands) /\ Len(cs) = 1 /\ cs[1] = c  OBVIOUS
<1>2. queue' = queue \o cs  BY DEF Enqueue
<1> HIDE DEF cs
<1>3. PICK m : m = Len(queue)  OBVIOUS
<1>4. \A n \in 1..Len(cs) : cs[n] = c /\ m + n = l  BY <1>1, <1>3
<1>5. \A n \in 1..Len(cs) : Found(cs[n])' /\ Waited(m + n, cs[n])'  BY <1>4
<1>6. QED  BY <1>1, <1>2, <1>3, <1>5, WorkGrows

\* Steps that leave the scopes alone that are not closed.
LEMMA BorrowsKept ==
    ASSUME TypeOK, WorkFound, KeepsBorrows
    PROVE  WorkKeeps
<1>1. ASSUME NEW k \in 1..Len(queue), NEW c, c = queue[k], Checked(c)
      PROVE  Keeps(c.by) /\ StillWaits(k, c.by)
  <2>1. c.by \in Scopes /\ phase[c.by] # "closed" /\ Waited(k, c)  BY <1>1 DEF WorkFound, Found
  <2>2. QED  BY <1>1, <2>1 DEF KeepsBorrows, Keeps, StillWaits, Waited
<1>2. QED  BY <1>1 DEF WorkKeeps

\* A scope that begins to wait, waits for all of its own.
LEMMA SyncKept ==
    ASSUME TypeOK, WorkFound, NEW s \in Scopes, StartSync(s), phase[s] # "closed",
           UNCHANGED <<queue, bufs, nodes, tensor, place>>
    PROVE  WorkKeeps
<1>1. ASSUME NEW k \in 1..Len(queue), NEW c, c = queue[k], Checked(c)
      PROVE  Keeps(c.by) /\ StillWaits(k, c.by)
  <2>1. c.by \in Scopes /\ phase[c.by] # "closed" /\ Waited(k, c)  BY <1>1 DEF WorkFound, Found
  <2>2. Len(queue) \in Nat /\ k <= Len(queue)  BY DEF TypeOK, DeviceOK
  <2>3. CASE c.by = s
    BY <2>2, <2>3 DEF Keeps, StillWaits, StartSync, TypeOK, ScopesOK
  <2>4. CASE c.by # s
    BY <1>1, <2>1, <2>4 DEF Keeps, StillWaits, Waited, StartSync, TypeOK, ScopesOK
  <2>5. QED  BY <2>3, <2>4
<1>2. QED  BY <1>1 DEF WorkKeeps

\* A caller who is closed, or waited for all, has nothing queued.
LEMMA IdleKept ==
    ASSUME TypeOK, WorkFound, NEW s \in Scopes,
           phase[s] = "closed" \/ (phase[s] = "syncing" /\ ahead[s] = 0),
           UNCHANGED <<tensor, place>>,
           \A u \in Scopes \ {s} : /\ phase'[u] = phase[u] /\ ahead'[u] = ahead[u]
                                   /\ bufs'[u] = bufs[u] /\ nodes'[u] = nodes[u]
    PROVE  WorkKeeps
<1>1. ASSUME NEW k \in 1..Len(queue), NEW c, c = queue[k], Checked(c)
      PROVE  Keeps(c.by) /\ StillWaits(k, c.by)
  <2>1. c.by \in Scopes /\ phase[c.by] # "closed" /\ Waited(k, c)  BY <1>1 DEF WorkFound, Found
  <2>2. k > 0  OBVIOUS
  <2>3. c.by # s  BY <1>1, <2>1, <2>2 DEF Waited
  <2>4. QED  BY <1>1, <2>1, <2>3 DEF Keeps, StillWaits, Waited
<1>2. QED  BY <1>1 DEF WorkKeeps

-----------------------------------------------------------------------------
(* The steps.                                                              *)

\* Steps that queue nothing, or the write of a meta.
LEMMA HostWork ==
    ASSUME TypeOK, WorkFound, SameBuffers, SameShaders,
           \/ \E t \in Tensors : \/ \E len \in Lens : Alloc(t, len)
                                 \/ DropTensor(t)
                                 \/ \E u \in Tensors : ReplaceTensor(t, u)
           \/ \E p \in Places : \/ DropNode(p)
                                \/ \E q \in Places : MoveNode(p, q) \/ ReplaceNode(p, q)
           \/ \E s \in Scopes : \/ OpenScope(s)
                                \/ \E t \in Tensors : bind(s, t)
                                \/ \E p \in Places : bind_node(s, p)
           \/ UNCHANGED vars
    PROVE  WorkFound'
<1>1. UNCHANGED vars => KeepsBorrows /\ queue' = queue
  BY DEF vars, hostvars, scopevars, KeepsBorrows
<1>2. KeepsBorrows /\ queue' = queue  BY <1>1, TensorStepKeeps, NodeStepKeeps, OpeningKeeps
<1>3. QED  BY <1>2, BorrowsKept, WorkStays

LEMMA MetaWork ==
    ASSUME TypeOK, WorkFound, SameBuffers, SameShaders, NEW p \in Places, NEW m \in Metas,
           \/ \E i \in NodeIds, sh \in Shaders : BuildNode(p, i, sh, m)
           \/ update_meta(p, m)
    PROVE  WorkFound'
<1>1. KeepsBorrows  BY MetaStepKeeps
<1>2. PICK c \in Commands : c.op = "meta" /\ Enqueue(<<c>>)  BY MetaStepKeeps
<1>3. Found(c)' /\ \A l : Waited(l, c)'  BY <1>2 DEF Found, Waited, Checked
<1>4. \E l : l = Len(queue) + 1  OBVIOUS
<1>5. WorkKeeps  BY <1>1, BorrowsKept
<1>6. QED  BY <1>2, <1>3, <1>4, <1>5, WorkAdded

LEMMA CaptureWork ==
    ASSUME TypeOK, WorkFound, SameBuffers, SameShaders, NEW s \in Scopes,
           \/ EndScope(s) \/ BeginCapture(s) \/ FailCapture(s) \/ PanicInCapture(s)
           \/ \E r \in Recordings : EndCapture(s, r)
    PROVE  WorkFound'
<1>1. UNCHANGED <<tensor, place, bufs, nodes, queue>>
  BY DEF EndScope, BeginCapture, FailCapture, PanicInCapture, EndCapture, StopRecording, hostvars
<1>2. StartSync(s) \/ UNCHANGED <<phase, ahead>>
  BY DEF EndScope, BeginCapture, FailCapture, PanicInCapture, EndCapture
<1>3. CASE UNCHANGED <<phase, ahead>>
  <2>1. KeepsBorrows  BY <1>1, <1>3 DEF KeepsBorrows
  <2>2. QED  BY <1>1, <2>1, BorrowsKept, WorkStays
<1>4. CASE StartSync(s) /\ phase[s] # "closed"
  BY <1>1, <1>4, SyncKept, WorkStays
<1>5. CASE StartSync(s) /\ phase[s] = "closed"
  <2>1. \A u \in Scopes \ {s} : phase'[u] = phase[u] /\ ahead'[u] = ahead[u]
    BY <1>5 DEF StartSync, TypeOK, ScopesOK
  <2>2. WorkKeeps  BY <1>1, <1>5, <2>1, IdleKept
  <2>3. QED  BY <1>1, <2>2, WorkStays
<1>6. QED  BY <1>2, <1>3, <1>4, <1>5

LEMMA CloseWork ==
    ASSUME TypeOK, WorkFound, SameBuffers, SameShaders, NEW s \in Scopes, CloseScope(s)
    PROVE  WorkFound'
<1>1. \A u \in Scopes \ {s} : /\ phase'[u] = phase[u] /\ ahead'[u] = ahead[u]
                              /\ bufs'[u] = bufs[u] /\ nodes'[u] = nodes[u]
  BY DEF CloseScope, TypeOK, ScopesOK
<1>2. UNCHANGED <<tensor, place, queue>> /\ phase[s] = "syncing" /\ ahead[s] = 0
  BY DEF CloseScope, hostvars
<1>3. QED  BY <1>1, <1>2, IdleKept, WorkStays

\* A tensor that is bound is found at the address it has.
LEMMA OwnFound ==
    ASSUME TypeOK, NEW c, c.op \in {"copy", "clear"}, c.by \in Scopes, phase[c.by] # "closed",
           \A slot \in DOMAIN c.bufs : \E t \in bufs[c.by] : c.bufs[slot] = tensor[t]
    PROVE  Found(c)
<1>1. ASSUME NEW slot \in DOMAIN c.bufs
      PROVE  /\ c.bufs[slot] \in Buffers /\ buffer[c.bufs[slot]].st # "unmade"
             /\ FoundAt(c, slot)
  <2>1. PICK t \in bufs[c.by] : c.bufs[slot] = tensor[t]  OBVIOUS
  <2>2. t \in Tensors /\ tensor[t] # None  BY DEF TypeOK, ScopesOK
  <2>3. c.bufs[slot] \in Buffers /\ buffer[c.bufs[slot]].st # "unmade"
    BY <2>1, <2>2 DEF TypeOK, TensorsOK
  <2>4. QED  BY <2>1, <2>3 DEF FoundAt
<1>2. QED  BY <1>1 DEF Found

LEMMA CopyWork ==
    ASSUME TypeOK, WorkFound, SameBuffers, SameShaders, NEW s \in Scopes,
           NEW t \in Tensors, NEW u \in Tensors, copy(s, t, u)
    PROVE  WorkFound'
<1> DEFINE bs == <<tensor[t], tensor[u]>>
           c == Command(s, "copy", None, bs, None)
<1>1. bs \in Seq(Buffers) /\ \A slot \in DOMAIN bs : \E x \in bufs[s] : bs[slot] = tensor[x]
  <2>1. {t, u} \subseteq bufs[s] /\ tensor[t] \in Buffers /\ tensor[u] \in Buffers
    BY DEF copy, TypeOK, TensorsOK, ScopesOK
  <2>2. DOMAIN bs = {1, 2} /\ bs[1] = tensor[t] /\ bs[2] = tensor[u]  OBVIOUS
  <2>3. QED  BY <2>1, <2>2
<1>2. Enqueue(<<c>>) /\ phase[s] = "open" /\ UNCHANGED <<hostvars, scopevars>>  BY DEF copy
<1> HIDE DEF bs
<1>3. c \in Commands /\ c.op = "copy" /\ c.by = s /\ c.bufs = bs  BY <1>1 DEF Command, Commands
<1> HIDE DEF c
<1>4. Found(c)  BY <1>1, <1>2, <1>3, OwnFound
<1>5. KeepsBorrows  BY <1>2 DEF KeepsBorrows, hostvars, scopevars
<1>6. Keeps(s)  BY <1>2 DEF Keeps, hostvars, scopevars
<1>7. \A d : d = c => Found(d)' /\ \A l : Waited(l, d)'
  <2>1. ASSUME NEW d, d = c PROVE Found(d)'  BY <1>3, <1>4, <1>6, <2>1, FoundStays
  <2>2. ASSUME NEW d, d = c, NEW l PROVE Waited(l, d)'
    BY <1>2, <1>3, <2>2 DEF Waited, Checked, scopevars
  <2>3. QED  BY <2>1, <2>2
<1>8. \E l : l = Len(queue) + 1  OBVIOUS
<1>9. WorkKeeps  BY <1>5, BorrowsKept
<1>10. QED  BY <1>2, <1>3, <1>7, <1>8, <1>9, WorkAdded

LEMMA BlockingWork ==
    ASSUME TypeOK, WorkFound, SameBuffers, SameShaders, NEW s \in Scopes,
           NEW op \in {"copy", "clear"}, NEW ts \in Seq(Tensors), Blocking(s, op, ts)
    PROVE  WorkFound'
<1> DEFINE bs == [k \in DOMAIN ts |-> tensor[ts[k]]]
           c == Command(s, op, None, bs, None)
<1>1. \A k \in DOMAIN ts : ts[k] \in Tensors /\ tensor[ts[k]] \in Buffers /\ bs[k] = tensor[ts[k]]
  BY DEF Blocking, TypeOK, TensorsOK
<1>2. bs \in Seq(Buffers) /\ DOMAIN bs = DOMAIN ts
  <2>1. bs \in [1..Len(ts) -> Buffers]  BY <1>1
  <2>2. QED  BY <2>1
<1>3. Enqueue(<<c>>) /\ phase[s] = "closed" /\ UNCHANGED <<buffer, tensor, place, nodes>>
  BY DEF Blocking, hostvars
<1> HIDE DEF bs
<1>4. c \in Commands /\ c.op = op /\ c.by = s /\ c.bufs = bs  BY <1>2 DEF Command, Commands
<1> HIDE DEF c
<1>5. queue \in Seq(Commands) /\ Len(queue') = Len(queue) + 1
  BY <1>3, <1>4 DEF Enqueue, TypeOK, DeviceOK
<1>6. /\ phase'[s] = "syncing" /\ ahead'[s] = Len(queue) + 1
      /\ bufs'[s] = {ts[k] : k \in DOMAIN ts}
      /\ \A u \in Scopes \ {s} : /\ phase'[u] = phase[u] /\ ahead'[u] = ahead[u]
                                 /\ bufs'[u] = bufs[u] /\ nodes'[u] = nodes[u]
  BY <1>3, <1>5 DEF Blocking, StartSync, TypeOK, ScopesOK
<1>7. WorkKeeps  BY <1>3, <1>6, IdleKept
<1>8. ASSUME NEW d, d = c, NEW slot \in DOMAIN d.bufs
      PROVE  /\ d.bufs[slot] \in Buffers /\ buffer'[d.bufs[slot]].st # "unmade"
             /\ FoundAt(d, slot)'
  <2>1. slot \in DOMAIN ts /\ d.bufs[slot] = tensor[ts[slot]]  BY <1>1, <1>2, <1>4, <1>8
  <2>2. tensor[ts[slot]] \in Buffers /\ buffer[tensor[ts[slot]]].st # "unmade"
    BY <1>1, <2>1, NoneAssumption DEF TypeOK, TensorsOK
  <2>3. ts[slot] \in bufs'[s]  BY <1>6, <2>1
  <2>4. d.by = s /\ d.op # "run"  BY <1>4, <1>8
  <2>5. FoundAt(d, slot)'  BY <1>3, <2>1, <2>3, <2>4 DEF FoundAt
  <2>6. QED  BY <1>3, <2>1, <2>2, <2>5
<1>9. \A d : d = c => Found(d)'  BY <1>4, <1>6, <1>8 DEF Found, Checked
<1>10. PICK l : l = Len(queue) + 1  OBVIOUS
<1>11. l \in Nat  BY <1>5, <1>10
<1>12. \A d : d = c => Waited(l, d)'  BY <1>4, <1>6, <1>10, <1>11 DEF Waited, Checked
<1>13. QED  BY <1>3, <1>4, <1>7, <1>9, <1>10, <1>12, WorkAdded

\* A call that is not recorded uses what its scope has bound.
LEMMA ExecuteWork ==
    ASSUME TypeOK, LensAgree, WorkFound, SameBuffers, SameShaders, NEW s \in Scopes,
           NEW p \in nodes[s], NEW args \in ArgLists(node[place[p]]), execute(s, p, args)
    PROVE  WorkFound'
<1> DEFINE bs == RawBuffers(args)
           c == Command(s, "run", p, bs, node[place[p]].meta)
<1>1. UNCHANGED <<hostvars, scopevars>> /\ phase[s] = "open"  BY DEF execute
<1>2. KeepsBorrows /\ Keeps(s)  BY <1>1 DEF KeepsBorrows, Keeps, hostvars, scopevars
<1>3. WorkKeeps  BY <1>2, BorrowsKept
<1>4. CASE capturing
  <2>1. queue' = queue  BY <1>4 DEF execute
  <2>2. QED  BY <1>3, <2>1, WorkStays
<1>5. CASE ~ capturing
  <2>1. /\ p \in Places /\ place[p] \in NodeIds /\ node[place[p]].meta \in Metas
        /\ bs \in Seq(Buffers)
    BY ArgsType, NoneAssumption DEF TypeOK, ScopesOK, NodesOK, execute
  <2>2. LongEnough(c)  BY CheckedFits DEF execute
  <2>3. \A slot \in DOMAIN bs : \E t \in bufs[s] : bs[slot] = tensor[t]
    BY DEF execute, RawBuffers
  <2>4. Enqueue(<<c>>)  BY <1>5 DEF execute
  <2> HIDE DEF bs
  <2>5. /\ c \in Commands /\ c.op = "run" /\ c.by = s /\ c.bufs = bs
        /\ c.place = p /\ c.node = place[p] /\ c.how = "called"
    BY <2>1, NoneAssumption DEF Command, Commands
  <2> HIDE DEF c
  <2>6. ASSUME NEW slot \in DOMAIN bs
        PROVE  /\ c.bufs[slot] \in Buffers /\ buffer[c.bufs[slot]].st # "unmade"
               /\ FoundAt(c, slot)
    <3>1. PICK t \in bufs[s] : bs[slot] = tensor[t]  BY <2>3
    <3>2. /\ c.bufs[slot] \in Buffers /\ buffer[c.bufs[slot]].st # "unmade"
          /\ buffer[c.bufs[slot]].len >= MinLens[node[c.node].shader][c.meta][slot]
      BY <2>2, <2>5 DEF LongEnough
    <3>3. QED  BY <2>5, <3>1, <3>2 DEF FoundAt
  <2>7. Found(c)  BY <1>1, <2>5, <2>6 DEF Found
  <2>8. ASSUME NEW d, d = c PROVE Found(d)'  BY <1>2, <2>5, <2>7, <2>8, FoundStays
  <2>9. ASSUME NEW d, d = c, NEW l PROVE Waited(l, d)'
    BY <1>1, <2>5, <2>9 DEF Waited, Checked, scopevars
  <2>10. \E l : l = Len(queue) + 1  OBVIOUS
  <2>11. QED  BY <1>3, <2>4, <2>5, <2>8, <2>9, <2>10, WorkAdded
<1>6. QED  BY <1>4, <1>5

\* What is left has one command less before it.
LEMMA RunWork ==
    ASSUME TypeOK, WorkFound, SameBuffers, SameShaders, RunCommand
    PROVE  WorkFound'
<1> SUFFICES ASSUME NEW k \in 1..Len(queue'), NEW c, c = queue'[k]
             PROVE  Found(c)' /\ Waited(k, c)'
  BY DEF WorkFound, Found, FoundAt, Waited, Checked
<1>1. /\ queue \in Seq(Commands) /\ queue # <<>> /\ queue' = Tail(queue)
      /\ UNCHANGED <<tensor, place, phase, bufs, nodes>>
      /\ \A s \in Scopes : ahead'[s] = IF ahead[s] > 0 THEN ahead[s] - 1 ELSE 0
      /\ \A s \in Scopes : ahead[s] \in Nat
  BY DEF RunCommand, TypeOK, DeviceOK, ScopesOK, hostvars
<1>2. k \in Nat /\ k + 1 \in 1..Len(queue) /\ c = queue[k + 1]  BY <1>1
<1>3. Found(c) /\ Waited(k + 1, c)  BY <1>2 DEF WorkFound
<1>4. Checked(c) => c.by \in Scopes /\ Keeps(c.by)  BY <1>1, <1>3 DEF Found, Keeps
<1>5. Found(c)'  BY <1>3, <1>4, FoundStays
<1>6. \A s \in Scopes : k + 1 <= ahead[s] => k <= ahead'[s]  BY <1>1, <1>2
<1>7. Waited(k, c)'  BY <1>1, <1>3, <1>4, <1>6 DEF Waited, Checked
<1>8. QED  BY <1>5, <1>7

\* What a replay checks again, is found again: at the recorded place a node, and at
\* each recorded address a bound tensor, long enough if the node is the same.
LEMMA ReplayedFound ==
    ASSUME TypeOK, LensAgree, AgreeInv, NEW s \in Scopes, phase[s] = "open",
           NEW r \in Recordings, kept[r].on, NEW k \in 1..Len(kept[r].raw),
           \A n \in DOMAIN kept[r].calls : ReplayChecked(s, kept[r].calls[n]),
           NEW c, c = ReplayCommand(s, kept[r].raw[k])
    PROVE  Found(c)
<1> DEFINE raw == kept[r].raw[k]
           call == kept[r].calls[raw.call]
           args == ReplayArgs(s, call.args)
           i == place[raw.place]
<1> SUFFICES ASSUME raw.call # 0 PROVE Found(c)
  BY DEF ReplayCommand, Found, Checked
<1>1. /\ raw.call \in 1..Len(kept[r].calls)
      /\ call.node = raw.place /\ Len(call.args) = Len(raw.bufs)
      /\ \A slot \in DOMAIN call.args :
            /\ buffer[raw.bufs[slot]].st # "unmade"
            /\ call.args[slot].address = buffer[raw.bufs[slot]].address
  BY DEF AgreeInv, Agrees, Matches
<1>2. call.args \in Seq(RecordedArg) /\ raw.bufs \in Seq(Buffers) /\ raw.place \in Places
  <2>1. kept[r].raw \in Seq(RawCall) /\ kept[r].calls \in Seq(RecordedCall)
    BY DEF TypeOK, CapturesOK
  <2>2. raw \in RawCall  BY <2>1
  <2>3. raw.call \in 1..Len(kept[r].calls)  BY <1>1
  <2> HIDE DEF raw
  <2>4. call \in RecordedCall  BY <2>1, <2>3
  <2> HIDE DEF call
  <2>5. QED  BY <2>2, <2>4 DEF RawCall, RecordedCall
<1>3. ReplayChecked(s, call)
  <2>1. raw.call \in 1..Len(kept[r].calls)  BY <1>1
  <2>2. kept[r].calls \in Seq(RecordedCall)  BY DEF TypeOK, CapturesOK
  <2> HIDE DEF raw
  <2>3. raw.call \in DOMAIN kept[r].calls  BY <2>1, <2>2
  <2>4. QED  BY <2>3
<1>4. /\ c.op = "run" /\ c.by = s /\ c.how = "replayed"
      /\ c.node = raw.node /\ c.place = raw.place /\ c.bufs = raw.bufs
      /\ c.meta = node[raw.node].meta
  BY DEF ReplayCommand
<1> HIDE DEF raw, call
<1>5. DOMAIN raw.bufs = DOMAIN call.args  BY <1>1, <1>2
<1>6. /\ call.node \in nodes[s]
      /\ \A slot \in DOMAIN call.args : BoundAt(s, call.args[slot].address) # {}
      /\ check(node[place[call.node]], args)
  BY <1>3 DEF ReplayChecked
<1>7. i \in NodeIds /\ node[i].st = "live"
  <2>1. i # None  BY <1>1, <1>6 DEF TypeOK, ScopesOK
  <2>2. QED  BY <1>2, <2>1 DEF TypeOK, NodesOK
<1>8. node[i].lens = MinLens[node[i].shader][node[i].meta] /\ node[i].shader \in Shaders
  BY <1>7 DEF LensAgree
<1>9. /\ DOMAIN args = DOMAIN call.args
      /\ \A slot \in DOMAIN call.args : args[slot].tensor \in BoundAt(s, call.args[slot].address)
  BY <1>6 DEF ReplayArgs
<1> HIDE DEF args
<1>10. check(node[i], args)  BY <1>1, <1>6
<1> HIDE DEF i
<1>11. DOMAIN Layout[node[i].shader] = DOMAIN call.args
  <2> DEFINE kinds == [slot \in DOMAIN args |-> Kind[args[slot].tensor]]
             layout == Layout[node[i].shader]
  <2>1. slot_kinds(layout, kinds)  BY <1>10 DEF check
  <2>2. Len(layout) = Len(kinds)  BY <2>1 DEF slot_kinds, slot_count
  <2>3. layout \in Seq([role : RoleNames, kind : STRING])  BY <1>8, LayoutAssumption
  <2>4. DOMAIN kinds = 1..Len(call.args) /\ Len(call.args) \in Nat  BY <1>2, <1>9
  <2>5. Len(kinds) = Len(call.args)  BY <2>4
  <2> HIDE DEF layout, kinds
  <2>6. DOMAIN layout = 1..Len(layout)  BY <2>3
  <2>7. DOMAIN call.args = 1..Len(call.args)  BY <1>2
  <2>8. QED  BY <2>2, <2>5, <2>6, <2>7 DEF layout
<1>12. \A slot \in DOMAIN call.args : buffer[tensor[args[slot].tensor]].len >= node[i].lens[slot]
  BY <1>10, <1>11 DEF check, long_enough
<1>13. ASSUME NEW slot \in DOMAIN c.bufs
       PROVE  /\ c.bufs[slot] \in Buffers /\ buffer[c.bufs[slot]].st # "unmade"
              /\ FoundAt(c, slot)
  <2>1. slot \in DOMAIN call.args /\ c.bufs[slot] \in Buffers  BY <1>2, <1>5, <1>4
  <2>2. buffer[c.bufs[slot]].st # "unmade"
        /\ call.args[slot].address = buffer[c.bufs[slot]].address
    BY <1>1, <1>4, <2>1
  <2> DEFINE t == args[slot].tensor
  <2>3. t \in bufs[s] /\ buffer[tensor[t]].address = buffer[c.bufs[slot]].address
    BY <1>9, <2>1, <2>2 DEF BoundAt
  <2>4. place[c.place] = c.node =>
           buffer[tensor[t]].len >= MinLens[node[c.node].shader][c.meta][slot]
    <3>1. ASSUME place[c.place] = c.node PROVE c.node = i /\ c.meta = node[i].meta
      BY <1>4, <3>1 DEF i
    <3>2. buffer[tensor[t]].len >= MinLens[node[i].shader][node[i].meta][slot]
      BY <1>8, <1>12, <2>1
    <3>3. QED  BY <3>1, <3>2
  <2> HIDE DEF t
  <2>5. FoundAt(c, slot)  BY <1>4, <2>3, <2>4 DEF FoundAt
  <2>6. QED  BY <2>1, <2>2, <2>5
<1>14. c.place \in nodes[s]  BY <1>1, <1>4, <1>6
<1>15. QED  BY <1>4, <1>13, <1>14 DEF Found

LEMMA ReplayWork ==
    ASSUME TypeOK, LensAgree, AgreeInv, WorkFound, SameBuffers, SameShaders,
           NEW s \in Scopes, NEW r \in Recordings, replay(s, r)
    PROVE  WorkFound'
<1> DEFINE raw == kept[r].raw
           cs == [k \in DOMAIN raw |-> ReplayCommand(s, raw[k])]
<1>1. raw \in Seq(RawCall) /\ DOMAIN raw = 1..Len(raw) /\ Len(raw) \in Nat
  BY DEF TypeOK, CapturesOK
<1>2. ASSUME NEW k \in 1..Len(raw)
      PROVE  ReplayCommand(s, raw[k]) \in Commands
  <2>1. raw[k] \in RawCall  BY <1>1
  <2>2. raw[k].node \in NodeIds /\ raw[k].place \in Places /\ raw[k].bufs \in Seq(Buffers)
    BY <2>1 DEF RawCall
  <2>3. node[raw[k].node].meta \in Metas \cup {None}  BY <2>2 DEF TypeOK, NodesOK
  <2>4. QED  BY <2>2, <2>3 DEF Commands, ReplayCommand
<1>3. queue' = queue \o cs /\ phase[s] = "open" /\ UNCHANGED <<hostvars, scopevars>>
  BY DEF replay, Enqueue
<1>4. kept[r].on /\ \A n \in DOMAIN kept[r].calls : ReplayChecked(s, kept[r].calls[n])
  BY DEF replay
<1>5. \A k \in 1..Len(raw) : \A c :
        c = ReplayCommand(s, raw[k]) => Found(c) /\ c.by = s
  <2>1. ASSUME NEW k \in 1..Len(raw), NEW c, c = ReplayCommand(s, raw[k]) PROVE Found(c)
    BY <1>3, <1>4, <2>1, ReplayedFound
  <2>2. QED  BY <2>1 DEF ReplayCommand
<1> HIDE DEF raw
<1>6. cs \in [1..Len(raw) -> Commands] /\ \A k \in 1..Len(raw) : cs[k] = ReplayCommand(s, raw[k])
  BY <1>1, <1>2
<1> HIDE DEF cs
<1>7. cs \in Seq(Commands) /\ Len(cs) = Len(raw)  BY <1>1, <1>6
<1>8. KeepsBorrows /\ Keeps(s)  BY <1>3 DEF KeepsBorrows, Keeps, hostvars, scopevars
<1>9. WorkKeeps  BY <1>8, BorrowsKept
<1>10. \A k \in 1..Len(cs) : Found(cs[k]) /\ cs[k].by = s  BY <1>5, <1>6, <1>7
<1>11. ASSUME NEW d, Found(d), d.by = s PROVE Found(d)'  BY <1>8, <1>11, FoundStays
<1>12. ASSUME NEW d, d.by = s, NEW l PROVE Waited(l, d)'
  BY <1>3, <1>12 DEF Waited, Checked, scopevars
<1>13. PICK ds, l : ds = cs /\ l = Len(queue)  OBVIOUS
<1>14. ds \in Seq(Commands) /\ queue' = queue \o ds  BY <1>3, <1>7, <1>13
<1>15. \A n \in 1..Len(ds) : Found(ds[n])' /\ Waited(l + n, ds[n])'
  BY <1>10, <1>11, <1>12, <1>13
<1>16. QED  BY <1>9, <1>13, <1>14, <1>15, WorkGrows

-----------------------------------------------------------------------------
(* Every step.                                                             *)

FoundInv == LensAgree /\ AgreeInv /\ WorkFound

LEMMA InitFound == Init => FoundInv
<1>1. Len(<<>>) = 0  OBVIOUS
<1>2. QED
  BY <1>1 DEF Init, NotRecording, NoRecording, FoundInv, LensAgree, AgreeInv, WorkFound

LEMMA FoundInvStep ==
    ASSUME TypeOK, OneCapture, FoundInv, [Next]_vars
    PROVE  FoundInv'
<1>1. SameBuffers /\ SameShaders /\ LensAgree'  BY BuffersKeep, NodesKeep DEF FoundInv
<1>2. AgreeInv'  BY AgreeStep DEF FoundInv
<1>3. WorkFound'
  <2>1. LensAgree /\ AgreeInv /\ WorkFound  BY DEF FoundInv
  <2>2. ASSUME NEW s \in Scopes, NEW t \in Tensors, NEW u \in Tensors,
               copy_into(s, t, u) \/ zero(s, t)
        PROVE  WorkFound'
    <3>1. <<t, u>> \in Seq(Tensors) /\ <<t>> \in Seq(Tensors)  OBVIOUS
    <3>2. QED  BY <1>1, <2>1, <2>2, <3>1, BlockingWork DEF copy_into, zero
  <2>3. CASE \/ \E t \in Tensors : \/ \E len \in Lens : Alloc(t, len)
                                   \/ DropTensor(t)
                                   \/ \E u \in Tensors : ReplaceTensor(t, u)
             \/ \E p \in Places : \/ DropNode(p)
                                  \/ \E q \in Places : MoveNode(p, q) \/ ReplaceNode(p, q)
             \/ \E s \in Scopes : \/ OpenScope(s)
                                  \/ \E t \in Tensors : bind(s, t)
                                  \/ \E p \in Places : bind_node(s, p)
             \/ UNCHANGED vars
    BY <1>1, <2>1, <2>3, HostWork
  <2>4. CASE \E p \in Places, m \in Metas :
                \/ \E i \in NodeIds, sh \in Shaders : BuildNode(p, i, sh, m)
                \/ update_meta(p, m)
    BY <1>1, <2>1, <2>4, MetaWork
  <2>5. ASSUME NEW s \in Scopes,
               \/ EndScope(s) \/ BeginCapture(s) \/ FailCapture(s) \/ PanicInCapture(s)
               \/ \E r \in Recordings : EndCapture(s, r)
        PROVE  WorkFound'
    BY <1>1, <2>1, <2>5, CaptureWork
  <2>6. ASSUME NEW s \in Scopes,
               \/ CloseScope(s)
               \/ \E t, u \in Tensors : copy(s, t, u)
               \/ \E p \in nodes[s] : \E args \in ArgLists(node[place[p]]) : execute(s, p, args)
        PROVE  WorkFound'
    BY <1>1, <2>1, <2>6, CloseWork, CopyWork, ExecuteWork
  <2>7. ASSUME NEW s \in Scopes, NEW r \in Recordings, replay(s, r) PROVE WorkFound'
    BY <1>1, <2>1, <2>7, ReplayWork
  <2>8. ASSUME NEW r \in Recordings, DropRecording(r) PROVE WorkFound'
    <3>1. KeepsBorrows /\ queue' = queue
      BY <2>8 DEF DropRecording, KeepsBorrows, hostvars, scopevars
    <3>2. QED  BY <1>1, <2>1, <3>1, BorrowsKept, WorkStays
  <2>9. CASE RunCommand  BY <1>1, <2>1, <2>9, RunWork
  <2>10. QED  BY <2>2, <2>3, <2>4, <2>5, <2>6, <2>7, <2>8, <2>9 DEF Next
<1>4. QED  BY <1>1, <1>2, <1>3 DEF FoundInv

LEMMA FoundFits ==
    ASSUME TypeOK, OneOwner, RunsSeeTheirMeta, FoundInv
    PROVE  RunsFitTheirBuffers
<1> DEFINE c == Head(queue)
<1> SUFFICES ASSUME queue # <<>>, c.op = "run", c.how # "unchecked", place[c.place] = c.node
             PROVE  LET need == MinLens[node[c.node].shader][meta_words[c.node]]
                    IN  /\ node[c.node].st = "live"
                        /\ \A slot \in DOMAIN c.bufs : \E b \in Buffers :
                              /\ Live(b)
                              /\ buffer[b].address = buffer[c.bufs[slot]].address
                              /\ buffer[b].len >= need[slot]
  BY DEF RunsFitTheirBuffers
<1>1. 1 \in 1..Len(queue) /\ queue[1] = c  BY DEF TypeOK, DeviceOK
<1>2. meta_words[c.node] = c.meta  BY DEF RunsSeeTheirMeta
<1> HIDE DEF c
<1>3. Found(c) /\ Checked(c)  BY <1>1 DEF FoundInv, WorkFound, Checked
<1>4. node[c.node].st = "live"  BY <1>3 DEF Found, TypeOK, ScopesOK, NodesOK
<1>5. ASSUME NEW slot \in DOMAIN c.bufs
      PROVE  \E b \in Buffers :
                /\ Live(b)
                /\ buffer[b].address = buffer[c.bufs[slot]].address
                /\ buffer[b].len >= MinLens[node[c.node].shader][meta_words[c.node]][slot]
  <2>1. PICK t \in bufs[c.by] :
           /\ buffer[tensor[t]].address = buffer[c.bufs[slot]].address
           /\ buffer[tensor[t]].len >= MinLens[node[c.node].shader][meta_words[c.node]][slot]
    BY <1>2, <1>3 DEF Found, FoundAt
  <2>2. t \in Tensors /\ tensor[t] \in Buffers
    BY <1>3, <2>1 DEF Found, TypeOK, ScopesOK, TensorsOK
  <2>3. Live(tensor[t])  BY <2>2 DEF OneOwner, Live
  <2>4. QED  BY <2>1, <2>2, <2>3
<1>6. QED  BY <1>4, <1>5

LEMMA FoundIsBorrowed == TypeOK /\ FoundInv => WorkIsBorrowed
<1> SUFFICES ASSUME TypeOK, FoundInv PROVE WorkIsBorrowed  OBVIOUS
<1>1. ASSUME NEW k \in 1..Len(queue) PROVE Borrowed(k)
  <2> DEFINE c == queue[k]
  <2>1. Found(c) /\ Waited(k, c)  BY DEF FoundInv, WorkFound
  <2> HIDE DEF c
  <2>2. ASSUME Checked(c), NEW slot \in DOMAIN c.bufs
        PROVE  Borrows(c, c.bufs[slot])
    BY <2>1, <2>2 DEF Found, FoundAt, Borrows
  <2>3. QED  BY <2>1, <2>2 DEF Borrowed, Checked, Found, Waited, c
<1>2. DOMAIN queue = 1..Len(queue)  BY DEF TypeOK, DeviceOK
<1>3. QED  BY <1>1, <1>2 DEF WorkIsBorrowed

LEMMA WorkInvariant == Spec => []FoundInv
<1>1. Init => FoundInv  BY InitFound
<1>2. TypeOK /\ OneCapture /\ FoundInv /\ [Next]_vars => FoundInv'  BY FoundInvStep
<1>3. QED  BY <1>1, <1>2, TypeCorrect, CaptureEnds, PTL DEF Spec

\* For any number of scopes on one device, captures, replays and whatever the pool
\* does, each queued run, copy and clear that was checked uses what its unfinished
\* call borrows: a call its very node and buffers, a replay a bound node and bound
\* tensors at the recorded addresses, whatever was freed, dropped and put there since
\* the capture.  The SAFETY comments of Scope::execute, copy and replay
\* (src/safe/scope.rs), copy_into and zero (src/safe/mod.rs).
THEOREM CallsBorrow == Spec => []WorkIsBorrowed
<1>1. TypeOK /\ FoundInv => WorkIsBorrowed  BY FoundIsBorrowed
<1>2. QED  BY <1>1, WorkInvariant, TypeCorrect, PTL

\* For any scopes, captures and replays, a run that was checked, of the node that is
\* at its place, finds at each address it was given a live buffer, long enough for
\* the meta words the device then holds, checked on the host when other words were
\* there: Scope::execute's checks, which replay makes again (src/safe/scope.rs), and
\* update_meta, which changes the needed lengths with the meta (src/safe/mod.rs).
THEOREM CallsFitBuffers == Spec => []RunsFitTheirBuffers
<1>1. TypeOK /\ OneOwner /\ RunsSeeTheirMeta /\ FoundInv => RunsFitTheirBuffers  BY FoundFits
<1>2. QED  BY <1>1, WorkInvariant, TypeCorrect, BuffersOwned, MetasSeen, PTL
===============================================================================
