------------------------------- MODULE Scope -------------------------------
(***************************************************************************)
(* The safe layer's core: tensors, nodes, scopes, captures and replays on  *)
(* one open device (src/safe/mod.rs, src/safe/scope.rs), above a device    *)
(* that runs queued commands later, in order, as the contract in           *)
(* src/backend/mod.rs has it and src/backends/cuda.rs does it.             *)
(*                                                                         *)
(* Host side.  A tensor variable t holds a raw buffer (tensor[t]), a node  *)
(* variable p - its place is the node's address - holds a built node       *)
(* (place[p]).  Rust's borrows are guards: what a scope binds cannot be    *)
(* dropped, replaced, moved or bound by another scope before it closes.    *)
(* Scopes stand for threads, or for nested scopes of one thread.           *)
(*                                                                         *)
(* Device side.  queue holds the commands not yet run.  While capturing,   *)
(* execute_raw appends to graph instead.  meta_words[i] is what the meta   *)
(* buffer of node i holds on the device.                                   *)
(*                                                                         *)
(* An identity (a member of Buffers or NodeIds) is used for one raw buffer *)
(* or node only, ever; an address may be used again.  Those two sets and   *)
(* MaxQueue and MaxCalls are the bounds of the model.                      *)
(***************************************************************************)
EXTENDS Rules, FiniteSets

CONSTANTS
  Scopes,       \* callers, each with at most one open scope at a time
  Tensors,      \* tensor variables
  Places,       \* node variables: the addresses a node can have
  Buffers,      \* identities of raw buffers
  NodeIds,      \* identities of built nodes
  Recordings,   \* variables that hold a Recording; empty: nothing is captured
  Addresses,    \* device addresses
  Lens,         \* tensor lengths, in elements
  Kind,         \* [Tensors -> kind]: the kind each tensor variable is made for
  Metas,        \* meta values (whole argument lists) that meta_types accepts
  Layout,       \* [shader -> sequence of roles]
  MinLens,      \* [shader -> [Metas -> sequence of needed lengths]]
  PoolKeeps,    \* TRUE: the pool has room for every dropped buffer
  MaxQueue,     \* bound on the device's queue
  MaxCalls,     \* bound on the calls a scope, or the device, records
  None

Shaders == DOMAIN Layout

ASSUME NoneAssumption == None \notin Buffers \cup NodeIds \cup Places \cup Metas
ASSUME BoundsAssumption == MaxQueue \in Nat \ {0} /\ MaxCalls \in Nat
ASSUME LensAssumption == Lens \subseteq Nat
ASSUME KindAssumption == Kind \in [Tensors -> STRING]
ASSUME LayoutAssumption ==
    /\ \A sh \in Shaders : Layout[sh] \in Seq([role : RoleNames, kind : STRING])
    /\ MinLens \in [Shaders -> [Metas -> Seq(Nat)]]
    /\ \A sh \in Shaders, m \in Metas : Len(MinLens[sh][m]) = Len(Layout[sh])

VARIABLES
  buffer,      \* raw buffers: [st, address, kind, len]
  tensor,      \* what each tensor variable holds
  node,        \* built nodes: [st, shader, meta, lens]
  place,       \* which node each place holds
  phase,       \* "closed", "open", or "syncing": in SyncOnDrop
  bufs,        \* tensors bound to a scope
  nodes,       \* places bound to a scope
  recording,   \* Scope::recording, Some or None: [on, calls]; and whether the
               \* EndCaptureOnDrop of a capture in progress exists: armed
  capturing,   \* the device records execute_raw
  graph,       \* what the device recorded so far
  kept,        \* Recordings alive: [on, calls, raw]
  queue,       \* commands the device has not run yet
  meta_words,  \* each node's meta buffer on the device
  ahead        \* commands a syncing scope still waits for

hostvars == <<buffer, tensor, node, place>>
scopevars == <<phase, bufs, nodes, ahead>>
capturevars == <<recording, capturing, graph, kept>>
vars == <<hostvars, scopevars, capturevars, queue, meta_words>>

-----------------------------------------------------------------------------
(* Types.                                                                  *)

Kinds == {Kind[t] : t \in Tensors}
Arg == [tensor : Tensors, write : BOOLEAN]
RecordedArg == [address : Addresses, write : BOOLEAN]
RecordedCall == [node : Places, args : Seq(RecordedArg)]
\* How a command came to be queued, or which of a scope's recorded calls a call
\* is (0: of none), is kept for the properties; nothing is decided by it.
RawCall == [node : NodeIds, place : Places, bufs : Seq(Buffers), call : Nat]
Commands == [op : {"run", "copy", "clear", "meta"}, by : Scopes \cup {None},
             node : NodeIds \cup {None}, place : Places \cup {None},
             bufs : Seq(Buffers), meta : Metas \cup {None},
             how : {"called", "replayed", "unchecked"}]

NotRecording == [on |-> FALSE, armed |-> FALSE, calls |-> <<>>]
NoRecording == [on |-> FALSE, calls |-> <<>>, raw |-> <<>>]

TensorsOK ==
    /\ buffer \in [Buffers -> [st : {"unmade", "held", "pooled", "freed"},
                               address : Addresses \cup {None},
                               kind : Kinds \cup {None}, len : Lens \cup {0}]]
    /\ tensor \in [Tensors -> Buffers \cup {None}]
    /\ \A b \in Buffers : buffer[b].st # "unmade" => buffer[b].address \in Addresses
    /\ \A t \in Tensors : tensor[t] # None => buffer[tensor[t]].st # "unmade"

NodesOK ==
    /\ node \in [NodeIds -> [st : {"unbuilt", "live", "dropped"},
                             shader : Shaders \cup {None},
                             meta : Metas \cup {None}, lens : Seq(Nat)]]
    /\ place \in [Places -> NodeIds \cup {None}]
    /\ \A p \in Places : place[p] # None =>
          /\ node[place[p]].st = "live"
          /\ node[place[p]].shader \in Shaders
          /\ node[place[p]].meta \in Metas
    /\ \A p, q \in Places : place[p] = place[q] /\ place[p] # None => p = q

ScopesOK ==
    /\ phase \in [Scopes -> {"closed", "open", "syncing"}]
    /\ bufs \in [Scopes -> SUBSET Tensors]
    /\ nodes \in [Scopes -> SUBSET Places]
    /\ ahead \in [Scopes -> Nat]
    /\ \A s \in Scopes : \A p \in nodes[s] : place[p] # None
    /\ \A s \in Scopes : \A t \in bufs[s] : tensor[t] # None

CapturesOK ==
    /\ recording \in [Scopes -> [on : BOOLEAN, armed : BOOLEAN,
                               calls : Seq(RecordedCall)]]
    /\ capturing \in BOOLEAN
    /\ graph \in Seq(RawCall)
    /\ kept \in [Recordings -> [on : BOOLEAN, calls : Seq(RecordedCall),
                                raw : Seq(RawCall)]]

DeviceOK ==
    /\ queue \in Seq(Commands)
    /\ meta_words \in [NodeIds -> Metas \cup {None}]

\* The types, and what Rust's types add: a tensor holds a buffer that was made, a
\* place a live node of its own, and what is bound is there.
TypeOK == TensorsOK /\ NodesOK /\ ScopesOK /\ CapturesOK /\ DeviceOK

-----------------------------------------------------------------------------
(* State functions.                                                        *)

Live(b) == buffer[b].st \in {"held", "pooled"}
LiveAddresses == {buffer[b].address : b \in {c \in Buffers : Live(c)}}

\* A bound value is borrowed mutably until its scope closes.
BoundTensors == UNION {bufs[s] : s \in Scopes}
BoundPlaces == UNION {nodes[s] : s \in Scopes}

Unbound(t) == t \notin BoundTensors
UnboundPlace(p) == p \notin BoundPlaces

\* A command that a scope queued.
Command(s, op, p, bs, m) ==
    [op |-> op, by |-> s, node |-> IF p = None THEN None ELSE place[p],
     place |-> p, bufs |-> bs, meta |-> m, how |-> "called"]

\* The device's stream: one queue, whoever calls.
Enqueue(commands) ==
    /\ Len(queue) + Len(commands) <= MaxQueue
    /\ queue' = queue \o commands

-----------------------------------------------------------------------------
(* Outside a scope: tensors.                                               *)

\* The pool is asked first, for the exact kind and length; a new buffer is
\* made only when it has none.  When the device is out of memory the pool is
\* emptied and the device asked again.
Alloc(t, len) ==
    LET pooled == {b \in Buffers : buffer[b].st = "pooled"}
        fits == {b \in pooled : buffer[b].kind = Kind[t] /\ buffer[b].len = len}
    IN
    /\ tensor[t] = None
    /\ \/ \E b \in fits :
             /\ buffer' = [buffer EXCEPT ![b].st = "held"]
             /\ tensor' = [tensor EXCEPT ![t] = b]
       \/ /\ fits = {}
          /\ \E b \in Buffers, a \in Addresses, drained \in {{}, pooled} :
                /\ buffer[b].st = "unmade"
                /\ drained # {} => ~PoolKeeps
                /\ \A c \in Buffers \ drained : Live(c) => buffer[c].address # a
                /\ buffer' = [c \in Buffers |->
                      IF c = b THEN [st |-> "held", address |-> a,
                                     kind |-> Kind[t], len |-> len]
                      ELSE IF c \in drained THEN [buffer[c] EXCEPT !.st = "freed"]
                      ELSE buffer[c]]
                /\ tensor' = [tensor EXCEPT ![t] = b]
    /\ UNCHANGED <<node, place, scopevars, capturevars, queue, meta_words>>

\* A dropped tensor's buffer goes to the pool, or is freed when the pool is full.
DropTensor(t) ==
    /\ tensor[t] # None
    /\ Unbound(t)
    /\ \E st \in {"pooled"} \cup (IF PoolKeeps THEN {} ELSE {"freed"}) :
          buffer' = [buffer EXCEPT ![tensor[t]].st = st]
    /\ tensor' = [tensor EXCEPT ![t] = None]
    /\ UNCHANGED <<node, place, scopevars, capturevars, queue, meta_words>>

\* Mutant: the old buffer is given back and kept too.
ReplaceTensor_Duplicated(t, u) ==
    /\ tensor[u] # None
    /\ Unbound(t) /\ Unbound(u)
    /\ tensor' = [tensor EXCEPT ![t] = tensor[u]]
    /\ UNCHANGED <<buffer, node, place, scopevars, capturevars, queue, meta_words>>

\* Tensor::replace: t takes u's buffer; its old one comes back, into u.
ReplaceTensor(t, u) ==
    /\ t # u
    /\ tensor[t] # None /\ tensor[u] # None
    /\ Unbound(t) /\ Unbound(u)
    /\ same_kind(Kind[t], Kind[u])
    /\ tensor' = [tensor EXCEPT ![t] = tensor[u], ![u] = tensor[t]]
    /\ UNCHANGED <<buffer, node, place, scopevars, capturevars, queue, meta_words>>

-----------------------------------------------------------------------------
(* Outside a scope: nodes.                                                 *)

\* Building a node also queues the write of its meta buffer.
BuildNode(p, i, sh, m) ==
    /\ place[p] = None
    /\ node[i].st = "unbuilt"
    /\ node' = [node EXCEPT ![i] = [st |-> "live", shader |-> sh, meta |-> m,
                                    lens |-> MinLens[sh][m]]]
    /\ place' = [place EXCEPT ![p] = i]
    /\ Enqueue(<<[op |-> "meta", by |-> None, node |-> i, place |-> None,
                  bufs |-> <<>>, meta |-> m, how |-> "called"]>>)
    /\ UNCHANGED <<buffer, tensor, scopevars, capturevars, meta_words>>

DropNode(p) ==
    /\ place[p] # None
    /\ UnboundPlace(p)
    /\ node' = [node EXCEPT ![place[p]].st = "dropped"]
    /\ place' = [place EXCEPT ![p] = None]
    /\ UNCHANGED <<buffer, tensor, scopevars, capturevars, queue, meta_words>>

\* A move changes the node's address and nothing else.
MoveNode(p, q) ==
    /\ place[p] # None
    /\ UnboundPlace(p)
    /\ place[q] = None
    /\ place' = [place EXCEPT ![p] = None, ![q] = place[p]]
    /\ UNCHANGED <<buffer, tensor, node, scopevars, capturevars, queue, meta_words>>

\* Node::replace: p takes q's node; its old one comes back, into q.
ReplaceNode(p, q) ==
    /\ p # q
    /\ place[p] # None /\ place[q] # None
    /\ UnboundPlace(p) /\ UnboundPlace(q)
    /\ LET old == Layout[node[place[p]].shader] IN
          slot_kinds(Layout[node[place[q]].shader], [slot \in DOMAIN old |-> old[slot].kind])
    /\ place' = [place EXCEPT ![p] = place[q], ![q] = place[p]]
    /\ UNCHANGED <<buffer, tensor, node, scopevars, capturevars, queue, meta_words>>

\* Mutant: the needed lengths of the old meta stay.
update_meta_StaleLens(p, m) ==
    /\ place[p] # None
    /\ UnboundPlace(p) \/ \E s \in Scopes : phase[s] = "open" /\ p \in nodes[s]
    /\ node' = [node EXCEPT ![place[p]].meta = m]
    /\ Enqueue(<<[op |-> "meta", by |-> None, node |-> place[p], place |-> None,
                  bufs |-> <<>>, meta |-> m, how |-> "called"]>>)
    /\ UNCHANGED <<buffer, tensor, place, scopevars, capturevars, meta_words>>

\* Mutant: the words are written at once, not on the stream the runs are on.
update_meta_NotQueued(p, m) ==
    /\ place[p] # None
    /\ UnboundPlace(p) \/ \E s \in Scopes : phase[s] = "open" /\ p \in nodes[s]
    /\ LET i == place[p] IN
       /\ node' = [node EXCEPT ![i] = [@ EXCEPT !.lens = MinLens[node[i].shader][m], !.meta = m]]
       /\ meta_words' = [meta_words EXCEPT ![i] = m]
    /\ UNCHANGED <<buffer, tensor, place, scopevars, capturevars, queue>>

\* Node::update_meta, or Scope::update_meta on a bound node.
update_meta(p, m) ==
    /\ place[p] # None
    /\ UnboundPlace(p) \/ \E s \in Scopes : phase[s] = "open" /\ p \in nodes[s]
    /\ LET i == place[p] IN
       /\ node' = [node EXCEPT ![i] = [@ EXCEPT !.lens = MinLens[node[i].shader][m], !.meta = m]]
       /\ Enqueue(<<[op |-> "meta", by |-> None, node |-> i, place |-> None,
                     bufs |-> <<>>, meta |-> m, how |-> "called"]>>)
    /\ UNCHANGED <<buffer, tensor, place, scopevars, capturevars, meta_words>>

-----------------------------------------------------------------------------
(* Scopes.                                                                 *)

OpenScope(s) ==
    /\ phase[s] = "closed"
    /\ phase' = [phase EXCEPT ![s] = "open"]
    /\ UNCHANGED <<hostvars, bufs, nodes, ahead, capturevars, queue, meta_words>>

bind(s, t) ==
    /\ phase[s] = "open"
    /\ tensor[t] # None
    /\ Unbound(t)
    /\ bufs' = [bufs EXCEPT ![s] = @ \cup {t}]
    /\ UNCHANGED <<hostvars, phase, nodes, ahead, capturevars, queue, meta_words>>

bind_node(s, p) ==
    /\ phase[s] = "open"
    /\ place[p] # None
    /\ UnboundPlace(p)
    /\ nodes' = [nodes EXCEPT ![s] = @ \cup {p}]
    /\ UNCHANGED <<hostvars, phase, bufs, ahead, capturevars, queue, meta_words>>

\* The end of the closure, by return or by panic: SyncOnDrop waits for
\* everything queued so far.
StartSync(s) ==
    /\ phase' = [phase EXCEPT ![s] = "syncing"]
    /\ ahead' = [ahead EXCEPT ![s] = Len(queue')]

EndScope(s) ==
    /\ phase[s] = "open"
    /\ ~recording[s].armed
    /\ UNCHANGED <<hostvars, bufs, nodes, capturevars, queue, meta_words>>
    /\ StartSync(s)

\* Mutant: the scope returns without waiting.
CloseScope_Unsynced(s) ==
    /\ phase[s] = "syncing"
    /\ phase' = [phase EXCEPT ![s] = "closed"]
    /\ ahead' = [ahead EXCEPT ![s] = 0]
    /\ bufs' = [bufs EXCEPT ![s] = {}]
    /\ nodes' = [nodes EXCEPT ![s] = {}]
    /\ recording' = [recording EXCEPT ![s] = NotRecording]
    /\ UNCHANGED <<hostvars, capturing, graph, kept, queue, meta_words>>

\* The scope is gone, with all it held.
CloseScope(s) ==
    /\ phase[s] = "syncing"
    /\ ahead[s] = 0
    /\ phase' = [phase EXCEPT ![s] = "closed"]
    /\ bufs' = [bufs EXCEPT ![s] = {}]
    /\ nodes' = [nodes EXCEPT ![s] = {}]
    /\ recording' = [recording EXCEPT ![s] = NotRecording]
    /\ UNCHANGED <<hostvars, ahead, capturing, graph, kept, queue, meta_words>>

\* execute's checks, made again for every call a replay runs.
check(n, args) ==
    LET layout == Layout[n.shader] IN
    /\ slot_kinds(layout, [slot \in DOMAIN args |-> Kind[args[slot].tensor]])
    /\ \A slot \in DOMAIN layout :
          /\ slot_access(layout[slot], args[slot].write)
          /\ long_enough(n.lens[slot], buffer[tensor[args[slot].tensor]].len)
    /\ not_aliased(layout, [slot \in DOMAIN args |-> args[slot].tensor])

RecordedArgs(args) ==
    [slot \in DOMAIN args |-> [address |-> buffer[tensor[args[slot].tensor]].address,
                               write |-> args[slot].write]]

WithCall(rec, call) == [rec EXCEPT !.calls = Append(@, call)]

RawBuffers(args) == [slot \in DOMAIN args |-> tensor[args[slot].tensor]]

execute(s, p, args) ==
    /\ phase[s] = "open"
    /\ p \in nodes[s]
    /\ \A slot \in DOMAIN args : args[slot].tensor \in bufs[s]
    /\ check(node[place[p]], args)
    /\ \/ /\ capturing
          /\ Len(graph) < MaxCalls
          /\ graph' = Append(graph, [node |-> place[p], place |-> p, bufs |-> RawBuffers(args),
                                     call |-> IF recording[s].armed
                                              THEN Len(recording[s].calls) + 1 ELSE 0])
          /\ UNCHANGED queue
       \/ /\ ~capturing
          /\ Enqueue(<<Command(s, "run", p, RawBuffers(args), node[place[p]].meta)>>)
          /\ UNCHANGED graph
    /\ \/ /\ recording[s].on
          /\ Len(recording[s].calls) < MaxCalls
          /\ recording' = [recording EXCEPT
                 ![s] = WithCall(@, [node |-> p, args |-> RecordedArgs(args)])]
       \/ /\ ~recording[s].on
          /\ UNCHANGED recording
    /\ UNCHANGED <<hostvars, scopevars, capturing, kept, meta_words>>

\* Scope::copy, not recorded by a capture.
copy(s, t, u) ==
    /\ phase[s] = "open"
    /\ t # u
    /\ {t, u} \subseteq bufs[s]
    /\ same_kind(Kind[u], Kind[t])
    /\ Enqueue(<<Command(s, "copy", None, <<tensor[t], tensor[u]>>, None)>>)
    /\ UNCHANGED <<hostvars, scopevars, capturevars, meta_words>>

\* Mutant: the command is queued and the call returns.
Blocking_Unsynced(s, op, ts) ==
    /\ phase[s] = "closed"
    /\ \A k \in DOMAIN ts : tensor[ts[k]] # None /\ Unbound(ts[k])
    /\ Enqueue(<<Command(s, op, None, [k \in DOMAIN ts |-> tensor[ts[k]]], None)>>)
    /\ UNCHANGED <<hostvars, scopevars, capturevars, meta_words>>

\* Tensor::copy_into and Tensor::zero queue one command and wait for it, with
\* their tensors borrowed: a caller without a scope, syncing at once.
Blocking(s, op, ts) ==
    /\ phase[s] = "closed"
    /\ \A k \in DOMAIN ts : tensor[ts[k]] # None /\ Unbound(ts[k])
    /\ Enqueue(<<Command(s, op, None, [k \in DOMAIN ts |-> tensor[ts[k]]], None)>>)
    /\ bufs' = [bufs EXCEPT ![s] = {ts[k] : k \in DOMAIN ts}]
    /\ StartSync(s)
    /\ UNCHANGED <<hostvars, nodes, capturevars, meta_words>>

copy_into(s, t, u) ==
    /\ t # u
    /\ same_kind(Kind[u], Kind[t])
    /\ Blocking(s, "copy", <<t, u>>)

zero(s, t) == Blocking(s, "clear", <<t>>)

-----------------------------------------------------------------------------
(* Captures.                                                               *)

\* The scope's own flag is set before the device is asked.  A device that is
\* already recording panics, before the guard exists that would reset the flag.
\* The panic ends the scope, unless its closure catches it.
BeginCapture(s) ==
    /\ Recordings # {}
    /\ phase[s] = "open"
    /\ ~recording[s].on
    /\ recording' = [recording EXCEPT
           ![s] = [on |-> TRUE, armed |-> ~capturing, calls |-> <<>>]]
    /\ capturing' = TRUE
    /\ UNCHANGED <<hostvars, bufs, nodes, kept, queue, meta_words>>
    /\ \/ /\ ~capturing
          /\ graph' = <<>>
          /\ UNCHANGED <<phase, ahead>>
       \/ /\ capturing
          /\ StartSync(s) \/ UNCHANGED <<phase, ahead>>
          /\ UNCHANGED graph

\* Whatever the closure did, the scope and the device stop recording.
StopRecording(s) ==
    /\ recording[s].armed
    /\ recording' = [recording EXCEPT ![s] = NotRecording]
    /\ capturing' = FALSE
    /\ graph' = <<>>
    /\ UNCHANGED <<hostvars, bufs, nodes, queue, meta_words>>

\* Mutant: the scope's calls are read after they were taken.
EndCapture_TakenFirst(s, r) ==
    /\ StopRecording(s)
    /\ ~kept[r].on
    /\ kept' = [kept EXCEPT ![r] = [on |-> TRUE, calls |-> recording'[s].calls,
                                    raw |-> graph]]
    /\ UNCHANGED <<phase, ahead>>

\* The closure returned Ok: the caller has a Recording.
EndCapture(s, r) ==
    /\ StopRecording(s)
    /\ ~kept[r].on
    /\ kept' = [kept EXCEPT ![r] = [on |-> TRUE, calls |-> recording[s].calls,
                                    raw |-> graph]]
    /\ UNCHANGED <<phase, ahead>>

\* The closure returned Err, or end_capture did, or the closure panicked and
\* the scope's own closure catches that: nothing is kept.
FailCapture(s) ==
    /\ StopRecording(s)
    /\ UNCHANGED <<kept, phase, ahead>>

\* Mutant: without EndCaptureOnDrop the device stays recording.
PanicInCapture_Unguarded(s) ==
    /\ recording[s].armed
    /\ recording' = [recording EXCEPT ![s] = NotRecording]
    /\ UNCHANGED <<hostvars, bufs, nodes, capturing, graph, kept, queue, meta_words>>
    /\ StartSync(s)

\* The closure panicked: EndCaptureOnDrop, and SyncOnDrop if nobody catches it.
PanicInCapture(s) ==
    /\ StopRecording(s)
    /\ StartSync(s)
    /\ UNCHANGED kept

DropRecording(r) ==
    /\ kept[r].on
    /\ kept' = [kept EXCEPT ![r] = NoRecording]
    /\ UNCHANGED <<hostvars, scopevars, recording, capturing, graph, queue, meta_words>>

\* The bound tensor a recorded address stands for.
BoundAt(s, a) == {t \in bufs[s] : buffer[tensor[t]].address = a}

ReplayArgs(s, args) ==
    [slot \in DOMAIN args |-> [tensor |-> CHOOSE t \in BoundAt(s, args[slot].address) : TRUE,
                               write |-> args[slot].write]]

\* Mutant: the tensors are found again, but not checked again.
ReplayChecked_Unchecked(s, call) ==
    /\ call.node \in nodes[s]
    /\ \A slot \in DOMAIN call.args : BoundAt(s, call.args[slot].address) # {}

\* Mutant: the node is found at its place, bound or not.
ReplayChecked_Unbound(s, call) ==
    /\ place[call.node] # None
    /\ \A slot \in DOMAIN call.args : BoundAt(s, call.args[slot].address) # {}
    /\ check(node[place[call.node]], ReplayArgs(s, call.args))

ReplayChecked(s, call) ==
    /\ call.node \in nodes[s]
    /\ \A slot \in DOMAIN call.args : BoundAt(s, call.args[slot].address) # {}
    /\ check(node[place[call.node]], ReplayArgs(s, call.args))

ReplayCommand(s, c) ==
    [op |-> "run", by |-> s, node |-> c.node, place |-> c.place, bufs |-> c.bufs,
     meta |-> node[c.node].meta, how |-> IF c.call = 0 THEN "unchecked" ELSE "replayed"]


\* The scope checks its own calls again; the device runs what it recorded.
replay(s, r) ==
    /\ phase[s] = "open"
    /\ kept[r].on
    /\ ~recording[s].on
    /\ \A k \in DOMAIN kept[r].calls : ReplayChecked(s, kept[r].calls[k])
    /\ LET raw == kept[r].raw IN
       Enqueue([k \in DOMAIN raw |-> ReplayCommand(s, raw[k])])
    /\ UNCHANGED <<hostvars, scopevars, capturevars, meta_words>>

-----------------------------------------------------------------------------
(* The device.                                                             *)

\* Mutant: a waiting scope's count is decremented past zero.
RunCommand_Underflow ==
    /\ queue # <<>>
    /\ LET c == Head(queue) IN
          meta_words' = IF c.op = "meta" THEN [meta_words EXCEPT ![c.node] = c.meta]
                        ELSE meta_words
    /\ queue' = Tail(queue)
    /\ ahead' = [s \in Scopes |-> ahead[s] - 1]
    /\ UNCHANGED <<hostvars, phase, bufs, nodes, capturevars>>

\* Mutant: synchronize waits until the whole queue is empty.
RunCommand_WaitForAll ==
    /\ queue # <<>>
    /\ LET c == Head(queue) IN
          meta_words' = IF c.op = "meta" THEN [meta_words EXCEPT ![c.node] = c.meta]
                        ELSE meta_words
    /\ queue' = Tail(queue)
    /\ ahead' = [s \in Scopes |-> IF ahead[s] > 0 THEN Len(queue') ELSE 0]
    /\ UNCHANGED <<hostvars, phase, bufs, nodes, capturevars>>

\* The device runs its oldest command.  Runs, copies and clears change
\* contents, which are not modelled.
RunCommand ==
    /\ queue # <<>>
    /\ LET c == Head(queue) IN
          meta_words' = IF c.op = "meta" THEN [meta_words EXCEPT ![c.node] = c.meta]
                        ELSE meta_words
    /\ queue' = Tail(queue)
    /\ ahead' = [s \in Scopes |-> IF ahead[s] > 0 THEN ahead[s] - 1 ELSE 0]
    /\ UNCHANGED <<hostvars, phase, bufs, nodes, capturevars>>

-----------------------------------------------------------------------------
Init ==
    /\ buffer = [b \in Buffers |-> [st |-> "unmade", address |-> None,
                                    kind |-> None, len |-> 0]]
    /\ tensor = [t \in Tensors |-> None]
    /\ node = [i \in NodeIds |-> [st |-> "unbuilt", shader |-> None,
                                  meta |-> None, lens |-> <<>>]]
    /\ place = [p \in Places |-> None]
    /\ phase = [s \in Scopes |-> "closed"]
    /\ bufs = [s \in Scopes |-> {}]
    /\ nodes = [s \in Scopes |-> {}]
    /\ recording = [s \in Scopes |-> NotRecording]
    /\ capturing = FALSE
    /\ graph = <<>>
    /\ kept = [r \in Recordings |-> NoRecording]
    /\ queue = <<>>
    /\ meta_words = [i \in NodeIds |-> None]
    /\ ahead = [s \in Scopes |-> 0]

\* Every list of arguments a caller can pass for a node: one per slot.  Rust
\* takes any length; another length fails in slot_count.
ArgLists(n) == [DOMAIN Layout[n.shader] -> Arg]

Next ==
    \/ \E t \in Tensors : \/ \E len \in Lens : Alloc(t, len)
                          \/ DropTensor(t)
                          \/ \E u \in Tensors : ReplaceTensor(t, u)
    \/ \E p \in Places : \/ \E i \in NodeIds, sh \in Shaders, m \in Metas : BuildNode(p, i, sh, m)
                         \/ DropNode(p)
                         \/ \E q \in Places : MoveNode(p, q) \/ ReplaceNode(p, q)
                         \/ \E m \in Metas : update_meta(p, m)
    \/ \E s \in Scopes : \/ OpenScope(s)
                         \/ EndScope(s)
                         \/ CloseScope(s)
                         \/ \E t \in Tensors : bind(s, t)
                         \/ \E p \in Places : bind_node(s, p)
                         \/ \E p \in nodes[s] :
                              \E args \in ArgLists(node[place[p]]) : execute(s, p, args)
                         \/ \E t, u \in Tensors : copy(s, t, u) \/ copy_into(s, t, u)
                         \/ \E t \in Tensors : zero(s, t)
                         \/ BeginCapture(s)
                         \/ \E r \in Recordings : EndCapture(s, r) \/ replay(s, r)
                         \/ FailCapture(s)
                         \/ PanicInCapture(s)
    \/ \E r \in Recordings : DropRecording(r)
    \/ RunCommand

Spec == Init /\ [][Next]_vars

\* The device keeps running what is queued, and a caller in SyncOnDrop is
\* woken when its work is done.  Nothing obliges a caller to do anything.
Fairness ==
    /\ WF_vars(RunCommand)
    /\ \A s \in Scopes : WF_vars(CloseScope(s))

FairSpec == Spec /\ Fairness

-----------------------------------------------------------------------------
(* Properties.                                                             *)

\* What a call is given in place of buffer b: a call that is executed, copied or
\* cleared borrows b itself, a replayed one whatever is at the recorded address.
Borrows(c, b) ==
    \E t \in bufs[c.by] :
        \/ tensor[t] = b
        \/ c.how = "replayed" /\ buffer[tensor[t]].address = buffer[b].address

\* A scope's work only uses what the scope has bound, and the scope cannot
\* close before the work is done.
Borrowed(k) ==
    LET c == queue[k] IN
    c.op # "meta" /\ c.how # "unchecked" =>
      /\ c.by \in Scopes
      /\ phase[c.by] # "closed"
      /\ phase[c.by] = "syncing" => k <= ahead[c.by]
      /\ c.op = "run" => c.place \in nodes[c.by]
      /\ c.op = "run" /\ c.how = "called" => place[c.place] = c.node
      /\ \A slot \in DOMAIN c.bufs : Borrows(c, c.bufs[slot])

\* Every run, copy and clear in the device's queue that was checked uses a place
\* and addresses that are borrowed until it is done, whatever was freed, dropped
\* and put there since a capture: what the SAFETY comments of Scope::execute, copy
\* and replay, copy_into and zero claim.  A call that was not replayed uses the
\* very node and buffers.
WorkIsBorrowed == \A k \in DOMAIN queue : Borrowed(k)

\* When the device starts a run that was checked, of a node that is where it was,
\* the node is alive, and at each address it was given there is a live buffer, long
\* enough for the meta words the device now holds: checked on the host before, when
\* the meta on the device was another.
RunsFitTheirBuffers ==
    queue # <<>> /\ Head(queue).op = "run" =>
      LET c == Head(queue)
          need == MinLens[node[c.node].shader][meta_words[c.node]]
      IN
      c.how # "unchecked" /\ place[c.place] = c.node =>
        /\ node[c.node].st = "live"
        /\ \A slot \in DOMAIN c.bufs : \E b \in Buffers :
              /\ Live(b)
              /\ buffer[b].address = buffer[c.bufs[slot]].address
              /\ buffer[b].len >= need[slot]

\* Not so: "so they live, haven't moved" (SAFETY, src/safe/scope.rs:400-402), and
\* "every recorded node still lives" (src/backend/mod.rs:236-238), that is, a run
\* that its scope checked is of the node that is at its place.  Another node, built
\* where the recorded one was, is checked in its stead.
NodesStay ==
    \A k \in DOMAIN queue :
        LET c == queue[k] IN
        c.op = "run" /\ c.how # "unchecked" =>
            node[c.node].st = "live" /\ place[c.place] = c.node

\* Not so: "the caller keeps every recorded node and buffer alive and in place"
\* (SAFETY of the CPU's replay, src/backends/cpu.rs:320), that is, the slices it
\* makes again, as long as the recorded buffers were, are inside live buffers.  A
\* shorter buffer at the address will do, where the node's meta needs no more.
SlicesFit ==
    \A k \in DOMAIN queue :
        LET c == queue[k] IN
        c.op = "run" /\ c.how = "replayed" =>
            \A slot \in DOMAIN c.bufs : \E b \in Buffers :
                /\ Live(b)
                /\ buffer[b].address = buffer[c.bufs[slot]].address
                /\ buffer[b].len >= buffer[c.bufs[slot]].len

\* A run sees the meta its node had when it was queued, executed or replayed:
\* not a later one, which update_meta queued after it (backend/mod.rs, update_meta).
RunsSeeTheirMeta ==
    queue # <<>> /\ Head(queue).op = "run" =>
        meta_words[Head(queue).node] = Head(queue).meta

\* What a Recording's checks look at is what the device recorded, call by call.
SameCalls(calls, raw) ==
    /\ Len(calls) = Len(raw)
    /\ \A k \in DOMAIN calls :
          /\ calls[k].node = raw[k].place
          /\ Len(calls[k].args) = Len(raw[k].bufs)
          /\ \A slot \in DOMAIN calls[k].args :
                calls[k].args[slot].address = buffer[raw[k].bufs[slot]].address

\* Not so with two scopes: Scope::capture "records the executes that f makes", that
\* is, the calls replay checks again (scope.rs) are the calls the device will run.
\* Another scope's execute gets into the graph too.
CapturesAgree ==
    /\ \A s \in Scopes : recording[s].armed => SameCalls(recording[s].calls, graph)
    /\ \A r \in Recordings : kept[r].on => SameCalls(kept[r].calls, kept[r].raw)

\* The device records exactly while the closure of one capture runs, and that
\* capture's scope takes note: one that fails or panics stops both, one that is
\* refused stops neither.  What a refused one leaves behind ends with its scope.
OneCapture ==
    /\ capturing <=> \E s \in Scopes : recording[s].armed
    /\ \A s, u \in Scopes : recording[s].armed /\ recording[u].armed => s = u
    /\ \A s \in Scopes :
          /\ recording[s].armed => recording[s].on /\ phase[s] = "open"
          /\ phase[s] = "closed" => ~recording[s].on

\* Not so: AlreadyCapturing is "a capture inside a capture", ReplayWhileCapturing "a
\* replay inside a capture" (src/error.rs:81-84), that is, a scope that is used takes
\* itself to be capturing only while it is.  A refused capture leaves the flag set
\* in a scope whose closure catches the panic.
FlagMeansCapture ==
    \A s \in Scopes : phase[s] = "open" /\ recording[s].on => recording[s].armed

\* A live buffer belongs to one tensor or to the pool, and shares its address
\* with no other: alloc, replace, drop and the pool never duplicate or leak one.
OneOwner ==
    /\ \A t, u \in Tensors : tensor[t] = tensor[u] /\ tensor[t] # None => t = u
    /\ \A b \in Buffers : buffer[b].st = "held" <=> \E t \in Tensors : tensor[t] = b
    /\ \A b, c \in Buffers :
          Live(b) /\ Live(c) /\ buffer[b].address = buffer[c].address => b = c

\* Every scope that ends returns: SyncOnDrop waits for the work queued before
\* it only, however much others keep queueing.
ScopesReturn == \A s \in Scopes : phase[s] = "syncing" ~> phase[s] = "closed"

=============================================================================
