----------------------------- MODULE WgpuProofs -----------------------------
(***************************************************************************)
(* Theorems about WgpuQueue, for every value of its constants: the types,  *)
(* and that it implements InOrder.                                         *)
(***************************************************************************)
EXTENDS WgpuQueue, CommandProofs

\* Beside the types: the commands in flight are in the order of their calls,
\* as far as nodes can tell; nothing staged is queued work; and what a thread
\* waits for is submitted and not done.
BatchInv ==
    /\ TypeOK
    /\ Ordered(InFlight, built)
    /\ \A c \in Elements(staged) : ~Queued(c)
    /\ \A t \in Threads : waits[t] \subseteq Elements(submitted)

Batches(s, g, r) == s \in Seq(Command) /\ g \in Seq(Command) /\ r \in Seq(Command)

LEMMA BatchTypes == BatchInv => Batches(submitted, staged, recorded)
BY DEF BatchInv, TypeOK, Batches

-----------------------------------------------------------------------------
(* The three batches, whatever is submitted, are one stream.               *)

LEMMA StreamAppend ==
    ASSUME NEW s, NEW g, NEW r, Batches(s, g, r), NEW c \in Command
    PROVE  /\ (s \o g) \o Append(r, c) = Append((s \o g) \o r, c)
           /\ ((s \o g) \o Append(r, c)) \o <<>> \o <<>> = Append((s \o g) \o r, c)
           /\ (((s \o g) \o r) \o <<c>>) \o <<>> = Append((s \o g) \o r, c)
           /\ (s \o Append(g, c)) \o <<>> = Append((s \o g) \o <<>>, c)
           /\ (((s \o g) \o r) \o <<>>) \o <<>> = (s \o g) \o r
           /\ Append((s \o g) \o r, c) \in Seq(Command)
<1>1. s \o g \in Seq(Command) /\ (s \o g) \o r \in Seq(Command)
  BY ConcatProperties DEF Batches
<1>2. (s \o g) \o Append(r, c) = Append((s \o g) \o r, c)  BY <1>1, ConcatAppend DEF Batches
<1>3. Append((s \o g) \o r, c) \in Seq(Command)  BY <1>1, AppendProperties
<1>4. Append((s \o g) \o r, c) = ((s \o g) \o r) \o <<c>>  BY <1>1, AppendIsConcat
<1>5. s \o Append(g, c) = Append(s \o g, c) /\ Append(s \o g, c) \in Seq(Command)
  BY <1>1, ConcatAppend, AppendProperties DEF Batches
<1> QED  BY <1>1, <1>2, <1>3, <1>4, <1>5, ConcatEmptySeq

\* Where a command goes: into the stream behind everything that is in flight.
\* What is submitted stays, and what is staged is no queued work.
Appended(c) ==
    /\ Batches(submitted', staged', recorded')
    /\ InFlight' = Append(InFlight, c)
    /\ Elements(submitted) \subseteq Elements(submitted')
    /\ \A d \in Elements(staged') : ~Queued(d)

LEMMA SubmittedGrows ==
    ASSUME BatchInv, NEW commands \in Seq(Command), commands # <<>>
    PROVE  /\ Submitted(commands) = (submitted \o staged) \o commands
           /\ Submitted(commands) \in Seq(Command)
           /\ Elements(submitted) \subseteq Elements(Submitted(commands))
<1>1. submitted \in Seq(Command) /\ staged \in Seq(Command)  BY BatchTypes DEF Batches
<1>2. submitted \o staged \in Seq(Command)  BY <1>1, ConcatProperties
<1>3. (submitted \o staged) \o commands \in Seq(Command)  BY <1>2, ConcatProperties
<1>4. Elements((submitted \o staged) \o commands)
          = (Elements(submitted) \cup Elements(staged)) \cup Elements(commands)
  <2>1. Elements(submitted \o staged) = Elements(submitted) \cup Elements(staged)
    BY <1>1, ElementsConcat
  <2> DEFINE p == submitted \o staged
  <2>2. p \in Seq(Command)  BY <1>2
  <2> HIDE DEF p
  <2>3. Elements(p \o commands) = Elements(p) \cup Elements(commands)  BY <2>2, ElementsConcat
  <2> QED  BY <2>1, <2>3 DEF p
<1> QED  BY <1>3, <1>4 DEF Submitted

LEMMA NothingStaged == Elements(<<>>) = {} /\ <<>> \in Seq(Command)
BY EmptySeq DEF Elements

LEMMA StageAppends ==
    ASSUME BatchInv, NEW c \in Command, ~Queued(c), Stage(c)
    PROVE  Appended(c)
<1>1. Batches(submitted, staged, recorded)  BY BatchTypes
<1>2. recorded' = <<>>  BY DEF Stage
<1>3. CASE recorded = <<>>
  <2>1. submitted' = submitted /\ staged' = Append(staged, c)
    BY <1>3 DEF Stage, Submitted, StillStaged
  <2>2. InFlight' = (submitted \o Append(staged, c)) \o <<>>  BY <1>2, <2>1 DEF InFlight
  <2>3. InFlight' = Append(InFlight, c)  BY <1>1, <1>3, <2>2, StreamAppend DEF InFlight
  <2>4. staged' \in Seq(Command) /\ Elements(staged') = Elements(staged) \cup {c}
    BY <1>1, <2>1, AppendProperties, ElementsAppend DEF Batches
  <2>5. \A d \in Elements(staged') : ~Queued(d)  BY <2>4 DEF BatchInv
  <2> QED  BY <1>1, <1>2, <2>1, <2>3, <2>4, <2>5, NothingStaged DEF Appended, Batches
<1>4. CASE recorded # <<>>
  <2>1. submitted' = (submitted \o staged) \o recorded /\ staged' = Append(<<>>, c)
    BY <1>4, SubmittedGrows DEF Stage, Submitted, StillStaged
  <2>2. staged' = <<c>> /\ staged' \in Seq(Command) /\ Elements(staged') = {c}
    <3>1. Elements(Append(<<>>, c)) = Elements(<<>>) \cup {c}  BY NothingStaged, ElementsAppend
    <3> QED  BY <2>1, <3>1, NothingStaged
  <2>3. InFlight' = (((submitted \o staged) \o recorded) \o <<c>>) \o <<>>
    BY <1>2, <2>1, <2>2 DEF InFlight
  <2>4. InFlight' = Append(InFlight, c)  BY <1>1, <2>3, StreamAppend DEF InFlight
  <2>5. submitted' \in Seq(Command) /\ Elements(submitted) \subseteq Elements(submitted')
    BY <1>1, <1>4, <2>1, SubmittedGrows DEF Batches
  <2> QED  BY <1>2, <2>2, <2>4, <2>5, NothingStaged DEF Appended, Batches
<1> QED  BY <1>3, <1>4

\* A command that is submitted, and what was staged and recorded before it.
LEMMA SubmitAppends ==
    ASSUME BatchInv, NEW c \in Command,
           submitted' = Submitted(Append(recorded, c)), staged' = <<>>, recorded' = <<>>
    PROVE  Appended(c) /\ submitted' = InFlight'
<1>1. Batches(submitted, staged, recorded)  BY BatchTypes
<1>2. Append(recorded, c) \in Seq(Command) /\ Append(recorded, c) # <<>>
  BY <1>1, AppendProperties DEF Batches
<1>3. /\ submitted' = (submitted \o staged) \o Append(recorded, c)
      /\ submitted' \in Seq(Command)
      /\ Elements(submitted) \subseteq Elements(submitted')
  BY <1>2, SubmittedGrows
<1>4. InFlight' = (((submitted \o staged) \o Append(recorded, c)) \o <<>>) \o <<>>
  BY <1>3 DEF InFlight
<1>5. InFlight' = Append(InFlight, c)  BY <1>1, <1>4, StreamAppend DEF InFlight
<1>6. submitted' = Append(InFlight, c)  BY <1>1, <1>3, StreamAppend DEF InFlight
<1> QED  BY <1>3, <1>5, <1>6, NothingStaged DEF Appended, Batches

LEMMA RecordAppends ==
    ASSUME BatchInv, NEW c \in Command, record(c)
    PROVE  Appended(c)
<1>1. Batches(submitted, staged, recorded)  BY BatchTypes
<1>2. CASE submit_every # 0 /\ Len(Append(recorded, c)) >= submit_every
  BY <1>2, SubmitAppends DEF record
<1>3. CASE ~(submit_every # 0 /\ Len(Append(recorded, c)) >= submit_every)
  <2>1. recorded' = Append(recorded, c) /\ submitted' = submitted /\ staged' = staged
    BY <1>3 DEF record
  <2>2. InFlight' = (submitted \o staged) \o Append(recorded, c)  BY <2>1 DEF InFlight
  <2>3. InFlight' = Append(InFlight, c)  BY <1>1, <2>2, StreamAppend DEF InFlight
  <2>4. recorded' \in Seq(Command)  BY <1>1, <2>1, AppendProperties DEF Batches
  <2> QED  BY <1>1, <2>1, <2>3, <2>4 DEF Appended, Batches, BatchInv
<1> QED  BY <1>2, <1>3

-----------------------------------------------------------------------------
(* What a call does to the stream of the contract.                         *)

Q == WithoutNew(InFlight)
W == NodeWords(InFlight, words, built)

\* The operators of Commands are the same for both modules.
LEMMA SameCommands ==
    /\ \A id, b, v : Stream!write(id, b, v) = write(id, b, v)
    /\ \A id, a, b : Stream!copy(id, a, b) = copy(id, a, b)
    /\ \A id, b : Stream!clear(id, b) = clear(id, b)
    /\ \A id, n, a, b : Stream!run(id, n, a, b) = run(id, n, a, b)
    /\ \A id, n, w : Stream!meta(id, n, w) = meta(id, n, w)
    /\ \A c : Stream!Queued(c) <=> Queued(c)
BY DEF Stream!write, Stream!copy, Stream!clear, Stream!run, Stream!meta, Stream!Queued,
       write, copy, clear, run, meta, Queued

LEMMA SameMemory ==
    /\ \A held, w, c : Stream!Contents(held, w, c) = Contents(held, w, c)
    /\ \A w, c : Stream!MetaWords(w, c) = MetaWords(w, c)
BY DEF Stream!Contents, Stream!MetaWords, Contents, MetaWords

LEMMA AppendedStream ==
    ASSUME BatchInv, NEW c, Sound(c, built), c.op # "new", Appended(c), UNCHANGED <<words, built>>
    PROVE  Ordered(InFlight, built)' /\ Q' = Append(Q, c) /\ W' = W
<1>1. Ordered(InFlight, built) /\ InFlight \in Seq(Command) /\ c \in Command
  BY DEF BatchInv, Ordered, Sound
<1>2. InFlight' = Append(InFlight, c)  BY DEF Appended
<1>3. Ordered(InFlight', built)  BY <1>1, <1>2, OrderedAppend
<1>4. WithoutNew(InFlight') = Append(Q, c)  BY <1>1, <1>2, WithoutNewAppend DEF Q
<1>5. NodeWords(InFlight', words, built) = W  BY <1>1, <1>2, NodeWordsAppend DEF W
<1> QED  BY <1>3, <1>4, <1>5 DEF Q, W

\* A call that doesn't block.
LEMMA EnqueueStep ==
    ASSUME BatchInv, NEW t \in Threads, NEW c, Sound(c, built), c.op # "new",
           Call(t), Appended(c), UNCHANGED <<memory, submit_every, built, threadvars>>
    PROVE  BatchInv' /\ Stream!Enqueue(t, c)
<1>1. Ordered(InFlight, built)' /\ Q' = Append(Q, c) /\ W' = W
  BY AppendedStream DEF memory
<1>2. QueuedOnly(waits)' = QueuedOnly(waits)  BY DEF threadvars, QueuedOnly
<1>3. Stream!Enqueue(t, c)
  BY <1>1, <1>2 DEF Stream!Enqueue, Stream!Call, Call, Q, W, memory, threadvars
<1>4. calls' \in 0..MaxCalls  BY CallsAssumption DEF Call, BatchInv, TypeOK
<1>5. TypeOK'  BY <1>4 DEF BatchInv, TypeOK, Appended, Batches, memory, threadvars
<1> QED  BY <1>1, <1>3, <1>5 DEF BatchInv, Appended, threadvars

\* The number of a call.
LEMMA CallsCount == ASSUME BatchInv, NEW t, Call(t) PROVE calls' \in Nat
BY CallsAssumption DEF BatchInv, TypeOK, Call

LEMMA UploadStep ==
    ASSUME BatchInv, NEW t \in Threads, NEW b \in Buffers, NEW v \in Values, upload_raw(t, b, v)
    PROVE  BatchInv' /\ Stream!upload_raw(t, b, v)
<1> DEFINE c == write(calls', b, v)
<1>1. Sound(c, built) /\ c.op = "write"  BY CallsCount, CommandTypes DEF upload_raw
<1>2. Call(t) /\ Stage(c) /\ UNCHANGED <<memory, submit_every, built, threadvars>>
  BY DEF upload_raw
<1>3. Stream!upload_raw(t, b, v) <=> Stream!Enqueue(t, c)  BY SameCommands DEF Stream!upload_raw
<1> HIDE DEF c
<1>4. Appended(c)  BY <1>1, <1>2, StageAppends DEF Sound, Queued
<1> QED  BY <1>1, <1>2, <1>3, <1>4, EnqueueStep

LEMMA MetaStep ==
    ASSUME BatchInv, NEW t \in Threads, NEW n \in Nodes, NEW w \in Words, update_meta(t, n, w)
    PROVE  BatchInv' /\ Stream!update_meta(t, n, w)
<1> DEFINE c == meta(calls', n, w)
<1>0. n \in built /\ calls' \in Nat  BY CallsCount DEF update_meta
<1>1. Sound(c, built) /\ c.op = "meta"  BY <1>0, CommandTypes
<1>2. Call(t) /\ Stage(c) /\ UNCHANGED <<memory, submit_every, built, threadvars>>
  BY DEF update_meta
<1>3. W[n] # None  BY <1>0, NodeWordsType DEF BatchInv, TypeOK, W
<1>4. Stream!update_meta(t, n, w) <=> Stream!Enqueue(t, c)
  BY <1>3, SameCommands DEF Stream!update_meta, W
<1> HIDE DEF c
<1>5. Appended(c)  BY <1>1, <1>2, StageAppends DEF Sound, Queued
<1> QED  BY <1>1, <1>2, <1>4, <1>5, EnqueueStep

LEMMA CopyStep ==
    ASSUME BatchInv, NEW t \in Threads, NEW a \in Buffers, NEW b \in Buffers, copy_raw(t, a, b)
    PROVE  BatchInv' /\ Stream!copy_raw(t, a, b)
<1> DEFINE c == copy(calls', a, b)
<1>1. Sound(c, built) /\ c.op = "copy"  BY CallsCount, CommandTypes DEF copy_raw, Locations
<1>2. a # b /\ Call(t) /\ record(c) /\ UNCHANGED <<memory, submit_every, built, threadvars>>
  BY DEF copy_raw
<1>3. Stream!copy_raw(t, a, b) <=> Stream!Enqueue(t, c)
  BY <1>2, SameCommands DEF Stream!copy_raw
<1> HIDE DEF c
<1>4. Appended(c)  BY <1>1, <1>2, RecordAppends DEF Sound
<1> QED  BY <1>1, <1>2, <1>3, <1>4, EnqueueStep

LEMMA ClearStep ==
    ASSUME BatchInv, NEW t \in Threads, NEW b \in Buffers, clear_raw(t, b)
    PROVE  BatchInv' /\ Stream!clear_raw(t, b)
<1> DEFINE c == clear(calls', b)
<1>1. Sound(c, built) /\ c.op = "clear"  BY CallsCount, CommandTypes DEF clear_raw
<1>2. Call(t) /\ record(c) /\ UNCHANGED <<memory, submit_every, built, threadvars>>
  BY DEF clear_raw
<1>3. Stream!clear_raw(t, b) <=> Stream!Enqueue(t, c)  BY SameCommands DEF Stream!clear_raw
<1> HIDE DEF c
<1>4. Appended(c)  BY <1>1, <1>2, RecordAppends DEF Sound
<1> QED  BY <1>1, <1>2, <1>3, <1>4, EnqueueStep

LEMMA ExecuteStep ==
    ASSUME BatchInv, NEW t \in Threads, NEW n \in Nodes, NEW a \in Buffers, NEW b \in Buffers,
           execute_raw(t, n, a, b)
    PROVE  BatchInv' /\ Stream!execute_raw(t, n, a, b)
<1> DEFINE c == run(calls', n, a, b)
<1>0. n \in built /\ calls' \in Nat  BY CallsCount DEF execute_raw
<1>1. Sound(c, built) /\ c.op = "run"  BY <1>0, CommandTypes
<1>2. a # b /\ Call(t) /\ record(c) /\ UNCHANGED <<memory, submit_every, built, threadvars>>
  BY DEF execute_raw
<1>3. W[n] # None  BY <1>0, NodeWordsType DEF BatchInv, TypeOK, W
<1>4. Stream!execute_raw(t, n, a, b) <=> Stream!Enqueue(t, c)
  BY <1>2, <1>3, SameCommands DEF Stream!execute_raw, W
<1> HIDE DEF c
<1>5. Appended(c)  BY <1>1, <1>2, RecordAppends DEF Sound
<1> QED  BY <1>1, <1>2, <1>4, <1>5, EnqueueStep

\* A new node's words overtake what is recorded, which is about other nodes.
LEMMA BuildStep ==
    ASSUME BatchInv, NEW t \in Threads, NEW n \in Nodes, NEW w \in Words, build_node(t, n, w)
    PROVE  BatchInv' /\ Stream!build_node(t, n, w)
<1> DEFINE c == new(calls', n, w)
           p == submitted \o staged
<1>0. n \notin built /\ calls' \in 0..MaxCalls /\ calls' \in Nat
  BY CallsCount, CallsAssumption DEF build_node, Call, BatchInv, TypeOK
<1>1. c \in Command /\ WellFormed(c) /\ c.op = "new" /\ c.node = n /\ c.value = w
  BY <1>0, CommandTypes
<1>2. /\ Call(t) /\ built' = built \cup {n} /\ staged' = Append(staged, c)
      /\ submitted' = submitted /\ recorded' = recorded
      /\ UNCHANGED <<memory, submit_every, threadvars>>
  BY DEF build_node
<1>3. Batches(submitted, staged, recorded)  BY BatchTypes
<1> HIDE DEF c
<1>4. p \in Seq(Command) /\ submitted \o staged' = Append(p, c)
      /\ staged' \in Seq(Command) /\ Elements(staged') = Elements(staged) \cup {c}
  BY <1>1, <1>2, <1>3, ConcatProperties, ConcatAppend, AppendProperties, ElementsAppend DEF Batches
<1>5. InFlight = p \o recorded /\ InFlight' = Append(p, c) \o recorded  BY <1>2, <1>4 DEF InFlight
<1> HIDE DEF p
<1>6. Ordered(p \o recorded, built)  BY <1>5 DEF BatchInv
<1>7. Ordered(Append(p, c) \o recorded, built \cup {c.node})
  BY <1>0, <1>1, <1>3, <1>4, <1>6, OrderedInsert DEF Batches
<1>8. Ordered(InFlight', built')  BY <1>1, <1>2, <1>5, <1>7
<1>9. WithoutNew(InFlight') = WithoutNew(InFlight)
  <2>1. WithoutNew(Append(p, c)) = WithoutNew(p)  BY <1>1, <1>4, WithoutNewAppend
  <2>2. Append(p, c) \in Seq(Command) /\ recorded \in Seq(Command)
    BY <1>1, <1>3, <1>4, AppendProperties DEF Batches
  <2>3. WithoutNew(p \o recorded) = WithoutNew(p) \o WithoutNew(recorded)
    BY <1>4, <2>2, WithoutNewConcat
  <2> DEFINE r == Append(p, c)
  <2> HIDE DEF r
  <2>4. WithoutNew(r \o recorded) = WithoutNew(r) \o WithoutNew(recorded)
    BY <2>2, WithoutNewConcat DEF r
  <2> QED  BY <1>5, <2>1, <2>3, <2>4 DEF r
<1>10. NodeWords(InFlight', words, built') = [W EXCEPT ![n] = w]
  <2> DEFINE q == InFlight
             insert == InFlight'
             more == built'
             after == NodeWords(insert, words, more)
  <2>1. words \in [Nodes -> Words]  BY DEF BatchInv, TypeOK
  <2>2. Elements(insert) = Elements(q) \cup {c}
    <3> DEFINE r == Append(p, c)
    <3>1. r \in Seq(Command) /\ Elements(r) = Elements(p) \cup {c} /\ recorded \in Seq(Command)
      BY <1>1, <1>3, <1>4, AppendProperties, ElementsAppend DEF Batches
    <3>2. q = p \o recorded /\ insert = r \o recorded  BY <1>5
    <3> HIDE DEF r, q, insert
    <3>3. Elements(p \o recorded) = Elements(p) \cup Elements(recorded)  BY <1>4, <3>1, ElementsConcat
    <3>4. Elements(r \o recorded) = Elements(r) \cup Elements(recorded)  BY <3>1, ElementsConcat
    <3> QED  BY <3>1, <3>2, <3>3, <3>4
  <2>3. Ordered(q, built) /\ Ordered(insert, more)  BY <1>8 DEF BatchInv
  <2>4. c.op = "new" /\ c.node = n /\ n \notin built /\ more = built \cup {n}  BY <1>0, <1>1, <1>2
  <2>5. W = NodeWords(q, words, built)  BY DEF W
  <2>6. after = NodeWords(InFlight', words, built')  OBVIOUS
  <2> HIDE DEF q, insert, more
  <2>7. after[n] = c.value /\ \A m \in Nodes : m # n => after[m] = NodeWords(q, words, built)[m]
    BY <2>1, <2>2, <2>3, <2>4, NodeWordsInsert
  <2>8. after \in [Nodes -> Words \cup {None}]  BY <2>1, <2>3, NodeWordsType
  <2>9. W \in [Nodes -> Words \cup {None}]  BY <2>1, <2>3, <2>5, NodeWordsType
  <2> HIDE DEF after
  <2>10. after = [W EXCEPT ![n] = w]  BY <1>1, <2>5, <2>7, <2>8, <2>9
  <2> QED  BY <2>6, <2>10
<1>11. W[n] = None  BY <1>0 DEF W, NodeWords
<1>12. QueuedOnly(waits)' = QueuedOnly(waits)  BY <1>2 DEF threadvars, QueuedOnly
<1>13. Stream!build_node(t, n, w)
  BY <1>2, <1>9, <1>10, <1>11, <1>12 DEF Stream!build_node, Stream!Call, Call, W, memory, threadvars
<1>14. TypeOK'
  <2>1. built' \in SUBSET Nodes  BY <1>2 DEF BatchInv, TypeOK
  <2> QED  BY <1>0, <1>2, <1>3, <1>4, <2>1 DEF BatchInv, TypeOK, Batches, memory, threadvars
<1>15. \A d \in Elements(staged') : ~Queued(d)  BY <1>1, <1>4 DEF BatchInv, Queued
<1> QED  BY <1>2, <1>8, <1>13, <1>14, <1>15 DEF BatchInv, threadvars

LEMMA BlockStep ==
    ASSUME BatchInv, NEW t \in Threads, NEW what \in {"download", "synchronize"}, Block(t, what),
           Q' = WithoutNew(InFlight'), InFlight' \in Seq(Command), submitted' \in Seq(Command),
           \A c \in Elements(InFlight') : Queued(c) => c \in Elements(submitted'),
           Elements(submitted') \subseteq Elements(InFlight'),
           Elements(submitted) \subseteq Elements(submitted')
    PROVE  /\ doing' \in [Threads -> {"idle", "download", "synchronize"}]
           /\ waits' \in [Threads -> SUBSET Command]
           /\ \A u \in Threads : waits'[u] \subseteq Elements(submitted')
           /\ \A u \in Threads : doing'[u] = "idle" => waits'[u] = {}
           /\ polling \subseteq {u \in Threads : doing'[u] # "idle"}
           /\ QueuedOnly(waits)' = [QueuedOnly(waits) EXCEPT ![t] =
                  {Q'[k] : k \in {j \in DOMAIN Q' : Queued(Q'[j])}}]
<1> DEFINE given == Elements(submitted')
<1>1. waits' = [waits EXCEPT ![t] = given] /\ doing' = [doing EXCEPT ![t] = what]
  BY DEF Block, Elements
<1>2. given \subseteq Command  BY ElementsType
<1>3. {Q'[k] : k \in {j \in DOMAIN Q' : Queued(Q'[j])}} = {c \in Elements(InFlight') : Queued(c)}
  BY WaitsForQueued
<1>4. {c \in Elements(InFlight') : Queued(c)} = {c \in given : Queued(c)}  OBVIOUS
<1> HIDE DEF given
<1>5. waits \in [Threads -> SUBSET Command] /\ \A u \in Threads : waits[u] \subseteq Elements(submitted)
  BY DEF BatchInv, TypeOK
<1>6. \A u \in Threads : waits'[u] = IF u = t THEN given ELSE waits[u]  BY <1>1, <1>5
<1>7. QueuedOnly(waits)' = [QueuedOnly(waits) EXCEPT ![t] = {c \in given : Queued(c)}]
  <2>1. QueuedOnly(waits)' = [u \in Threads |-> {c \in waits'[u] : Queued(c)}]  BY DEF QueuedOnly
  <2>2. [QueuedOnly(waits) EXCEPT ![t] = {c \in given : Queued(c)}]
            = [u \in Threads |-> IF u = t THEN {c \in given : Queued(c)}
                                 ELSE {c \in waits[u] : Queued(c)}]
    BY DEF QueuedOnly
  <2> QED  BY <1>6, <2>1, <2>2
<1> QED  BY <1>1, <1>2, <1>3, <1>4, <1>5, <1>6, <1>7 DEF given, BatchInv, TypeOK

LEMMA DownloadStep ==
    ASSUME BatchInv, NEW t \in Threads, NEW b \in Buffers, download_raw(t, b)
    PROVE  BatchInv' /\ Stream!download_raw(t, b)
<1> DEFINE c == copy(calls', b, t)
<1>0. calls' \in 0..MaxCalls /\ calls' \in Nat
  BY CallsCount, CallsAssumption DEF download_raw, Call, BatchInv, TypeOK
<1>1. Sound(c, built) /\ c.op = "copy"  BY <1>0, CommandTypes DEF Locations
<1>2. /\ Call(t) /\ submitted' = Submitted(Append(recorded, c)) /\ staged' = <<>> /\ recorded' = <<>>
      /\ Block(t, "download") /\ UNCHANGED <<memory, submit_every, built, result, polling>>
  BY DEF download_raw
<1>3. Stream!download_raw(t, b) <=>
          /\ Stream!Call(t) /\ Q' = Append(Q, c) /\ Stream!Block(t, "download")
          /\ UNCHANGED <<contents, W, result>>
  BY SameCommands DEF Stream!download_raw, Q, W
<1> HIDE DEF c
<1>4. Appended(c) /\ submitted' = InFlight'  BY <1>1, <1>2, SubmitAppends DEF Sound
<1>5. Ordered(InFlight, built)' /\ Q' = Append(Q, c) /\ W' = W
  BY <1>1, <1>2, <1>4, AppendedStream DEF memory
<1>6. /\ doing' \in [Threads -> {"idle", "download", "synchronize"}]
      /\ waits' \in [Threads -> SUBSET Command]
      /\ \A u \in Threads : waits'[u] \subseteq Elements(submitted')
      /\ \A u \in Threads : doing'[u] = "idle" => waits'[u] = {}
      /\ polling \subseteq {u \in Threads : doing'[u] # "idle"}
      /\ QueuedOnly(waits)' = [QueuedOnly(waits) EXCEPT ![t] =
             {Q'[k] : k \in {j \in DOMAIN Q' : Queued(Q'[j])}}]
  <2>1. Q' = WithoutNew(InFlight')  BY DEF Q
  <2>2. submitted' \in Seq(Command) /\ Elements(submitted) \subseteq Elements(submitted')
    BY <1>4 DEF Appended, Batches
  <2> QED  BY <1>2, <1>4, <2>1, <2>2, BlockStep
<1>7. Stream!download_raw(t, b)
  BY <1>2, <1>3, <1>5, <1>6, SameCommands DEF Stream!Call, Stream!Block, Call, Block, Q, memory
<1>8. TypeOK'  BY <1>0, <1>2, <1>4, <1>6 DEF BatchInv, TypeOK, Appended, Batches, memory
<1> QED  BY <1>4, <1>5, <1>6, <1>7, <1>8 DEF BatchInv, Appended

\* Without an encoder the staged writes stay, which no one waits for.
LEMMA SynchronizeStep ==
    ASSUME BatchInv, NEW t \in Threads, synchronize(t)
    PROVE  BatchInv' /\ Stream!synchronize(t)
<1>0. calls' \in 0..MaxCalls
  BY CallsCount, CallsAssumption DEF synchronize, Call, BatchInv, TypeOK
<1>1. /\ Call(t) /\ submitted' = Submitted(recorded) /\ staged' = StillStaged(recorded)
      /\ recorded' = <<>> /\ Block(t, "synchronize")
      /\ UNCHANGED <<memory, submit_every, built, result, polling>>
  BY DEF synchronize
<1>2. Batches(submitted, staged, recorded)  BY BatchTypes
<1>3. InFlight \in Seq(Command) /\ submitted \o staged \in Seq(Command)
  BY <1>2, ConcatProperties DEF InFlight, Batches
<1>4. /\ InFlight' = InFlight /\ Batches(submitted', staged', recorded')
      /\ Elements(submitted) \subseteq Elements(submitted')
      /\ Elements(staged') \subseteq Elements(staged)
      /\ Elements(InFlight') = Elements(submitted') \cup Elements(staged')
  <2>1. CASE recorded = <<>>
    <3>1. submitted' = submitted /\ staged' = staged  BY <1>1, <2>1 DEF Submitted, StillStaged
    <3>2. InFlight' = InFlight /\ InFlight' = submitted \o staged
      BY <1>1, <1>3, <2>1, <3>1, ConcatEmptySeq DEF InFlight
    <3>3. Elements(submitted \o staged) = Elements(submitted) \cup Elements(staged)
      BY <1>2, ElementsConcat DEF Batches
    <3> QED  BY <1>1, <1>2, <3>1, <3>2, <3>3, NothingStaged DEF Batches
  <2>2. CASE recorded # <<>>
    <3>1. /\ submitted' = (submitted \o staged) \o recorded /\ submitted' \in Seq(Command)
          /\ Elements(submitted) \subseteq Elements(submitted') /\ staged' = <<>>
      BY <1>1, <1>2, <2>2, SubmittedGrows DEF Batches, StillStaged
    <3>2. InFlight' = (submitted' \o <<>>) \o <<>>  BY <1>1, <3>1 DEF InFlight
    <3>3. InFlight' = submitted'  BY <3>1, <3>2, ConcatEmptySeq
    <3> QED  BY <1>1, <3>1, <3>3, NothingStaged DEF Batches, InFlight
  <2> QED  BY <2>1, <2>2
<1>5. Ordered(InFlight, built)' /\ Q' = Q /\ W' = W
  BY <1>1, <1>4 DEF BatchInv, Q, W, memory
<1>6. \A c \in Elements(staged') : ~Queued(c)  BY <1>4 DEF BatchInv
<1>7. /\ doing' \in [Threads -> {"idle", "download", "synchronize"}]
      /\ waits' \in [Threads -> SUBSET Command]
      /\ \A u \in Threads : waits'[u] \subseteq Elements(submitted')
      /\ \A u \in Threads : doing'[u] = "idle" => waits'[u] = {}
      /\ polling \subseteq {u \in Threads : doing'[u] # "idle"}
      /\ QueuedOnly(waits)' = [QueuedOnly(waits) EXCEPT ![t] =
             {Q'[k] : k \in {j \in DOMAIN Q' : Queued(Q'[j])}}]
  <2>1. Q' = WithoutNew(InFlight')  BY DEF Q
  <2>2. \A c \in Elements(InFlight') : Queued(c) => c \in Elements(submitted')  BY <1>4, <1>6
  <2> QED  BY <1>1, <1>3, <1>4, <2>1, <2>2, BlockStep DEF Batches
<1>8. Stream!synchronize(t)
  BY <1>1, <1>5, <1>7, SameCommands
     DEF Stream!synchronize, Stream!Call, Stream!Block, Call, Block, Q, W, memory
<1>9. TypeOK'  BY <1>0, <1>1, <1>4, <1>7 DEF BatchInv, TypeOK, Batches, memory
<1> QED  BY <1>5, <1>6, <1>7, <1>8, <1>9 DEF BatchInv

-----------------------------------------------------------------------------
(* Waiting, and the GPU.                                                   *)

\* A thread that polls waits for what others submitted since, too.
LEMMA PollStep ==
    ASSUME BatchInv, NEW t \in Threads, Poll(t)
    PROVE  BatchInv' /\ Stream!WaitLonger(t)
<1> DEFINE given == Elements(submitted)
           more == {c \in given : Queued(c)}
<1>1. /\ doing[t] # "idle" /\ polling' = polling \cup {t} /\ waits' = [waits EXCEPT ![t] = given]
      /\ UNCHANGED <<memory, batches, submit_every, built, doing, result, calls>>
  BY DEF Poll, Elements
<1>2. given \subseteq Command  BY BatchTypes, ElementsType DEF Batches
<1>3. given \subseteq Elements(InFlight)
  <2>1. submitted \in Seq(Command) /\ staged \in Seq(Command) /\ recorded \in Seq(Command)
    BY BatchTypes DEF Batches
  <2> DEFINE p == submitted \o staged
  <2>2. p \in Seq(Command) /\ Elements(p) = Elements(submitted) \cup Elements(staged)
    BY <2>1, ConcatProperties, ElementsConcat
  <2> HIDE DEF p
  <2>3. Elements(p \o recorded) = Elements(p) \cup Elements(recorded)  BY <2>1, <2>2, ElementsConcat
  <2> QED  BY <2>2, <2>3 DEF InFlight, p
<1>4. InFlight \in Seq(Command)  BY DEF BatchInv, Ordered
<1>5. Elements(Q) = {c \in Elements(InFlight) : c.op # "new"}
  BY <1>4, WithoutNewElements DEF Q
<1>6. more \in SUBSET {Q[k] : k \in DOMAIN Q}  BY <1>3, <1>5 DEF Elements, Queued
<1>7. waits \in [Threads -> SUBSET Command] /\ \A u \in Threads : waits[u] \subseteq given
  BY DEF BatchInv, TypeOK
<1> HIDE DEF given
<1>8. \A u \in Threads : waits'[u] = IF u = t THEN given ELSE waits[u]  BY <1>1, <1>7
<1>9. QueuedOnly(waits)' = [QueuedOnly(waits) EXCEPT ![t] = @ \cup {c \in more : Queued(c)}]
  <2>1. QueuedOnly(waits)' = [u \in Threads |-> {c \in waits'[u] : Queued(c)}]  BY DEF QueuedOnly
  <2>2. [QueuedOnly(waits) EXCEPT ![t] = @ \cup {c \in more : Queued(c)}]
            = [u \in Threads |-> IF u = t THEN {c \in waits[t] : Queued(c)} \cup more
                                 ELSE {c \in waits[u] : Queued(c)}]
    BY DEF QueuedOnly
  <2>3. {c \in waits[t] : Queued(c)} \cup more = more  BY <1>7
  <2> HIDE DEF more
  <2>4. \A u \in Threads : {c \in waits'[u] : Queued(c)}
            = IF u = t THEN {c \in waits[t] : Queued(c)} \cup more ELSE {c \in waits[u] : Queued(c)}
    BY <1>8, <2>3 DEF more
  <2> QED  BY <2>1, <2>2, <2>4
<1>10. Q' = Q /\ W' = W /\ InFlight' = InFlight /\ Elements(submitted') = given
  BY <1>1 DEF Q, W, InFlight, memory, batches, given
<1> HIDE DEF more
<1>11. Stream!WaitLonger(t)
  BY <1>1, <1>6, <1>9, <1>10, SameCommands DEF Stream!WaitLonger, Q, W, memory
<1>12. waits' \in [Threads -> SUBSET Command]  BY <1>1, <1>2, <1>7
<1>13. TypeOK'
  BY <1>1, <1>8, <1>12 DEF BatchInv, TypeOK, memory, batches
<1>14. \A u \in Threads : waits'[u] \subseteq given  BY <1>7, <1>8
<1> QED  BY <1>1, <1>10, <1>11, <1>13, <1>14 DEF BatchInv, memory, batches

LEMMA ReturnStep ==
    ASSUME BatchInv, NEW t \in Threads, Return(t)
    PROVE  BatchInv' /\ Stream!Return(t)
<1>1. /\ doing[t] # "idle" /\ waits[t] = {} /\ doing' = [doing EXCEPT ![t] = "idle"]
      /\ result' = IF doing[t] = "download" THEN contents[t] ELSE result
      /\ polling' = polling \ {t}
      /\ UNCHANGED <<memory, batches, submit_every, built, waits, calls>>
  BY DEF Return
<1>2. QueuedOnly(waits)[t] = {}  BY <1>1 DEF QueuedOnly
<1>3. Q' = Q /\ W' = W /\ InFlight' = InFlight /\ QueuedOnly(waits)' = QueuedOnly(waits)
  BY <1>1 DEF Q, W, InFlight, memory, batches, QueuedOnly
<1>4. Stream!Return(t)  BY <1>1, <1>2, <1>3 DEF Stream!Return, Q, W, memory
<1>5. result' \in Values \cup {None}
  BY <1>1 DEF BatchInv, TypeOK, Locations
<1>6. TypeOK'  BY <1>1, <1>5 DEF BatchInv, TypeOK, memory, batches
<1> QED  BY <1>1, <1>3, <1>4, <1>6 DEF BatchInv, memory, batches

LEMMA SubmitEveryStep ==
    ASSUME BatchInv, NEW k \in SubmitEvery, SetSubmitEvery(k)
    PROVE  BatchInv' /\ UNCHANGED Stream!vars
<1>1. submit_every' = k /\ UNCHANGED <<memory, batches, built, threadvars, calls>>
  BY DEF SetSubmitEvery
<1>2. TypeOK'  BY <1>1 DEF BatchInv, TypeOK, memory, batches, threadvars
<1>3. InFlight' = InFlight /\ QueuedOnly(waits)' = QueuedOnly(waits)
  BY <1>1 DEF InFlight, batches, threadvars, QueuedOnly
<1> QED  BY <1>1, <1>2, <1>3 DEF BatchInv, Stream!vars, memory, batches, threadvars

\* The oldest submitted command is the oldest of the stream, or a new node's words.
LEMMA RunStep ==
    ASSUME BatchInv, RunCommand
    PROVE  BatchInv' /\ (Stream!RunCommand \/ UNCHANGED Stream!vars)
<1> DEFINE c == Head(submitted)
<1>1. Batches(submitted, staged, recorded)  BY BatchTypes
<1>2. /\ submitted # <<>> /\ contents' = Contents(contents, words, c) /\ words' = MetaWords(words, c)
      /\ submitted' = Tail(submitted) /\ waits' = [t \in Threads |-> waits[t] \ {c}]
      /\ UNCHANGED <<staged, recorded, submit_every, built, doing, result, polling, calls>>
  BY DEF RunCommand
<1>3. Tail(submitted) \in Seq(Command) /\ Elements(submitted) = {c} \cup Elements(Tail(submitted))
  BY <1>1, <1>2, HeadTailProperties, ElementsTail DEF Batches
<1> DEFINE q == InFlight
<1>4. q # <<>> /\ Head(q) = c /\ InFlight' = Tail(q)
  <2> DEFINE rest == staged \o recorded
  <2>1. rest \in Seq(Command) /\ q = submitted \o rest
    BY <1>1, ConcatProperties, ConcatAssociative DEF InFlight, Batches
  <2>2. InFlight' = Tail(submitted) \o rest
    BY <1>1, <1>2, <1>3, ConcatAssociative DEF InFlight, Batches
  <2> HIDE DEF rest, q
  <2>3. submitted \in Seq(Command) /\ submitted # <<>>  BY <1>1, <1>2 DEF Batches
  <2>4. submitted \o rest # <<>> /\ Head(submitted \o rest) = Head(submitted)
        /\ Tail(submitted \o rest) = Tail(submitted) \o rest
    BY <2>1, <2>3, TailOfConcat
  <2> QED  BY <2>1, <2>2, <2>4
<1>5. Ordered(q, built) /\ words \in [Nodes -> Words] /\ contents \in [Locations -> Values]
  BY DEF BatchInv, TypeOK
<1>6. q \in Seq(Command)  BY <1>5 DEF Ordered
<1> HIDE DEF q, c
<1>7. Ordered(Tail(q), built)  BY <1>4, <1>5, OrderedTail
<1>8. Sound(c, built)
  BY <1>4, <1>5, <1>6, LenProperties, EmptySeq DEF Ordered
<1>9. contents' \in [Locations -> Values] /\ words' \in [Nodes -> Words]
  BY <1>2, <1>5, <1>8, MemoryTypes
<1>10. /\ waits' \in [Threads -> SUBSET Command]
       /\ \A t \in Threads : waits'[t] \subseteq Elements(submitted')
       /\ \A t \in Threads : doing'[t] = "idle" => waits'[t] = {}
  BY <1>2, <1>3 DEF BatchInv, TypeOK
<1>11. TypeOK'  BY <1>1, <1>2, <1>3, <1>9, <1>10 DEF BatchInv, TypeOK, Batches
<1>12. BatchInv'  BY <1>2, <1>4, <1>7, <1>10, <1>11 DEF BatchInv
<1>13. CASE c.op = "new"
  <2>1. NodeWords(Tail(q), MetaWords(words, c), built) = NodeWords(q, words, built)
        /\ Contents(contents, words, c) = contents
    BY <1>4, <1>5, <1>13, NewRuns
  <2>2. WithoutNew(Tail(q)) = WithoutNew(q)  BY <1>4, <1>6, <1>13, WithoutNewTail
  <2>3. Q' = Q /\ W' = W /\ contents' = contents
    BY <1>2, <1>4, <2>1, <2>2 DEF Q, W, q
  <2>4. QueuedOnly(waits)' = QueuedOnly(waits)  BY <1>2, <1>13 DEF QueuedOnly, Queued
  <2> QED  BY <1>2, <1>12, <2>3, <2>4 DEF Stream!vars, Q, W
<1>14. CASE c.op # "new"
  <2>1. /\ NodeWords(Tail(q), MetaWords(words, c), built) = MetaWords(NodeWords(q, words, built), c)
        /\ Contents(contents, words, c) = Contents(contents, NodeWords(q, words, built), c)
    <3>1. Ordered(q, built) /\ q # <<>> /\ c = Head(q) /\ words \in [Nodes -> Words]  BY <1>4, <1>5
    <3>2. NodeWords(Tail(q), MetaWords(words, c), built) = MetaWords(NodeWords(q, words, built), c)
      BY <1>14, <3>1, OldestRuns
    <3>3. Contents(contents, words, c) = Contents(contents, NodeWords(q, words, built), c)
      BY <1>14, <3>1, OldestRuns
    <3> QED  BY <3>2, <3>3
  <2>2. /\ WithoutNew(q) # <<>> /\ Head(WithoutNew(q)) = c
        /\ Tail(WithoutNew(q)) = WithoutNew(Tail(q))
    BY <1>4, <1>6, <1>14, WithoutNewTail
  <2>3. Q # <<>> /\ Head(Q) = c /\ Q' = Tail(Q)  BY <1>4, <2>2 DEF Q, q
  <2>4. W' = MetaWords(W, c) /\ contents' = Contents(contents, W, c)
    BY <1>2, <1>4, <2>1 DEF W, q
  <2>5. QueuedOnly(waits)' = [t \in Threads |-> QueuedOnly(waits)[t] \ {c}]
    BY <1>2 DEF QueuedOnly
  <2>6. Stream!RunCommand
    BY <1>2, <2>3, <2>4, <2>5, SameMemory DEF Stream!RunCommand, Q, W
  <2> QED  BY <1>12, <2>6
<1> QED  BY <1>13, <1>14

-----------------------------------------------------------------------------

LEMMA BatchInit == Init => BatchInv /\ Stream!Init
<1> SUFFICES ASSUME Init PROVE BatchInv /\ Stream!Init  OBVIOUS
<1>1. InFlight = <<>> /\ InFlight \in Seq(Command)  BY EmptySeq, ConcatEmptySeq DEF Init, InFlight
<1>2. Ordered(InFlight, built)  BY <1>1 DEF Ordered
<1>3. Q = <<>>  BY <1>1, WithoutNewEmpty DEF Q
<1>4. W = [n \in Nodes |-> None]  BY DEF W, NodeWords, Init
<1>5. QueuedOnly(waits) = [t \in Threads |-> {}]  BY DEF QueuedOnly, Init
<1>6. Stream!Init  BY <1>3, <1>4, <1>5 DEF Stream!Init, Stream!Locations, Locations, Init, Q, W
<1>7. TypeOK  BY NothingStaged, ZeroAssumption, CallsAssumption, SubmitEveryAssumption DEF TypeOK, Init
<1> QED  BY <1>2, <1>6, <1>7, NothingStaged DEF BatchInv, Init

LEMMA BatchNext == BatchInv /\ [Next]_vars => BatchInv' /\ [Stream!Next]_(Stream!vars)
<1> SUFFICES ASSUME BatchInv, [Next]_vars PROVE BatchInv' /\ [Stream!Next]_(Stream!vars)  OBVIOUS
<1>1. ASSUME NEW t \in Threads, NEW b \in Buffers, NEW v \in Values, upload_raw(t, b, v)
      PROVE  BatchInv' /\ Stream!Next
  BY <1>1, UploadStep DEF Stream!Next, Stream!Other
<1>2. ASSUME NEW t \in Threads, NEW a \in Buffers, NEW b \in Buffers, copy_raw(t, a, b)
      PROVE  BatchInv' /\ Stream!Next
  BY <1>2, CopyStep DEF Stream!Next, Stream!Other
<1>3. ASSUME NEW t \in Threads, NEW b \in Buffers, clear_raw(t, b)
      PROVE  BatchInv' /\ Stream!Next
  BY <1>3, ClearStep DEF Stream!Next, Stream!Other
<1>4. ASSUME NEW t \in Threads, NEW n \in Nodes, NEW w \in Words, build_node(t, n, w)
      PROVE  BatchInv' /\ Stream!Next
  BY <1>4, BuildStep DEF Stream!Next, Stream!Other
<1>5. ASSUME NEW t \in Threads, NEW n \in Nodes, NEW w \in Words, update_meta(t, n, w)
      PROVE  BatchInv' /\ Stream!Next
  BY <1>5, MetaStep DEF Stream!Next, Stream!Other
<1>6. ASSUME NEW t \in Threads, NEW n \in Nodes, NEW a \in Buffers, NEW b \in Buffers,
             execute_raw(t, n, a, b)
      PROVE  BatchInv' /\ Stream!Next
  BY <1>6, ExecuteStep DEF Stream!Next
<1>7. ASSUME NEW t \in Threads, NEW b \in Buffers, download_raw(t, b)
      PROVE  BatchInv' /\ Stream!Next
  BY <1>7, DownloadStep DEF Stream!Next, Stream!Other
<1>8. ASSUME NEW t \in Threads, synchronize(t) PROVE BatchInv' /\ Stream!Next
  BY <1>8, SynchronizeStep DEF Stream!Next, Stream!Other
<1>9. ASSUME NEW t \in Threads, Poll(t) PROVE BatchInv' /\ Stream!Next
  BY <1>9, PollStep DEF Stream!Next, Stream!Other
<1>10. ASSUME NEW t \in Threads, Return(t) PROVE BatchInv' /\ Stream!Next
  BY <1>10, ReturnStep DEF Stream!Next, Stream!Other
<1>11. ASSUME NEW k \in SubmitEvery, SetSubmitEvery(k) PROVE BatchInv' /\ UNCHANGED Stream!vars
  BY <1>11, SubmitEveryStep
<1>12. ASSUME RunCommand PROVE BatchInv' /\ [Stream!Next]_(Stream!vars)
  BY <1>12, RunStep DEF Stream!Next
<1>13. ASSUME UNCHANGED vars PROVE BatchInv' /\ UNCHANGED Stream!vars
  <2>1. UNCHANGED <<memory, batches, submit_every, built, threadvars, calls>>  BY <1>13 DEF vars
  <2>2. TypeOK'  BY <2>1 DEF BatchInv, TypeOK, memory, batches, threadvars
  <2>3. InFlight' = InFlight /\ QueuedOnly(waits)' = QueuedOnly(waits)
    BY <2>1 DEF InFlight, batches, threadvars, QueuedOnly
  <2> QED  BY <2>1, <2>2, <2>3 DEF BatchInv, Stream!vars, memory, batches, threadvars
<1> QED
  BY <1>1, <1>2, <1>3, <1>4, <1>5, <1>6, <1>7, <1>8, <1>9, <1>10, <1>11, <1>12, <1>13 DEF Next

\* The types, and that a thread which waits for something is blocked.
THEOREM BatchesTyped == Spec => []TypeOK
<1>1. Init => BatchInv  BY BatchInit
<1>2. BatchInv /\ [Next]_vars => BatchInv'  BY BatchNext
<1>3. BatchInv => TypeOK  BY DEF BatchInv
<1> QED  BY <1>1, <1>2, <1>3, PTL DEF Spec

\* The batches and staged writes of wgpu.rs are one stream in the order of the
\* calls, as Storage's contract has it (src/backend/mod.rs).
THEOREM BatchesKeepTheContract == Spec => KeepsTheContract
<1>1. Init => BatchInv /\ Stream!Init  BY BatchInit
<1>2. BatchInv /\ [Next]_vars => BatchInv' /\ [Stream!Next]_(Stream!vars)  BY BatchNext
<1> QED  BY <1>1, <1>2, PTL DEF Spec, KeepsTheContract, Stream!Spec

=============================================================================
