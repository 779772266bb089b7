---------------------------- MODULE DeviceProofs ----------------------------
(***************************************************************************)
(* Theorems about the devices of MCDevices, for every value of the         *)
(* constants: the types, and that both devices implement Capturing.        *)
(*                                                                         *)
(* The CPU's work is the contract's queue as it is.  On CUDA a call that   *)
(* changes the flag or reads it takes two steps; while no other such call  *)
(* is made meanwhile, the flag tells at the second step what it told at    *)
(* the first, nothing is ever launched on the capture stream outside of a  *)
(* capture, and the main stream alone is the contract's queue.             *)
(***************************************************************************)
EXTENDS MCDevices, CommandProofs

-----------------------------------------------------------------------------
(* The operators of Commands are the same in all the modules.              *)

LEMMA SameForCuda ==
    /\ Cuda!Command = Command /\ Cuda!Locations = Locations
    /\ \A id, b, v : Cuda!write(id, b, v) = write(id, b, v)
    /\ \A id, a, b : Cuda!copy(id, a, b) = copy(id, a, b)
    /\ \A id, b : Cuda!clear(id, b) = clear(id, b)
    /\ \A id, n, a, b : Cuda!run(id, n, a, b) = run(id, n, a, b)
    /\ \A id, n, w : Cuda!meta(id, n, w) = meta(id, n, w)
    /\ \A id, n, w : Cuda!new(id, n, w) = new(id, n, w)
    /\ \A q, call : Cuda!Again(q, call) = Again(q, call)
    /\ \A c : Cuda!Number(c) = Number(c)
    /\ \A held, w, c : Cuda!Contents(held, w, c) = Contents(held, w, c)
    /\ \A w, c : Cuda!MetaWords(w, c) = MetaWords(w, c)
BY DEF Cuda!Command, Cuda!Locations, Cuda!write, Cuda!copy, Cuda!clear, Cuda!run, Cuda!meta,
       Cuda!new, Cuda!Again, Cuda!Number, Cuda!Contents, Cuda!MetaWords, Command, Locations,
       write, copy, clear, run, meta, new, Again, Number, Contents, MetaWords

LEMMA SameForCpu ==
    /\ Cpu!Command = Command /\ Cpu!Locations = Locations
    /\ \A id, b, v : Cpu!write(id, b, v) = write(id, b, v)
    /\ \A id, a, b : Cpu!copy(id, a, b) = copy(id, a, b)
    /\ \A id, b : Cpu!clear(id, b) = clear(id, b)
    /\ \A id, n, a, b : Cpu!run(id, n, a, b) = run(id, n, a, b)
    /\ \A id, n, w : Cpu!meta(id, n, w) = meta(id, n, w)
    /\ \A q, call : Cpu!Again(q, call) = Again(q, call)
    /\ \A held, w, c : Cpu!Contents(held, w, c) = Contents(held, w, c)
    /\ \A w, c : Cpu!MetaWords(w, c) = MetaWords(w, c)
BY DEF Cpu!Command, Cpu!Locations, Cpu!write, Cpu!copy, Cpu!clear, Cpu!run, Cpu!meta,
       Cpu!Again, Cpu!Contents, Cpu!MetaWords, Command, Locations,
       write, copy, clear, run, meta, Again, Contents, MetaWords

LEMMA SameForContract ==
    /\ Contract!Stream!Locations = Locations
    /\ \A id, b, v : Contract!Stream!write(id, b, v) = write(id, b, v)
    /\ \A id, a, b : Contract!Stream!copy(id, a, b) = copy(id, a, b)
    /\ \A id, b : Contract!Stream!clear(id, b) = clear(id, b)
    /\ \A id, n, a, b : Contract!Stream!run(id, n, a, b) = run(id, n, a, b)
    /\ \A id, n, a, b : Contract!run(id, n, a, b) = run(id, n, a, b)
    /\ \A id, n, w : Contract!Stream!meta(id, n, w) = meta(id, n, w)
    /\ \A q, call : Contract!Again(q, call) = Again(q, call)
    /\ \A c : Contract!Stream!Queued(c) <=> Queued(c)
    /\ \A held, w, c : Contract!Stream!Contents(held, w, c) = Contents(held, w, c)
    /\ \A w, c : Contract!Stream!MetaWords(w, c) = MetaWords(w, c)
BY DEF Contract!Stream!Locations, Contract!Stream!write, Contract!Stream!copy,
       Contract!Stream!clear, Contract!Stream!run, Contract!run, Contract!Stream!meta,
       Contract!Again, Contract!Stream!Queued, Contract!Stream!Contents,
       Contract!Stream!MetaWords, Locations, write, copy, clear, run, meta, Again, Queued,
       Contents, MetaWords

-----------------------------------------------------------------------------
(* CUDA: what is true of the device when no execute_raw overlaps the       *)
(* begin or the end of a capture.                                          *)

Main == streams["main"]
Q == WithoutNew(Main)
W == NodeWords(Main, words, built)

MemoryInv ==
    /\ contents \in [Locations -> Values] /\ words \in [Nodes -> Words]
    /\ calls \in 0..MaxCalls

\* The main stream is in the order of the calls; nothing is on the other one.
StreamInv ==
    /\ streams \in [{"main", "capture"} -> Seq(Command)] /\ built \subseteq Nodes
    /\ Ordered(Main, built) /\ Counted(Main, calls)
    /\ streams["capture"] = <<>>

\* What a blocked thread waits for is what is left of the calls before its own.
ThreadInv ==
    /\ doing \in [Threads -> {"idle", "download", "synchronize"}]
    /\ waits \in [Threads -> SUBSET Command]
    /\ \A t \in Threads : waits[t] \subseteq Elements(Main)
    /\ \A t \in Threads : doing[t] # "idle" =>
           at[t].asked \in 0..calls /\ Awaits(Main, waits[t], at[t].asked)

Launches == [step : {"launch"}, stream : {"main", "capture"}, node : Nodes,
             from : Buffers, to : Buffers]
Begins == [step : {"begin"}]
Ends == [step : {"end"}, into : Captures]
Asks == [step : {"wait"}, asked : Nat]
Ready == [step |-> "ready"]

\* Where the threads are in their calls, one in those of captures at most.
StepInv ==
    /\ at \in [Threads -> {Ready} \cup Launches \cup Begins \cup Ends \cup Asks]
    /\ \A t \in Threads : doing[t] # "idle" <=> at[t].step = "wait"
    /\ \A t, u \in Threads : at[t].step \notin {"ready", "wait"} /\ at[u].step \notin {"ready", "wait"}
           => t = u

Between(t) == at[t].step \in {"begin", "end"}

\* The flag says what the capture stream does, but between two steps.
CaptureInv ==
    /\ capture_works \in BOOLEAN /\ capturing \in BOOLEAN
    /\ graph = None \/ Runs(graph, built)
    /\ kept \in [Captures -> Seq(Command) \cup {None}]
    /\ \A r \in Captures : kept[r] = None \/ Runs(kept[r], built)
    /\ ~capture_works => graph = None
    /\ capture_works /\ (\A t \in Threads : ~Between(t)) => (capturing <=> graph # None)
    /\ \A t \in Threads :
          /\ at[t].step = "launch" =>
                /\ at[t].node \in built /\ at[t].from # at[t].to
                /\ at[t].stream = IF capturing THEN "capture" ELSE "main"
                /\ capturing => capture_works
          /\ at[t].step = "begin" => capturing /\ graph = None /\ capture_works
          /\ at[t].step = "end" =>
                ~capturing /\ graph # None /\ capture_works /\ kept[at[t].into] = None

CudaInv == MemoryInv /\ StreamInv /\ ThreadInv /\ StepInv /\ CaptureInv

LEMMA CudaTypes == CudaInv => Cuda!TypeOK
<1> SUFFICES ASSUME CudaInv PROVE Cuda!TypeOK  OBVIOUS
<1>1. graph \in Seq(Command) \cup {None}  BY DEF CudaInv, CaptureInv, Runs
<1>2. ~capture_works => graph = None /\ streams["capture"] = <<>>
  BY DEF CudaInv, CaptureInv, StreamInv
<1>3. \A t \in Threads : doing[t] # "idle" <=> at[t].step = "wait"  BY DEF CudaInv, StepInv
<1> QED
  BY <1>1, <1>2, <1>3, SameForCuda
     DEF CudaInv, MemoryInv, StreamInv, ThreadInv, CaptureInv, Cuda!TypeOK

-----------------------------------------------------------------------------
(* CUDA: what a call does to the stream of the contract.                   *)

OnCuda == backend = "cuda" /\ backend' = "cuda"

\* The number of a call, which is no earlier call's.
LEMMA CudaCounts ==
    ASSUME CudaInv, calls < MaxCalls, calls' = calls + 1
    PROVE  /\ calls' \in 1..MaxCalls /\ calls' \in Nat /\ calls \in 0..(MaxCalls - 1)
           /\ calls' \in 0..MaxCalls
BY CallsAssumption DEF CudaInv, MemoryInv

\* A command that goes to the main stream.
LEMMA CudaAppends ==
    ASSUME CudaInv, NEW c, Sound(c, built), c.op # "new", c.id = calls',
           calls < MaxCalls, calls' = calls + 1,
           streams' = [streams EXCEPT !["main"] = Append(@, c)],
           UNCHANGED <<contents, words, built>>
    PROVE  /\ MemoryInv' /\ StreamInv'
           /\ Q' = Append(Q, c) /\ W' = W
           /\ Elements(Main') = Elements(Main) \cup {c} /\ Number(c) = calls'
<1>1. Main \in Seq(Command) /\ c \in Command /\ Main' = Append(Main, c)
  BY DEF CudaInv, StreamInv, Main, Sound
<1>2. /\ calls' \in 1..MaxCalls /\ calls' \in Nat /\ calls \in 0..(MaxCalls - 1)
      /\ calls' \in 0..MaxCalls
  BY CudaCounts
<1> DEFINE p == Append(Main, c)
<1>3. p \in Seq(Command)  BY <1>1, AppendProperties
<1>4. Ordered(p, built)  BY OrderedAppend DEF CudaInv, StreamInv
<1>5. Counted(p, calls + 1)  BY <1>1, <1>2, CountedAppend DEF CudaInv, StreamInv
<1>6. Elements(p) = Elements(Main) \cup {c}  BY <1>1, ElementsAppend
<1>7. WithoutNew(p) = Append(Q, c)  BY <1>1, WithoutNewAppend DEF Q
<1>8. NodeWords(p, words, built) = W  BY <1>1, NodeWordsAppend DEF W
<1>9. Number(c) = calls'  BY <1>2, NumberIs
<1> HIDE DEF p
<1>10. Main' = p  BY <1>1 DEF p
<1>11. /\ streams' \in [{"main", "capture"} -> Seq(Command)]
       /\ streams'["capture"] = streams["capture"]
  <2>1. streams' = [streams EXCEPT !["main"] = p]  BY DEF p, Main, CudaInv, StreamInv
  <2> QED  BY <1>3, <2>1 DEF CudaInv, StreamInv
<1>12. StreamInv'
  BY <1>4, <1>5, <1>10, <1>11 DEF CudaInv, StreamInv
<1>13. MemoryInv'  BY <1>2 DEF CudaInv, MemoryInv
<1> QED  BY <1>6, <1>7, <1>8, <1>9, <1>10, <1>12, <1>13 DEF Q, W

\* Threads that wait go on waiting for the same.
LEMMA CudaStillWaits ==
    ASSUME CudaInv, NEW n, n = calls', calls' = calls + 1, Elements(Main) \subseteq Elements(Main'),
           \A c \in Elements(Main') : c \in Elements(Main) \/ Number(c) = n,
           UNCHANGED <<doing, waits>>,
           \A t \in Threads : doing[t] # "idle" => at'[t] = at[t]
    PROVE  ThreadInv'
<1>1. calls \in Nat /\ MaxCalls \in Nat  BY CallsAssumption DEF CudaInv, MemoryInv
<1>2. ASSUME NEW t \in Threads, doing[t] # "idle"
      PROVE  at[t].asked \in 0..calls' /\ Awaits(Main', waits[t], at[t].asked)
  <2>1. at[t].asked \in 0..calls /\ Awaits(Main, waits[t], at[t].asked)
    BY <1>2 DEF CudaInv, ThreadInv
  <2>2. \A c \in Elements(Main') : c \in Elements(Main) \/ Number(c) >= at[t].asked
    BY <1>1, <2>1
  <2> DEFINE p == Main'
             a == at[t].asked
  <2> HIDE DEF p, a
  <2>3. Awaits(p, waits[t], a)  BY <2>1, <2>2, AwaitsMore DEF p, a
  <2> QED  BY <1>1, <2>1, <2>3 DEF p, a
<1> QED  BY <1>2 DEF CudaInv, ThreadInv

\* A call that takes one step and neither waits nor has to do with captures.
LEMMA CudaCaptureStays ==
    ASSUME CudaInv, built \subseteq built', UNCHANGED <<doing, at, capture_works, capturing, graph, kept>>
    PROVE  StepInv' /\ CaptureInv'
<1>1. StepInv'  BY DEF CudaInv, StepInv
<1>2. graph = None \/ Runs(graph, built')  BY RunsMore DEF CudaInv, CaptureInv
<1>3. \A r \in Captures : kept[r] = None \/ Runs(kept[r], built')
  BY RunsMore DEF CudaInv, CaptureInv
<1>4. \A t \in Threads : at[t].step = "launch" => at[t].node \in built'
  BY DEF CudaInv, CaptureInv
<1> QED  BY <1>1, <1>2, <1>3, <1>4 DEF CudaInv, CaptureInv, Between

LEMMA CudaEnqueues ==
    ASSUME OnCuda, NEW t, doing[t] = "idle", calls < MaxCalls, calls' = calls + 1,
           NEW c, Q' = Append(Q, c), W' = W, UNCHANGED <<contents, doing, waits, result>>
    PROVE  Contract!Stream!Enqueue(t, c)
BY DEF OnCuda, Contract!Stream!Enqueue, Contract!Stream!Call, OfBackend, Q, W, Main, Cuda!Main,
       QueuedOnly

LEMMA CudaQueueStep ==
    ASSUME CudaInv, OnCuda, NEW t \in Threads, NEW c, Sound(c, built), c.op # "new", c.id = calls',
           Cuda!Queue(t, c), UNCHANGED built
    PROVE  CudaInv' /\ Contract!Stream!Enqueue(t, c) /\ UNCHANGED Contract!captures
<1>1. /\ doing[t] = "idle" /\ calls < MaxCalls /\ calls' = calls + 1
      /\ streams' = [streams EXCEPT !["main"] = Append(@, c)]
      /\ UNCHANGED <<contents, words, doing, waits, result, at, capture_works, capturing, graph, kept>>
  BY DEF Cuda!Queue, Cuda!Call, Cuda!Idle, Cuda!memory, Cuda!threadvars, Cuda!capturevars
<1>2. /\ MemoryInv' /\ StreamInv' /\ Q' = Append(Q, c) /\ W' = W
      /\ Elements(Main') = Elements(Main) \cup {c} /\ Number(c) = calls'
  BY <1>1, CudaAppends
<1>3. ThreadInv'  BY <1>1, <1>2, CudaStillWaits
<1>4. StepInv' /\ CaptureInv'  BY <1>1, CudaCaptureStays
<1>5. Contract!Stream!Enqueue(t, c)  BY <1>1, <1>2, CudaEnqueues
<1>6. UNCHANGED Contract!captures
  BY <1>1 DEF Contract!captures, OnCuda, OfBackend, Cuda!Recording
<1> QED  BY <1>2, <1>3, <1>4, <1>5, <1>6 DEF CudaInv

-----------------------------------------------------------------------------
(* CUDA: the calls.                                                        *)

LEMMA CudaUpload ==
    ASSUME CudaInv, OnCuda, NEW t \in Threads, NEW b \in Buffers, NEW v \in Values,
           Cuda!upload_raw(t, b, v)
    PROVE  CudaInv' /\ Contract!Stream!upload_raw(t, b, v) /\ UNCHANGED Contract!captures
<1> DEFINE c == write(calls', b, v)
<1>1. Cuda!Queue(t, c) /\ UNCHANGED built  BY SameForCuda DEF Cuda!upload_raw
<1>2. calls' \in Nat  BY <1>1, CudaCounts DEF Cuda!Queue, Cuda!Call
<1>3. Sound(c, built) /\ c.op = "write"  BY <1>2, CommandTypes
<1>4. c.id = calls'  BY DEF write
<1>5. Contract!Stream!upload_raw(t, b, v) <=> Contract!Stream!Enqueue(t, c)
  BY SameForContract DEF Contract!Stream!upload_raw
<1> HIDE DEF c
<1> QED  BY <1>1, <1>3, <1>4, <1>5, CudaQueueStep

LEMMA CudaCopy ==
    ASSUME CudaInv, OnCuda, NEW t \in Threads, NEW a \in Buffers, NEW b \in Buffers,
           Cuda!copy_raw(t, a, b)
    PROVE  CudaInv' /\ Contract!Stream!copy_raw(t, a, b) /\ UNCHANGED Contract!captures
<1> DEFINE c == copy(calls', a, b)
<1>1. a # b /\ Cuda!Queue(t, c) /\ UNCHANGED built  BY SameForCuda DEF Cuda!copy_raw
<1>2. calls' \in Nat  BY <1>1, CudaCounts DEF Cuda!Queue, Cuda!Call
<1>3. Sound(c, built) /\ c.op = "copy"  BY <1>2, CommandTypes DEF Locations
<1>4. c.id = calls'  BY DEF copy
<1>5. Contract!Stream!copy_raw(t, a, b) <=> Contract!Stream!Enqueue(t, c)
  BY <1>1, SameForContract DEF Contract!Stream!copy_raw
<1> HIDE DEF c
<1> QED  BY <1>1, <1>3, <1>4, <1>5, CudaQueueStep

LEMMA CudaClear ==
    ASSUME CudaInv, OnCuda, NEW t \in Threads, NEW b \in Buffers, Cuda!clear_raw(t, b)
    PROVE  CudaInv' /\ Contract!Stream!clear_raw(t, b) /\ UNCHANGED Contract!captures
<1> DEFINE c == clear(calls', b)
<1>1. Cuda!Queue(t, c) /\ UNCHANGED built  BY SameForCuda DEF Cuda!clear_raw
<1>2. calls' \in Nat  BY <1>1, CudaCounts DEF Cuda!Queue, Cuda!Call
<1>3. Sound(c, built) /\ c.op = "clear"  BY <1>2, CommandTypes
<1>4. c.id = calls'  BY DEF clear
<1>5. Contract!Stream!clear_raw(t, b) <=> Contract!Stream!Enqueue(t, c)
  BY SameForContract DEF Contract!Stream!clear_raw
<1> HIDE DEF c
<1> QED  BY <1>1, <1>3, <1>4, <1>5, CudaQueueStep

\* A node has words for the contract when it is built.
LEMMA CudaHasWords ==
    ASSUME CudaInv, NEW n \in Nodes
    PROVE  W[n] # None <=> n \in built
BY NodeWordsType DEF CudaInv, StreamInv, MemoryInv, W

LEMMA CudaMeta ==
    ASSUME CudaInv, OnCuda, NEW t \in Threads, NEW n \in Nodes, NEW w \in Words,
           Cuda!update_meta(t, n, w)
    PROVE  CudaInv' /\ Contract!Stream!update_meta(t, n, w) /\ UNCHANGED Contract!captures
<1> DEFINE c == meta(calls', n, w)
<1>1. n \in built /\ Cuda!Queue(t, c) /\ UNCHANGED built  BY SameForCuda DEF Cuda!update_meta
<1>2. calls' \in Nat  BY <1>1, CudaCounts DEF Cuda!Queue, Cuda!Call
<1>3. Sound(c, built) /\ c.op = "meta"  BY <1>1, <1>2, CommandTypes
<1>4. c.id = calls'  BY DEF meta
<1>5. W[n] # None  BY <1>1, CudaHasWords
<1>6. Contract!Stream!update_meta(t, n, w) <=> Contract!Stream!Enqueue(t, c)
  BY <1>5, SameForContract DEF Contract!Stream!update_meta, OnCuda, OfBackend, W, Main, Cuda!Main
<1> HIDE DEF c
<1> QED  BY <1>1, <1>3, <1>4, <1>6, CudaQueueStep

\* A new node's words are on their way behind everything else.
LEMMA CudaBuild ==
    ASSUME CudaInv, OnCuda, NEW t \in Threads, NEW n \in Nodes, NEW w \in Words,
           Cuda!build_node(t, n, w)
    PROVE  CudaInv' /\ Contract!Stream!build_node(t, n, w) /\ UNCHANGED Contract!captures
<1> DEFINE c == new(calls', n, w)
           more == built \cup {n}
           p == Append(Main, c)
<1>1. /\ n \notin built /\ built' = more
      /\ doing[t] = "idle" /\ calls < MaxCalls /\ calls' = calls + 1
      /\ streams' = [streams EXCEPT !["main"] = Append(@, c)]
      /\ UNCHANGED <<contents, words, doing, waits, result, at, capture_works, capturing, graph, kept>>
  BY SameForCuda
     DEF Cuda!build_node, Cuda!Queue, Cuda!Call, Cuda!Idle, Cuda!memory, Cuda!threadvars, Cuda!capturevars
<1>2. /\ calls' \in 1..MaxCalls /\ calls' \in Nat /\ calls \in 0..(MaxCalls - 1)
      /\ calls' \in 0..MaxCalls
  BY <1>1, CudaCounts
<1>3. /\ c \in Command /\ WellFormed(c) /\ c.op = "new" /\ c.node = n /\ c.value = w
  BY <1>2, CommandTypes
<1>4. c.id = calls'  BY DEF new, meta
<1> HIDE DEF c
<1>5. Main \in Seq(Command) /\ Ordered(Main, built) /\ Counted(Main, calls)
  BY DEF CudaInv, StreamInv, Main
<1>6. p \in Seq(Command) /\ Elements(p) = Elements(Main) \cup {c}
  BY <1>3, <1>5, AppendProperties, ElementsAppend
<1>7. Ordered(p, more)
  <2>1. Main \o <<>> = Main /\ p \o <<>> = p  BY <1>5, <1>6, ConcatEmptySeq
  <2> DEFINE q == <<>>
  <2>2. q \in Seq(Command) /\ Ordered(Main \o q, built)  BY <1>5, <2>1, EmptySeq
  <2> HIDE DEF q
  <2>3. Ordered(Append(Main, c) \o q, built \cup {c.node})
    BY <1>1, <1>3, <1>5, <2>2, OrderedInsert
  <2> QED  BY <1>3, <2>1, <2>3 DEF q
<1>8. Counted(p, calls + 1)  BY <1>1, <1>2, <1>3, <1>4, <1>5, CountedAppend
<1>9. WithoutNew(p) = WithoutNew(Main)  BY <1>3, <1>5, WithoutNewAppend
<1>10. Number(c) = calls'  BY <1>2, <1>4, NumberIs
<1>11. Main' = p  BY <1>1 DEF CudaInv, StreamInv, Main
<1>12. streams' \in [{"main", "capture"} -> Seq(Command)] /\ streams'["capture"] = <<>>
  <2>1. streams' = [streams EXCEPT !["main"] = p]  BY <1>1 DEF Main, CudaInv, StreamInv
  <2> QED  BY <1>6, <2>1 DEF CudaInv, StreamInv
<1> HIDE DEF p
<1>13. NodeWords(p, words, more) = [W EXCEPT ![n] = w]
  <2> DEFINE q == Main
             after == NodeWords(p, words, more)
  <2>1. words \in [Nodes -> Words]  BY DEF CudaInv, MemoryInv
  <2>2. Ordered(q, built) /\ Elements(p) = Elements(q) \cup {c}  BY <1>5, <1>6
  <2>3. W = NodeWords(q, words, built)  BY DEF W
  <2>4. more = built \cup {n} /\ n \notin built /\ c.op = "new" /\ c.node = n  BY <1>1, <1>3
  <2> HIDE DEF q, more
  <2>5. after[n] = c.value /\ \A m \in Nodes : m # n => after[m] = NodeWords(q, words, built)[m]
    BY <1>7, <2>1, <2>2, <2>4, NodeWordsInsert
  <2>6. after \in [Nodes -> Words \cup {None}]  BY <1>7, <2>1, NodeWordsType
  <2>7. W \in [Nodes -> Words \cup {None}]  BY <2>1, <2>2, <2>3, NodeWordsType
  <2> HIDE DEF after
  <2>8. after = [W EXCEPT ![n] = w]  BY <1>3, <2>3, <2>5, <2>6, <2>7
  <2> QED  BY <2>8 DEF after
<1>14. Q' = Q /\ W' = [W EXCEPT ![n] = w]  BY <1>1, <1>9, <1>11, <1>13 DEF Q, W
<1>15. W[n] = None  BY <1>1, CudaHasWords
<1>16. Contract!Stream!build_node(t, n, w)
  BY <1>1, <1>14, <1>15
     DEF Contract!Stream!build_node, Contract!Stream!Call, OnCuda, OfBackend, Q, W, Main, Cuda!Main, QueuedOnly
<1>17. MemoryInv'  BY <1>1, <1>2 DEF CudaInv, MemoryInv
<1>18. StreamInv'
  <2>1. more \subseteq Nodes  BY DEF CudaInv, StreamInv
  <2> QED  BY <1>1, <1>7, <1>8, <1>11, <1>12, <2>1 DEF StreamInv
<1>19. ThreadInv'  BY <1>1, <1>6, <1>10, <1>11, CudaStillWaits
<1>20. StepInv' /\ CaptureInv'  BY <1>1, CudaCaptureStays
<1>21. UNCHANGED Contract!captures
  BY <1>1 DEF Contract!captures, OnCuda, OfBackend, Cuda!Recording
<1> QED  BY <1>16, <1>17, <1>18, <1>19, <1>20, <1>21 DEF CudaInv

\* A thread that takes another step of its call, while the stream and the words
\* stay: what is left to show is about the captures.
LEMMA CudaSteps ==
    ASSUME CudaInv, NEW t \in Threads, doing[t] = "idle",
           NEW to \in {Ready} \cup Launches \cup Begins \cup Ends, at' = [at EXCEPT ![t] = to],
           at[t].step \in {"ready", "wait"} =>
               to = Ready \/ \A u \in Threads : at[u].step \in {"ready", "wait"},
           UNCHANGED doing
    PROVE  /\ StepInv' /\ at'[t] = to /\ \A u \in Threads : u # t => at'[u] = at[u]
           /\ \A u \in Threads : doing[u] # "idle" => at'[u] = at[u]
           /\ at[t].step # "wait" /\ to.step # "wait"
<1>1. /\ at \in [Threads -> {Ready} \cup Launches \cup Begins \cup Ends \cup Asks]
      /\ \A u \in Threads : doing[u] # "idle" <=> at[u].step = "wait"
      /\ \A u, v \in Threads : at[u].step \notin {"ready", "wait"}
             /\ at[v].step \notin {"ready", "wait"} => u = v
  BY DEF CudaInv, StepInv
<1>2. at'[t] = to /\ \A u \in Threads : u # t => at'[u] = at[u]  BY <1>1
<1>3. to.step # "wait"  BY DEF Ready, Launches, Begins, Ends
<1>4. \A u \in Threads : doing'[u] # "idle" <=> at'[u].step = "wait"  BY <1>1, <1>2, <1>3
<1>5. ASSUME NEW u \in Threads, NEW v \in Threads,
             at'[u].step \notin {"ready", "wait"}, at'[v].step \notin {"ready", "wait"}
      PROVE  u = v
  <2>1. CASE to = Ready
    <3>1. u # t /\ v # t  BY <1>2, <1>5, <2>1 DEF Ready
    <3> QED  BY <1>1, <1>2, <1>5, <3>1
  <2>2. CASE at[t].step \notin {"ready", "wait"}
    <3>1. at[u].step \notin {"ready", "wait"}  BY <1>2, <1>5, <2>2
    <3>2. at[v].step \notin {"ready", "wait"}  BY <1>2, <1>5, <2>2
    <3> QED  BY <1>1, <3>1, <3>2
  <2>3. CASE \A x \in Threads : at[x].step \in {"ready", "wait"}
    <3>1. u = t  BY <1>2, <1>5, <2>3
    <3>2. v = t  BY <1>2, <1>5, <2>3
    <3> QED  BY <3>1, <3>2
  <2> QED  BY <2>1, <2>2, <2>3
<1>6. at' \in [Threads -> {Ready} \cup Launches \cup Begins \cup Ends \cup Asks]  BY <1>1
<1>7. StepInv'  BY <1>4, <1>5, <1>6 DEF StepInv
<1> QED  BY <1>1, <1>2, <1>3, <1>7

LEMMA CudaMemoryStays ==
    ASSUME CudaInv, UNCHANGED <<contents, words, calls, streams, built>>
    PROVE  MemoryInv' /\ StreamInv' /\ Q' = Q /\ W' = W
BY DEF CudaInv, MemoryInv, StreamInv, Main, Q, W

LEMMA CudaThreadsStay ==
    ASSUME CudaInv, UNCHANGED <<calls, streams, doing, waits>>,
           \A u \in Threads : doing[u] # "idle" => at'[u] = at[u]
    PROVE  ThreadInv'
<1>1. ASSUME NEW u \in Threads, doing[u] # "idle"
      PROVE  at'[u].asked \in 0..calls /\ Awaits(Main, waits[u], at'[u].asked)
  BY <1>1 DEF CudaInv, ThreadInv
<1> QED  BY <1>1 DEF CudaInv, ThreadInv, Main

\* Without an overlap no call about captures is between its two steps.
LEMMA CudaAlone ==
    ASSUME ~Overlap, Cuda!Alone
    PROVE  \A u \in Threads : at[u].step \in {"ready", "wait"}
BY DEF Cuda!Alone

\* The flag is read: nothing the contract would see.
LEMMA CudaExecute ==
    ASSUME CudaInv, OnCuda, ~Overlap, NEW t \in Threads, NEW n \in Nodes,
           NEW a \in Buffers, NEW b \in Buffers, Cuda!execute_raw(t, n, a, b)
    PROVE  CudaInv' /\ UNCHANGED Contract!vars
<1> DEFINE to == [step |-> "launch", stream |-> IF capturing THEN "capture" ELSE "main",
                  node |-> n, from |-> a, to |-> b]
<1>1. /\ doing[t] = "idle" /\ n \in built /\ a # b /\ ~(capturing /\ ~capture_works)
      /\ at' = [at EXCEPT ![t] = to]
      /\ UNCHANGED <<contents, words, streams, built, doing, waits, result, calls, capture_works,
                     capturing, graph, kept>>
  BY DEF Cuda!execute_raw, Cuda!Idle, Cuda!memory, Cuda!capturevars
<1>2. \A u \in Threads : at[u].step \in {"ready", "wait"}  BY CudaAlone DEF Cuda!execute_raw
<1>3. to \in Launches /\ to.step = "launch" /\ to.node = n /\ to.from = a /\ to.to = b
      /\ to.stream = IF capturing THEN "capture" ELSE "main"
  BY DEF Launches
<1> HIDE DEF to
<1>4. /\ StepInv' /\ at'[t] = to /\ \A u \in Threads : u # t => at'[u] = at[u]
      /\ \A u \in Threads : doing[u] # "idle" => at'[u] = at[u]
  BY <1>1, <1>2, <1>3, CudaSteps
<1>5. MemoryInv' /\ StreamInv' /\ Q' = Q /\ W' = W  BY <1>1, CudaMemoryStays
<1>6. ThreadInv'  BY <1>1, <1>4, CudaThreadsStay
<1>7. CaptureInv'
  <2>1. \A u \in Threads : u # t => at'[u].step \in {"ready", "wait"}  BY <1>2, <1>4
  <2>2. ASSUME NEW u \in Threads
        PROVE  /\ at'[u].step = "launch" =>
                      /\ at'[u].node \in built /\ at'[u].from # at'[u].to
                      /\ at'[u].stream = IF capturing THEN "capture" ELSE "main"
                      /\ capturing => capture_works
               /\ at'[u].step \notin {"begin", "end"} /\ at[u].step \notin {"begin", "end"}
    BY <1>1, <1>2, <1>3, <1>4, <2>1
  <2> QED  BY <1>1, <2>2 DEF CudaInv, CaptureInv, Between
<1>8. UNCHANGED Contract!vars
  BY <1>1, <1>5
     DEF Contract!vars, Contract!stream, Contract!captures, OnCuda, OfBackend, Cuda!Recording, Q, W,
         Main, Cuda!Main, QueuedOnly
<1> QED  BY <1>4, <1>5, <1>6, <1>7, <1>8 DEF CudaInv

\* A launch is what the contract runs or records.
LEMMA CudaLaunch ==
    ASSUME CudaInv, OnCuda, NEW t \in Threads, Cuda!Launch(t)
    PROVE  CudaInv' /\ \E n \in Nodes, a, b \in Buffers : Contract!execute_raw(t, n, a, b)
<1> DEFINE call == at[t]
           n == call.node
           a == call.from
           b == call.to
<1>1. /\ call.step = "launch" /\ at' = [at EXCEPT ![t] = Ready]
      /\ UNCHANGED <<contents, words, built, doing, waits, result, capture_works, capturing, kept>>
  BY DEF Cuda!Launch, Cuda!memory, Cuda!Ready, Ready
<1>2. \/ /\ call.stream = "capture" /\ graph # None
         /\ graph' = Append(graph, run(0, n, a, b)) /\ UNCHANGED <<streams, calls>>
      \/ /\ call.stream = "capture" => graph = None
         /\ calls < MaxCalls /\ calls' = calls + 1
         /\ streams' = [streams EXCEPT ![call.stream] = Append(@, run(calls', n, a, b))]
         /\ UNCHANGED graph
  BY SameForCuda DEF Cuda!Launch
<1>3. call \in Launches /\ doing[t] = "idle"
  BY <1>1 DEF CudaInv, StepInv, Ready, Begins, Ends, Asks
<1>4. n \in Nodes /\ a \in Buffers /\ b \in Buffers  BY <1>3 DEF Launches
<1>5. /\ n \in built /\ a # b /\ call.stream = IF capturing THEN "capture" ELSE "main"
      /\ capturing => capture_works
  BY <1>1 DEF CudaInv, CaptureInv
<1>6. \A u \in Threads : u # t => at[u].step \in {"ready", "wait"}
  BY <1>1 DEF CudaInv, StepInv
<1>7. \A u \in Threads : ~Between(u)  BY <1>1, <1>6 DEF Between
<1>8. capture_works => (capturing <=> graph # None)  BY <1>7 DEF CudaInv, CaptureInv
<1>9. ~capture_works => graph = None  BY DEF CudaInv, CaptureInv
<1> HIDE DEF call, n, a, b
<1>10. /\ StepInv' /\ at'[t] = Ready /\ \A u \in Threads : u # t => at'[u] = at[u]
       /\ \A u \in Threads : doing[u] # "idle" => at'[u] = at[u]
  <2>1. at[t].step = "launch"  BY <1>1 DEF call
  <2> QED  BY <1>1, <1>3, <2>1, CudaSteps
<1>11. \A u \in Threads : at'[u].step \in {"ready", "wait"}  BY <1>6, <1>10 DEF Ready
<1>12. W[n] # None  BY <1>4, <1>5, CudaHasWords
<1>13. CASE /\ call.stream = "capture" /\ graph # None
            /\ graph' = Append(graph, run(0, n, a, b)) /\ UNCHANGED <<streams, calls>>
  <2>1. MemoryInv' /\ StreamInv' /\ Q' = Q /\ W' = W  BY <1>1, <1>13, CudaMemoryStays
  <2>2. ThreadInv'  BY <1>1, <1>10, <1>13, CudaThreadsStay
  <2>3. capturing /\ capture_works  BY <1>5, <1>13
  <2> DEFINE c == run(0, n, a, b)
  <2>4. Sound(c, built) /\ c.op = "run"  BY <1>4, <1>5, CommandTypes
  <2> HIDE DEF c
  <2>5. Runs(graph, built)  BY <1>13 DEF CudaInv, CaptureInv
  <2>6. Runs(Append(graph, c), built)  BY <2>4, <2>5, RunsAppend
  <2>7. graph' = Append(graph, c)  BY <1>13 DEF c
  <2>8. graph' # None /\ Runs(graph', built)
    <3>1. Runs(graph', built)  BY <2>6, <2>7
    <3> QED  BY <3>1, NoneAssumption DEF Runs
  <2>9. CaptureInv'
    <3>1. /\ capture_works' \in BOOLEAN /\ capturing' \in BOOLEAN
          /\ kept' \in [Captures -> Seq(Command) \cup {None}]
          /\ \A r \in Captures : kept'[r] = None \/ Runs(kept'[r], built')
      BY <1>1 DEF CudaInv, CaptureInv
    <3> QED  BY <1>1, <1>11, <2>3, <2>8, <3>1 DEF CaptureInv
  <2>10. Contract!execute_raw(t, n, a, b)
    <3>1. Contract!run(0, n, a, b) = c  BY SameForContract DEF c
    <3>2. Cuda!Recording = graph /\ Cuda!Recording' = graph'
      BY <1>1, <2>3 DEF Cuda!Recording
    <3> QED
      BY <1>1, <1>3, <1>5, <1>12, <1>13, <2>1, <2>7, <3>1, <3>2
         DEF Contract!execute_raw, Contract!stream, OnCuda, OfBackend, Q, W, Main, Cuda!Main, QueuedOnly
  <2> QED  BY <1>4, <1>10, <2>1, <2>2, <2>9, <2>10 DEF CudaInv
<1>14. CASE /\ call.stream = "capture" => graph = None
            /\ calls < MaxCalls /\ calls' = calls + 1
            /\ streams' = [streams EXCEPT ![call.stream] = Append(@, run(calls', n, a, b))]
            /\ UNCHANGED graph
  <2>1. call.stream = "main" /\ ~capturing  BY <1>5, <1>8, <1>14
  <2>2. Cuda!Recording = None /\ Cuda!Recording' = None
    BY <1>1, <1>8, <1>14, <2>1 DEF Cuda!Recording
  <2> DEFINE c == run(calls', n, a, b)
  <2>3. calls' \in Nat  BY <1>14, CudaCounts
  <2>4. Sound(c, built) /\ c.op = "run"  BY <1>4, <1>5, <2>3, CommandTypes
  <2>5. c.id = calls'  BY DEF run
  <2>6. Contract!Stream!execute_raw(t, n, a, b) <=> Contract!Stream!Enqueue(t, c)
    BY <1>5, <1>12, SameForContract
       DEF Contract!Stream!execute_raw, OnCuda, OfBackend, W, Main, Cuda!Main
  <2>7. calls < MaxCalls /\ calls' = calls + 1 /\ streams' = [streams EXCEPT !["main"] = Append(@, c)]
    BY <1>14, <2>1
  <2> HIDE DEF c
  <2>8. /\ MemoryInv' /\ StreamInv' /\ Q' = Append(Q, c) /\ W' = W
        /\ Elements(Main') = Elements(Main) \cup {c} /\ Number(c) = calls'
    BY <1>1, <2>4, <2>5, <2>7, CudaAppends
  <2>9. ThreadInv'  BY <1>1, <1>10, <2>7, <2>8, CudaStillWaits
  <2>10. CaptureInv'
    BY <1>1, <1>8, <1>11, <1>14 DEF CudaInv, CaptureInv
  <2>11. Contract!Stream!Enqueue(t, c)  BY <1>1, <1>3, <2>7, <2>8, CudaEnqueues
  <2>12. Contract!execute_raw(t, n, a, b)
    BY <1>1, <2>2, <2>6, <2>11 DEF Contract!execute_raw, Contract!captures, OnCuda, OfBackend
  <2> QED  BY <1>4, <1>10, <2>8, <2>9, <2>10, <2>12 DEF CudaInv
<1> QED  BY <1>2, <1>13, <1>14

\* A call that blocks until the main stream has done what it was given.
LEMMA CudaBlocks ==
    ASSUME CudaInv, NEW t \in Threads, NEW what \in {"download", "synchronize"},
           doing[t] = "idle", at[t] = Ready, doing' = [doing EXCEPT ![t] = what],
           calls < MaxCalls, calls' = calls + 1,
           waits' = [waits EXCEPT ![t] = Elements(Main')],
           at' = [at EXCEPT ![t] = [step |-> "wait", asked |-> calls']],
           StreamInv', Elements(Main) \subseteq Elements(Main'),
           \A c \in Elements(Main') : c \in Elements(Main) \/ Number(c) = calls',
           UNCHANGED <<built, capture_works, capturing, graph, kept>>
    PROVE  /\ ThreadInv' /\ StepInv' /\ CaptureInv'
           /\ QueuedOnly(waits)' = [QueuedOnly(waits) EXCEPT ![t] =
                  {Q'[k] : k \in {j \in DOMAIN Q' : Queued(Q'[j])}}]
<1>1. calls \in Nat /\ MaxCalls \in Nat /\ calls' \in Nat
  BY CallsAssumption DEF CudaInv, MemoryInv
<1> DEFINE step == [step |-> "wait", asked |-> calls']
           given == Elements(Main')
<1>2. step \in Asks /\ step.step = "wait" /\ step.asked = calls'  BY <1>1 DEF Asks
<1>3. Main' \in Seq(Command)  BY DEF StreamInv, Main
<1>4. given \subseteq Command  BY <1>3, ElementsType
<1> HIDE DEF step
<1>5. /\ at \in [Threads -> {Ready} \cup Launches \cup Begins \cup Ends \cup Asks]
      /\ \A u \in Threads : doing[u] # "idle" <=> at[u].step = "wait"
      /\ \A u, v \in Threads : at[u].step \notin {"ready", "wait"}
             /\ at[v].step \notin {"ready", "wait"} => u = v
      /\ doing \in [Threads -> {"idle", "download", "synchronize"}]
      /\ waits \in [Threads -> SUBSET Command]
  BY DEF CudaInv, StepInv, ThreadInv
<1>6. /\ at'[t] = step /\ \A u \in Threads : u # t => at'[u] = at[u]
      /\ doing'[t] = what /\ \A u \in Threads : u # t => doing'[u] = doing[u]
      /\ waits'[t] = given /\ \A u \in Threads : u # t => waits'[u] = waits[u]
      /\ at' \in [Threads -> {Ready} \cup Launches \cup Begins \cup Ends \cup Asks]
      /\ doing' \in [Threads -> {"idle", "download", "synchronize"}]
      /\ waits' \in [Threads -> SUBSET Command]
  BY <1>2, <1>4, <1>5 DEF step
<1> HIDE DEF given
<1>7. StepInv'
  <2>1. \A u \in Threads : doing'[u] # "idle" <=> at'[u].step = "wait"  BY <1>2, <1>5, <1>6
  <2>2. \A u \in Threads : at'[u].step \notin {"ready", "wait"} => at[u].step \notin {"ready", "wait"}
    BY <1>2, <1>6
  <2> QED  BY <1>5, <1>6, <2>1, <2>2 DEF StepInv
<1>8. CaptureInv'
  <2>1. \A u \in Threads : \A s \in {"launch", "begin", "end"} :
            (at'[u].step = s <=> at[u].step = s) /\ (at[u].step = s => at'[u] = at[u])
    BY <1>2, <1>6 DEF Ready
  <2>2. \A u \in Threads : Between(u)' <=> Between(u)  BY <2>1 DEF Between
  <2> QED  BY <2>1, <2>2 DEF CudaInv, CaptureInv
<1>9. ThreadInv'
  <2> DEFINE p == Main'
  <2>1. Awaits(p, given, calls')  BY DEF Awaits, given
  <2>2. ASSUME NEW u \in Threads, u # t, doing[u] # "idle"
        PROVE  at[u].asked \in 0..calls' /\ Awaits(p, waits[u], at[u].asked)
    <3> DEFINE a == at[u].asked
    <3>1. a \in 0..calls /\ Awaits(Main, waits[u], a)  BY <2>2 DEF CudaInv, ThreadInv
    <3>2. \A c \in Elements(p) : c \in Elements(Main) \/ Number(c) >= a  BY <1>1, <3>1
    <3>3. Elements(Main) \subseteq Elements(p)  OBVIOUS
    <3> HIDE DEF p, a
    <3>4. Awaits(p, waits[u], a)  BY <3>1, <3>2, <3>3, AwaitsMore
    <3> QED  BY <1>1, <3>1, <3>4 DEF a
  <2>3. \A u \in Threads : waits'[u] \subseteq Elements(p)
    <3>1. \A u \in Threads : waits[u] \subseteq Elements(Main)  BY DEF CudaInv, ThreadInv
    <3> QED  BY <1>6, <3>1 DEF given
  <2>4. ASSUME NEW u \in Threads, doing'[u] # "idle"
        PROVE  at'[u].asked \in 0..calls' /\ Awaits(p, waits'[u], at'[u].asked)
    <3>1. CASE u = t  BY <1>1, <1>2, <1>6, <2>1, <3>1
    <3>2. CASE u # t  BY <1>6, <2>2, <2>4, <3>2
    <3> QED  BY <3>1, <3>2
  <2> HIDE DEF p
  <2>5. p = Main'  BY DEF p
  <2> QED  BY <1>6, <2>3, <2>4, <2>5 DEF ThreadInv
<1>10. QueuedOnly(waits)' = [QueuedOnly(waits) EXCEPT ![t] =
           {Q'[k] : k \in {j \in DOMAIN Q' : Queued(Q'[j])}}]
  <2>1. {Q'[k] : k \in {j \in DOMAIN Q' : Queued(Q'[j])}} = {c \in given : Queued(c)}
    BY <1>3, WaitsForQueued DEF Q, given
  <2>2. QueuedOnly(waits)' = [u \in Threads |-> {c \in waits'[u] : Queued(c)}]  BY DEF QueuedOnly
  <2>3. [QueuedOnly(waits) EXCEPT ![t] = {c \in given : Queued(c)}]
            = [u \in Threads |-> IF u = t THEN {c \in given : Queued(c)}
                                 ELSE {c \in waits[u] : Queued(c)}]
    BY DEF QueuedOnly
  <2> QED  BY <1>6, <2>1, <2>2, <2>3
<1> QED  BY <1>7, <1>8, <1>9, <1>10

LEMMA CudaContractBlocks ==
    ASSUME OnCuda, NEW t, NEW what, doing' = [doing EXCEPT ![t] = what],
           QueuedOnly(waits)' = [QueuedOnly(waits) EXCEPT ![t] =
               {Q'[k] : k \in {j \in DOMAIN Q' : Queued(Q'[j])}}]
    PROVE  Contract!Stream!Block(t, what)
<1> DEFINE q == OfBackend(WithoutNew(Cuda!Main), work)'
           given == {q[k] : k \in {j \in DOMAIN q : Contract!Stream!Queued(q[j])}}
           longer == OfBackend(QueuedOnly(waits), waits)'
           before == OfBackend(QueuedOnly(waits), waits)
<1>1. q = Q'  BY DEF OnCuda, OfBackend, Q, Main, Cuda!Main
<1>2. longer = QueuedOnly(waits)' /\ before = QueuedOnly(waits)  BY DEF OnCuda, OfBackend
<1>3. Contract!Stream!Block(t, what)
          <=> doing' = [doing EXCEPT ![t] = what] /\ longer = [before EXCEPT ![t] = given]
  BY DEF Contract!Stream!Block
<1> DEFINE r == Q'
<1>4. given = {q[k] : k \in {j \in DOMAIN q : Queued(q[j])}}
  <2> HIDE DEF q
  <2>1. {j \in DOMAIN q : Contract!Stream!Queued(q[j])} = {j \in DOMAIN q : Queued(q[j])}
    BY SameForContract
  <2> QED  BY <2>1
<1>5. given = {r[k] : k \in {j \in DOMAIN r : Queued(r[j])}}
  <2>1. q = r  BY <1>1
  <2> HIDE DEF q, r, given
  <2> QED  BY <1>4, <2>1
<1> HIDE DEF longer, before, given
<1> QED  BY <1>2, <1>3, <1>5

LEMMA CudaDownload ==
    ASSUME CudaInv, OnCuda, NEW t \in Threads, NEW b \in Buffers, Cuda!download_raw(t, b)
    PROVE  CudaInv' /\ Contract!Stream!download_raw(t, b) /\ UNCHANGED Contract!captures
<1> DEFINE c == copy(calls', b, t)
           p == Main'
<1>1. /\ doing[t] = "idle" /\ at[t] = Ready /\ calls < MaxCalls /\ calls' = calls + 1
      /\ streams' = [streams EXCEPT !["main"] = Append(@, c)]
      /\ doing' = [doing EXCEPT ![t] = "download"]
      /\ waits' = [waits EXCEPT ![t] = Elements(Main')]
      /\ at' = [at EXCEPT ![t] = [step |-> "wait", asked |-> calls']]
      /\ UNCHANGED <<contents, words, built, result, capture_works, capturing, graph, kept>>
  BY SameForCuda
     DEF Cuda!download_raw, Cuda!Call, Cuda!Idle, Cuda!Ready, Cuda!Block, Cuda!memory,
         Cuda!capturevars, Ready, Elements, Main
<1>2. calls' \in Nat  BY <1>1, CudaCounts
<1>3. Sound(c, built) /\ c.op = "copy"  BY <1>2, CommandTypes DEF Locations
<1>4. c.id = calls'  BY DEF copy
<1>5. Contract!Stream!copy(calls', b, t) = c  BY SameForContract
<1> HIDE DEF c, p
<1>6. /\ MemoryInv' /\ StreamInv' /\ Q' = Append(Q, c) /\ W' = W
      /\ Elements(Main') = Elements(Main) \cup {c} /\ Number(c) = calls'
  BY <1>1, <1>3, <1>4, CudaAppends
<1>7. /\ ThreadInv' /\ StepInv' /\ CaptureInv'
      /\ QueuedOnly(waits)' = [QueuedOnly(waits) EXCEPT ![t] =
             {Q'[k] : k \in {j \in DOMAIN Q' : Queued(Q'[j])}}]
  BY <1>1, <1>6, CudaBlocks
<1>8. Contract!Stream!download_raw(t, b)
  <2>1. Contract!Stream!Block(t, "download")  BY <1>1, <1>7, CudaContractBlocks
  <2> QED
    BY <1>1, <1>5, <1>6, <2>1
       DEF Contract!Stream!download_raw, Contract!Stream!Call, OnCuda, OfBackend, Q, W, Main, Cuda!Main
<1>9. UNCHANGED Contract!captures
  BY <1>1 DEF Contract!captures, OnCuda, OfBackend, Cuda!Recording
<1> QED  BY <1>6, <1>7, <1>8, <1>9 DEF CudaInv

LEMMA CudaSynchronize ==
    ASSUME CudaInv, OnCuda, NEW t \in Threads, Cuda!synchronize(t)
    PROVE  CudaInv' /\ Contract!Stream!synchronize(t) /\ UNCHANGED Contract!captures
<1>1. /\ doing[t] = "idle" /\ at[t] = Ready /\ calls < MaxCalls /\ calls' = calls + 1
      /\ doing' = [doing EXCEPT ![t] = "synchronize"]
      /\ waits' = [waits EXCEPT ![t] = Elements(Main')]
      /\ at' = [at EXCEPT ![t] = [step |-> "wait", asked |-> calls']]
      /\ UNCHANGED <<contents, words, streams, built, result, capture_works, capturing, graph, kept>>
  BY DEF Cuda!synchronize, Cuda!Call, Cuda!Idle, Cuda!Ready, Cuda!Block, Cuda!memory,
         Cuda!capturevars, Ready, Elements, Main
<1>2. Main' = Main /\ Q' = Q /\ W' = W  BY <1>1 DEF Main, Q, W
<1>3. Counted(Main, calls + 1)
  <2>1. Counted(Main, calls) /\ calls \in Nat  BY CallsAssumption DEF CudaInv, StreamInv, MemoryInv
  <2> QED  BY <2>1 DEF Counted
<1>4. StreamInv' /\ MemoryInv'
  BY <1>1, <1>2, <1>3, CudaCounts DEF CudaInv, StreamInv, MemoryInv
<1>5. /\ ThreadInv' /\ StepInv' /\ CaptureInv'
      /\ QueuedOnly(waits)' = [QueuedOnly(waits) EXCEPT ![t] =
             {Q'[k] : k \in {j \in DOMAIN Q' : Queued(Q'[j])}}]
  BY <1>1, <1>2, <1>4, CudaBlocks
<1>6. Contract!Stream!synchronize(t)
  <2>1. Contract!Stream!Block(t, "synchronize")  BY <1>1, <1>5, CudaContractBlocks
  <2> QED
    BY <1>1, <1>2, <2>1
       DEF Contract!Stream!synchronize, Contract!Stream!Call, OnCuda, OfBackend, Q, W, Main, Cuda!Main
<1>7. UNCHANGED Contract!captures
  BY <1>1 DEF Contract!captures, OnCuda, OfBackend, Cuda!Recording
<1> QED  BY <1>4, <1>5, <1>6, <1>7 DEF CudaInv

LEMMA CudaReturn ==
    ASSUME CudaInv, OnCuda, NEW t \in Threads, Cuda!Return(t)
    PROVE  CudaInv' /\ Contract!Stream!Return(t) /\ UNCHANGED Contract!captures
<1>1. /\ doing[t] # "idle" /\ waits[t] = {} /\ doing' = [doing EXCEPT ![t] = "idle"]
      /\ result' = IF doing[t] = "download" THEN contents[t] ELSE result
      /\ at' = [at EXCEPT ![t] = Ready]
      /\ UNCHANGED <<contents, words, streams, built, waits, calls, capture_works, capturing, graph,
                     kept>>
  BY DEF Cuda!Return, Cuda!Ready, Cuda!memory, Cuda!capturevars, Ready
<1>2. MemoryInv' /\ StreamInv' /\ Q' = Q /\ W' = W  BY <1>1, CudaMemoryStays
<1>3. /\ at \in [Threads -> {Ready} \cup Launches \cup Begins \cup Ends \cup Asks]
      /\ \A u \in Threads : doing[u] # "idle" <=> at[u].step = "wait"
      /\ \A u, v \in Threads : at[u].step \notin {"ready", "wait"}
             /\ at[v].step \notin {"ready", "wait"} => u = v
      /\ doing \in [Threads -> {"idle", "download", "synchronize"}]
  BY DEF CudaInv, StepInv, ThreadInv
<1>4. /\ at'[t] = Ready /\ \A u \in Threads : u # t => at'[u] = at[u]
      /\ doing'[t] = "idle" /\ \A u \in Threads : u # t => doing'[u] = doing[u]
      /\ at' \in [Threads -> {Ready} \cup Launches \cup Begins \cup Ends \cup Asks]
      /\ doing' \in [Threads -> {"idle", "download", "synchronize"}]
  BY <1>1, <1>3
<1>5. StepInv'
  <2>1. \A u \in Threads : doing'[u] # "idle" <=> at'[u].step = "wait"  BY <1>3, <1>4 DEF Ready
  <2>2. \A u \in Threads : at'[u].step \notin {"ready", "wait"} => at[u].step \notin {"ready", "wait"}
    BY <1>4 DEF Ready
  <2> QED  BY <1>3, <1>4, <2>1, <2>2 DEF StepInv
<1>6. CaptureInv'
  <2>1. at[t].step = "wait"  BY <1>1, <1>3
  <2>2. \A u \in Threads : \A s \in {"launch", "begin", "end"} :
            (at'[u].step = s <=> at[u].step = s) /\ (at[u].step = s => at'[u] = at[u])
    BY <1>4, <2>1 DEF Ready
  <2>3. \A u \in Threads : Between(u)' <=> Between(u)  BY <2>2 DEF Between
  <2> QED  BY <1>1, <2>2, <2>3 DEF CudaInv, CaptureInv
<1>7. ThreadInv'
  <2>1. ASSUME NEW u \in Threads, doing'[u] # "idle"
        PROVE  at'[u].asked \in 0..calls /\ Awaits(Main, waits[u], at'[u].asked)
    <3>1. u # t /\ doing[u] # "idle"  BY <1>4, <2>1
    <3> QED  BY <1>4, <3>1 DEF CudaInv, ThreadInv
  <2> QED  BY <1>1, <1>4, <2>1 DEF CudaInv, ThreadInv, Main
<1>8. QueuedOnly(waits)[t] = {} /\ QueuedOnly(waits)' = QueuedOnly(waits)
  BY <1>1 DEF QueuedOnly
<1>9. Contract!Stream!Return(t)
  BY <1>1, <1>2, <1>8 DEF Contract!Stream!Return, OnCuda, OfBackend, Q, W, Main, Cuda!Main
<1>10. UNCHANGED Contract!captures
  BY <1>1 DEF Contract!captures, OnCuda, OfBackend, Cuda!Recording
<1> QED  BY <1>2, <1>5, <1>6, <1>7, <1>9, <1>10 DEF CudaInv

-----------------------------------------------------------------------------
(* CUDA: captures.                                                         *)

LEMMA CudaStreamStays ==
    ASSUME OnCuda, Q' = Q, W' = W, UNCHANGED <<contents, doing, waits, result, calls>>
    PROVE  UNCHANGED Contract!stream
BY DEF Contract!stream, OnCuda, OfBackend, Q, W, Main, Cuda!Main, QueuedOnly

\* The flag is set, and the device records for the contract if it can't capture;
\* if it can, when its capture stream begins.
LEMMA CudaBegin ==
    ASSUME CudaInv, OnCuda, ~Overlap, NEW t \in Threads, Cuda!begin_capture(t)
    PROVE  CudaInv' /\ (Contract!begin_capture(t) \/ UNCHANGED Contract!vars)
<1> DEFINE to == IF capture_works THEN [step |-> "begin"] ELSE Ready
<1>1. /\ doing[t] = "idle" /\ at[t] = Ready /\ ~capturing /\ capturing' = TRUE
      /\ at' = [at EXCEPT ![t] = to]
      /\ UNCHANGED <<contents, words, streams, built, doing, waits, result, calls, capture_works,
                     graph, kept>>
  BY DEF Cuda!begin_capture, Cuda!Idle, Cuda!Ready, Cuda!memory, Ready
<1>2. \A u \in Threads : at[u].step \in {"ready", "wait"}  BY CudaAlone DEF Cuda!begin_capture
<1>3. /\ to \in {Ready} \cup Begins
      /\ capture_works => to.step = "begin"
      /\ ~capture_works => to.step = "ready"
  BY DEF Begins, Ready
<1> HIDE DEF to
<1>4. /\ StepInv' /\ at'[t] = to /\ \A u \in Threads : u # t => at'[u] = at[u]
      /\ \A u \in Threads : doing[u] # "idle" => at'[u] = at[u]
  BY <1>1, <1>2, <1>3, CudaSteps
<1>5. MemoryInv' /\ StreamInv' /\ Q' = Q /\ W' = W  BY <1>1, CudaMemoryStays
<1>6. ThreadInv'  BY <1>1, <1>4, CudaThreadsStay
<1>7. \A u \in Threads : ~Between(u)  BY <1>2 DEF Between
<1>8. graph = None  BY <1>1, <1>7 DEF CudaInv, CaptureInv
<1>9. CaptureInv'
  <2>1. /\ capture_works' \in BOOLEAN /\ capturing' \in BOOLEAN
        /\ graph' = None \/ Runs(graph', built')
        /\ kept' \in [Captures -> Seq(Command) \cup {None}]
        /\ \A r \in Captures : kept'[r] = None \/ Runs(kept'[r], built')
        /\ ~capture_works' => graph' = None
    BY <1>1 DEF CudaInv, CaptureInv
  <2>2. capture_works => Between(t)'  BY <1>3, <1>4 DEF Between
  <2>3. \A u \in Threads : u # t => at'[u].step \in {"ready", "wait"}  BY <1>2, <1>4
  <2>4. \A u \in Threads :
          /\ at'[u].step # "launch" /\ at'[u].step # "end"
          /\ at'[u].step = "begin" => capturing' /\ graph' = None /\ capture_works'
    BY <1>1, <1>3, <1>4, <1>8, <2>3
  <2> QED  BY <1>1, <2>1, <2>2, <2>4 DEF CaptureInv
<1>10. UNCHANGED Contract!stream  BY <1>1, <1>5, CudaStreamStays
<1>11. CASE capture_works
  <2>1. Cuda!Recording' = Cuda!Recording  BY <1>1, <1>11 DEF Cuda!Recording
  <2> QED
    BY <1>1, <1>4, <1>5, <1>6, <1>9, <1>10, <2>1
       DEF CudaInv, Contract!vars, Contract!captures, OnCuda, OfBackend
<1>12. CASE ~capture_works
  <2>1. Cuda!Recording = None /\ Cuda!Recording' = <<>>  BY <1>1, <1>12 DEF Cuda!Recording
  <2>2. Contract!begin_capture(t)
    BY <1>1, <1>10, <2>1 DEF Contract!begin_capture, OnCuda, OfBackend
  <2> QED  BY <1>4, <1>5, <1>6, <1>9, <2>2 DEF CudaInv
<1> QED  BY <1>11, <1>12

LEMMA CudaBeginStream ==
    ASSUME CudaInv, OnCuda, NEW t \in Threads, Cuda!BeginStream(t)
    PROVE  CudaInv' /\ Contract!begin_capture(t)
<1>1. /\ at[t].step = "begin" /\ graph' = IF graph = None THEN <<>> ELSE graph
      /\ at' = [at EXCEPT ![t] = Ready]
      /\ UNCHANGED <<contents, words, streams, built, doing, waits, result, calls, capture_works,
                     capturing, kept>>
  BY DEF Cuda!BeginStream, Cuda!Ready, Cuda!memory, Ready
<1>2. capturing /\ graph = None /\ capture_works  BY <1>1 DEF CudaInv, CaptureInv
<1>3. doing[t] = "idle"  BY <1>1 DEF CudaInv, StepInv
<1>4. \A u \in Threads : u # t => at[u].step \in {"ready", "wait"}  BY <1>1 DEF CudaInv, StepInv
<1>5. /\ StepInv' /\ at'[t] = Ready /\ \A u \in Threads : u # t => at'[u] = at[u]
      /\ \A u \in Threads : doing[u] # "idle" => at'[u] = at[u]
  BY <1>1, <1>3, CudaSteps
<1>6. MemoryInv' /\ StreamInv' /\ Q' = Q /\ W' = W  BY <1>1, CudaMemoryStays
<1>7. ThreadInv'  BY <1>1, <1>5, CudaThreadsStay
<1>8. graph' = <<>> /\ graph' # None /\ Runs(graph', built)
  <2>1. <<>> \in Seq(Command)  BY EmptySeq
  <2> QED  BY <1>1, <1>2, <2>1, RunsEmpty, NoneAssumption
<1>9. CaptureInv'
  <2>1. /\ capture_works' \in BOOLEAN /\ capturing' \in BOOLEAN
        /\ kept' \in [Captures -> Seq(Command) \cup {None}]
        /\ \A r \in Captures : kept'[r] = None \/ Runs(kept'[r], built')
    BY <1>1 DEF CudaInv, CaptureInv
  <2>2. \A u \in Threads : at'[u].step \in {"ready", "wait"}  BY <1>4, <1>5 DEF Ready
  <2> QED  BY <1>1, <1>2, <1>8, <2>1, <2>2 DEF CaptureInv
<1>10. UNCHANGED Contract!stream  BY <1>1, <1>6, CudaStreamStays
<1>11. Cuda!Recording = None /\ Cuda!Recording' = <<>>  BY <1>1, <1>2, <1>8 DEF Cuda!Recording
<1>12. Contract!begin_capture(t)
  BY <1>1, <1>3, <1>10, <1>11 DEF Contract!begin_capture, OnCuda, OfBackend
<1> QED  BY <1>5, <1>6, <1>7, <1>9, <1>12 DEF CudaInv

\* The flag is cleared: a device that can't capture says so; one that can goes
\* on recording for the contract until its capture stream ends.
LEMMA CudaEnd ==
    ASSUME CudaInv, OnCuda, ~Overlap, NEW t \in Threads, NEW r \in Captures, Cuda!end_capture(t, r)
    PROVE  CudaInv' /\ (Contract!FailCapture(t) \/ UNCHANGED Contract!vars)
<1> DEFINE to == IF capture_works THEN [step |-> "end", into |-> r] ELSE Ready
<1>1. /\ doing[t] = "idle" /\ at[t] = Ready /\ capturing /\ kept[r] = None /\ capturing' = FALSE
      /\ at' = [at EXCEPT ![t] = to]
      /\ UNCHANGED <<contents, words, streams, built, doing, waits, result, calls, capture_works,
                     graph, kept>>
  BY DEF Cuda!end_capture, Cuda!Idle, Cuda!Ready, Cuda!memory, Ready
<1>2. \A u \in Threads : at[u].step \in {"ready", "wait"}  BY CudaAlone DEF Cuda!end_capture
<1>3. /\ to \in {Ready} \cup Ends
      /\ capture_works => to.step = "end" /\ to.into = r
      /\ ~capture_works => to.step = "ready"
  BY DEF Ends, Ready
<1> HIDE DEF to
<1>4. /\ StepInv' /\ at'[t] = to /\ \A u \in Threads : u # t => at'[u] = at[u]
      /\ \A u \in Threads : doing[u] # "idle" => at'[u] = at[u]
  BY <1>1, <1>2, <1>3, CudaSteps
<1>5. MemoryInv' /\ StreamInv' /\ Q' = Q /\ W' = W  BY <1>1, CudaMemoryStays
<1>6. ThreadInv'  BY <1>1, <1>4, CudaThreadsStay
<1>7. \A u \in Threads : ~Between(u)  BY <1>2 DEF Between
<1>8. capture_works => graph # None  BY <1>1, <1>7 DEF CudaInv, CaptureInv
<1>9. CaptureInv'
  <2>1. /\ capture_works' \in BOOLEAN /\ capturing' \in BOOLEAN
        /\ graph' = None \/ Runs(graph', built')
        /\ kept' \in [Captures -> Seq(Command) \cup {None}]
        /\ \A x \in Captures : kept'[x] = None \/ Runs(kept'[x], built')
        /\ ~capture_works' => graph' = None
    BY <1>1 DEF CudaInv, CaptureInv
  <2>2. capture_works => Between(t)'  BY <1>3, <1>4 DEF Between
  <2>3. \A u \in Threads : u # t => at'[u].step \in {"ready", "wait"}  BY <1>2, <1>4
  <2>4. \A u \in Threads :
          /\ at'[u].step # "launch" /\ at'[u].step # "begin"
          /\ at'[u].step = "end" =>
                ~capturing' /\ graph' # None /\ capture_works' /\ kept'[at'[u].into] = None
    BY <1>1, <1>3, <1>4, <1>8, <2>3
  <2> QED  BY <1>1, <2>1, <2>2, <2>4 DEF CaptureInv
<1>10. UNCHANGED Contract!stream  BY <1>1, <1>5, CudaStreamStays
<1>11. CASE capture_works
  <2>1. Cuda!Recording' = Cuda!Recording  BY <1>1, <1>11 DEF Cuda!Recording
  <2> QED
    BY <1>1, <1>4, <1>5, <1>6, <1>9, <1>10, <2>1
       DEF CudaInv, Contract!vars, Contract!captures, OnCuda, OfBackend
<1>12. CASE ~capture_works
  <2>1. Cuda!Recording = <<>> /\ Cuda!Recording' = None  BY <1>1, <1>12 DEF Cuda!Recording
  <2>2. <<>> # None
    <3>1. <<>> \in Seq(Command)  BY EmptySeq
    <3> QED  BY <3>1, NoneAssumption
  <2>3. Contract!FailCapture(t)
    BY <1>1, <1>10, <1>12, <2>1, <2>2 DEF Contract!FailCapture, OnCuda, OfBackend
  <2> QED  BY <1>4, <1>5, <1>6, <1>9, <2>3 DEF CudaInv
<1> QED  BY <1>11, <1>12

LEMMA CudaEndStream ==
    ASSUME CudaInv, OnCuda, NEW t \in Threads, Cuda!EndStream(t)
    PROVE  CudaInv' /\ \E r \in Captures : Contract!end_capture(t, r)
<1> DEFINE r == at[t].into
<1>1. /\ at[t].step = "end" /\ kept' = [kept EXCEPT ![r] = graph] /\ graph' = None
      /\ at' = [at EXCEPT ![t] = Ready]
      /\ UNCHANGED <<contents, words, streams, built, doing, waits, result, calls, capture_works,
                     capturing>>
  BY DEF Cuda!EndStream, Cuda!Ready, Cuda!memory, Ready
<1>2. ~capturing /\ graph # None /\ capture_works /\ kept[r] = None
  BY <1>1 DEF CudaInv, CaptureInv
<1>3. doing[t] = "idle" /\ r \in Captures
  BY <1>1 DEF CudaInv, StepInv, Ready, Launches, Begins, Ends, Asks
<1>4. \A u \in Threads : u # t => at[u].step \in {"ready", "wait"}  BY <1>1 DEF CudaInv, StepInv
<1>5. /\ StepInv' /\ at'[t] = Ready /\ \A u \in Threads : u # t => at'[u] = at[u]
      /\ \A u \in Threads : doing[u] # "idle" => at'[u] = at[u]
  BY <1>1, <1>3, CudaSteps
<1> HIDE DEF r
<1>6. MemoryInv' /\ StreamInv' /\ Q' = Q /\ W' = W  BY <1>1, CudaMemoryStays
<1>7. ThreadInv'  BY <1>1, <1>5, CudaThreadsStay
<1>8. CaptureInv'
  <2>1. /\ Runs(graph, built)
        /\ kept \in [Captures -> Seq(Command) \cup {None}]
        /\ \A x \in Captures : kept[x] = None \/ Runs(kept[x], built)
        /\ capture_works \in BOOLEAN /\ capturing \in BOOLEAN
    BY <1>2 DEF CudaInv, CaptureInv
  <2>2. graph \in Seq(Command)  BY <2>1 DEF Runs
  <2>3. kept' \in [Captures -> Seq(Command) \cup {None}]
        /\ \A x \in Captures : kept'[x] = IF x = r THEN graph ELSE kept[x]
    BY <1>1, <2>1, <2>2
  <2>4. \A u \in Threads : at'[u].step \in {"ready", "wait"}  BY <1>4, <1>5 DEF Ready
  <2> QED  BY <1>1, <1>2, <2>1, <2>3, <2>4 DEF CaptureInv
<1>9. UNCHANGED Contract!stream  BY <1>1, <1>6, CudaStreamStays
<1>10. Cuda!Recording = graph /\ Cuda!Recording' = None  BY <1>1, <1>2 DEF Cuda!Recording
<1>11. Contract!end_capture(t, r)
  BY <1>1, <1>2, <1>3, <1>9, <1>10 DEF Contract!end_capture, OnCuda, OfBackend
<1> QED  BY <1>3, <1>5, <1>6, <1>7, <1>8, <1>11 DEF CudaInv

\* A replay queues the recorded runs again, behind everything else.
LEMMA CudaReplay ==
    ASSUME CudaInv, OnCuda, NEW t \in Threads, NEW r \in Captures, Cuda!replay(t, r)
    PROVE  CudaInv' /\ Contract!replay(t, r)
<1> DEFINE again == Again(kept[r], calls')
           p == Main \o again
<1>1. /\ doing[t] = "idle" /\ calls < MaxCalls /\ calls' = calls + 1 /\ kept[r] # None
      /\ streams' = [streams EXCEPT !["main"] = @ \o again]
      /\ UNCHANGED <<contents, words, built, doing, waits, result, at, capture_works, capturing,
                     graph, kept>>
  BY SameForCuda
     DEF Cuda!replay, Cuda!Call, Cuda!Idle, Cuda!memory, Cuda!threadvars, Cuda!capturevars
<1>2. calls' \in 1..MaxCalls /\ calls' \in 0..MaxCalls /\ calls \in Nat
  BY <1>1, CudaCounts, CallsAssumption DEF CudaInv, MemoryInv
<1>3. Runs(kept[r], built)  BY <1>1 DEF CudaInv, CaptureInv
<1>4. Runs(again, built) /\ Apart(again) /\ \A c \in Elements(again) : Number(c) = calls'
  BY <1>2, <1>3, AgainRuns
<1>5. Contract!Again(kept[r], calls') = again  BY SameForContract
<1> HIDE DEF again
<1>6. again \in Seq(Command) /\ \A k \in DOMAIN again : Sound(again[k], built) /\ again[k].op # "new"
  BY <1>4 DEF Runs
<1>7. Main \in Seq(Command) /\ Ordered(Main, built) /\ Counted(Main, calls)
  BY DEF CudaInv, StreamInv, Main
<1>8. p \in Seq(Command)  BY <1>6, <1>7, ConcatProperties
<1>9. Ordered(p, built)  BY <1>6, <1>7, OrderedConcat
<1>10. Counted(p, calls + 1)
  <2>1. \A c \in Elements(again) : Number(c) = calls + 1  BY <1>1, <1>4
  <2> QED  BY <1>2, <1>4, <1>6, <1>7, <2>1, CountedConcat
<1>11. Elements(p) = Elements(Main) \cup Elements(again)  BY <1>6, <1>7, ElementsConcat
<1>12. WithoutNew(again) = again  BY <1>6, WithoutNewNone
<1>13. WithoutNew(p) = Q \o again
  <2>1. WithoutNew(Main \o again) = WithoutNew(Main) \o WithoutNew(again)
    BY <1>6, <1>7, WithoutNewConcat
  <2> QED  BY <1>12, <2>1 DEF Q
<1>14. NodeWords(p, words, built) = W  BY <1>6, <1>7, NodeWordsConcat DEF W
<1> HIDE DEF p
<1>15. Main' = p /\ streams' \in [{"main", "capture"} -> Seq(Command)] /\ streams'["capture"] = <<>>
  <2>1. streams' = [streams EXCEPT !["main"] = p]  BY <1>1 DEF p, Main, CudaInv, StreamInv
  <2> QED  BY <1>8, <2>1 DEF CudaInv, StreamInv, Main
<1>16. Q' = Q \o again /\ W' = W  BY <1>1, <1>13, <1>14, <1>15 DEF Q, W
<1>17. MemoryInv'  BY <1>1, <1>2 DEF CudaInv, MemoryInv
<1>18. StreamInv'  BY <1>1, <1>9, <1>10, <1>15 DEF CudaInv, StreamInv
<1>19. ThreadInv'  BY <1>1, <1>4, <1>11, <1>15, CudaStillWaits
<1>20. StepInv' /\ CaptureInv'  BY <1>1, CudaCaptureStays
<1>21. Contract!replay(t, r)
  BY <1>1, <1>5, <1>16
     DEF Contract!replay, Contract!Stream!Call, Contract!captures, OnCuda, OfBackend, Q, W, Main,
         Cuda!Main, Cuda!Recording, QueuedOnly
<1> QED  BY <1>17, <1>18, <1>19, <1>20, <1>21 DEF CudaInv

LEMMA CudaRelease ==
    ASSUME CudaInv, OnCuda, NEW t \in Threads, NEW r \in Captures, Cuda!release_capture(t, r)
    PROVE  CudaInv' /\ Contract!release_capture(t, r)
<1>1. /\ doing[t] = "idle" /\ kept[r] # None /\ kept' = [kept EXCEPT ![r] = None]
      /\ UNCHANGED <<contents, words, streams, built, doing, waits, result, at, calls, capture_works,
                     capturing, graph>>
  BY DEF Cuda!release_capture, Cuda!Idle, Cuda!memory, Cuda!threadvars
<1>2. MemoryInv' /\ StreamInv' /\ Q' = Q /\ W' = W  BY <1>1, CudaMemoryStays
<1>3. ThreadInv'  BY <1>1, CudaThreadsStay
<1>4. StepInv'  BY <1>1 DEF CudaInv, StepInv
<1>5. CaptureInv'
  <2>1. kept' \in [Captures -> Seq(Command) \cup {None}]
        /\ \A x \in Captures : kept'[x] = IF x = r THEN None ELSE kept[x]
    BY <1>1 DEF CudaInv, CaptureInv
  <2>2. \A u \in Threads : at[u].step = "end" => kept'[at[u].into] = None
    <3>1. ASSUME NEW u \in Threads, at[u].step = "end" PROVE at[u].into \in Captures
      BY <3>1 DEF CudaInv, StepInv, Ready, Launches, Begins, Ends, Asks
    <3>2. \A u \in Threads : at[u].step = "end" => kept[at[u].into] = None
      BY DEF CudaInv, CaptureInv
    <3> QED  BY <2>1, <3>1, <3>2
  <2> QED  BY <1>1, <2>1, <2>2 DEF CudaInv, CaptureInv, Between
<1>6. UNCHANGED Contract!stream  BY <1>1, <1>2, CudaStreamStays
<1>7. Contract!release_capture(t, r)
  BY <1>1, <1>6 DEF Contract!release_capture, OnCuda, OfBackend, Cuda!Recording
<1> QED  BY <1>2, <1>3, <1>4, <1>5, <1>7 DEF CudaInv

-----------------------------------------------------------------------------
(* CUDA: the device, and the whole of it.                                  *)

LEMMA CudaRuns ==
    ASSUME CudaInv, OnCuda, NEW s \in {"main", "capture"}, Cuda!RunCommand(s)
    PROVE  /\ CudaInv'
           /\ (Contract!Stream!RunCommand /\ UNCHANGED Contract!captures) \/ UNCHANGED Contract!vars
<1>1. s = "main"  BY DEF CudaInv, StreamInv, Cuda!RunCommand
<1> DEFINE q == Main
           c == Head(q)
<1>2. /\ q # <<>> /\ contents' = Contents(contents, words, c) /\ words' = MetaWords(words, c)
      /\ streams' = [streams EXCEPT !["main"] = Tail(@)]
      /\ waits' = [t \in Threads |-> waits[t] \ {c}]
      /\ UNCHANGED <<built, doing, result, calls, at, capture_works, capturing, graph, kept>>
  BY <1>1, SameForCuda DEF Cuda!RunCommand, Cuda!capturevars, Main
<1>3. /\ streams \in [{"main", "capture"} -> Seq(Command)] /\ q \in Seq(Command)
      /\ Ordered(q, built) /\ Counted(q, calls)
      /\ words \in [Nodes -> Words] /\ contents \in [Locations -> Values]
  BY DEF CudaInv, StreamInv, MemoryInv, Main
<1> DEFINE rest == Tail(q)
<1>4. rest \in Seq(Command) /\ Elements(q) = {c} \cup Elements(rest)
  BY <1>2, <1>3, HeadTailProperties, ElementsTail
<1>5. Ordered(rest, built) /\ Counted(rest, calls)  BY <1>2, <1>3, OrderedTail, CountedTail
<1>6. Main' = rest /\ streams' \in [{"main", "capture"} -> Seq(Command)] /\ streams'["capture"] = <<>>
  <2>1. streams' = [streams EXCEPT !["main"] = rest]  BY <1>2, <1>3 DEF Main
  <2> QED  BY <1>3, <1>4, <2>1 DEF CudaInv, StreamInv, Main
<1>7. Sound(c, built)  BY <1>2, <1>3, LenProperties, EmptySeq DEF Ordered
<1>8. \A t \in Threads : doing[t] # "idle" => Awaits(rest, waits[t] \ {c}, at[t].asked)
  <2>1. ASSUME NEW t \in Threads, doing[t] # "idle"
        PROVE  Awaits(rest, waits[t] \ {c}, at[t].asked)
    <3> DEFINE a == at[t].asked
    <3>1. Awaits(q, waits[t], a)  BY <2>1 DEF CudaInv, ThreadInv
    <3> HIDE DEF a, q
    <3> QED  BY <1>2, <1>3, <3>1, AwaitsTail DEF a
  <2> QED  BY <2>1
<1> HIDE DEF c, q, rest
<1>9. contents' \in [Locations -> Values] /\ words' \in [Nodes -> Words]
  BY <1>2, <1>3, <1>7, MemoryTypes
<1>10. MemoryInv' /\ StreamInv'
  BY <1>2, <1>5, <1>6, <1>9 DEF CudaInv, MemoryInv, StreamInv
<1>11. ThreadInv'
  <2>1. /\ doing \in [Threads -> {"idle", "download", "synchronize"}]
        /\ waits \in [Threads -> SUBSET Command]
        /\ \A t \in Threads : waits[t] \subseteq Elements(q)
        /\ \A t \in Threads : doing[t] # "idle" => at[t].asked \in 0..calls
    BY DEF CudaInv, ThreadInv, q
  <2>2. \A t \in Threads : waits'[t] = waits[t] \ {c}  BY <1>2
  <2>3. waits' \in [Threads -> SUBSET Command] /\ \A t \in Threads : waits'[t] \subseteq Elements(rest)
    BY <1>2, <1>4, <2>1
  <2> QED  BY <1>2, <1>6, <1>8, <2>1, <2>2, <2>3 DEF ThreadInv
<1>12. StepInv' /\ CaptureInv'  BY <1>2, CudaCaptureStays
<1>13. CudaInv'  BY <1>10, <1>11, <1>12 DEF CudaInv
<1>14. UNCHANGED Contract!captures
  BY <1>2 DEF Contract!captures, OnCuda, OfBackend, Cuda!Recording
<1>15. CASE c.op = "new"
  <2>1. NodeWords(rest, MetaWords(words, c), built) = NodeWords(q, words, built)
        /\ Contents(contents, words, c) = contents
    BY <1>2, <1>3, <1>15, NewRuns DEF rest, c
  <2>2. WithoutNew(rest) = WithoutNew(q)  BY <1>2, <1>3, <1>15, WithoutNewTail DEF rest, c
  <2>3. Q' = Q /\ W' = W /\ contents' = contents  BY <1>2, <1>6, <2>1, <2>2 DEF Q, W, q
  <2>4. QueuedOnly(waits)' = QueuedOnly(waits)  BY <1>2, <1>15 DEF QueuedOnly, Queued
  <2>5. UNCHANGED Contract!stream
    BY <1>2, <2>3, <2>4 DEF Contract!stream, OnCuda, OfBackend, Q, W, Main, Cuda!Main
  <2> QED  BY <1>13, <1>14, <2>5 DEF Contract!vars
<1>16. CASE c.op # "new"
  <2>1. NodeWords(rest, MetaWords(words, c), built) = MetaWords(NodeWords(q, words, built), c)
    BY <1>2, <1>3, <1>16, OldestRuns DEF rest, c
  <2>2. Contents(contents, words, c) = Contents(contents, NodeWords(q, words, built), c)
    BY <1>2, <1>3, <1>16, OldestRuns DEF c
  <2>3. /\ WithoutNew(q) # <<>> /\ Head(WithoutNew(q)) = c
        /\ Tail(WithoutNew(q)) = WithoutNew(rest)
    BY <1>2, <1>3, <1>16, WithoutNewTail DEF rest, c
  <2>4. Q # <<>> /\ Head(Q) = c /\ Q' = Tail(Q)  BY <1>6, <2>3 DEF Q, q
  <2>5. W' = MetaWords(W, c) /\ contents' = Contents(contents, W, c)
    BY <1>2, <1>6, <2>1, <2>2 DEF W, q
  <2>6. QueuedOnly(waits)' = [t \in Threads |-> QueuedOnly(waits)[t] \ {c}]
    BY <1>2 DEF QueuedOnly
  <2>7. Contract!Stream!RunCommand
    BY <1>2, <2>4, <2>5, <2>6, SameForContract
       DEF Contract!Stream!RunCommand, OnCuda, OfBackend, Q, W, Main, Cuda!Main
  <2> QED  BY <1>13, <1>14, <2>7
<1> QED  BY <1>15, <1>16

LEMMA CudaInit == Cuda!Init /\ backend = "cuda" => CudaInv /\ Contract!Init
<1> SUFFICES ASSUME Cuda!Init, backend = "cuda" PROVE CudaInv /\ Contract!Init  OBVIOUS
<1>1. /\ contents \in [Locations -> Values] /\ \A t \in Threads : contents[t] = Zero
      /\ words \in [Nodes -> Words] /\ streams = [s \in {"main", "capture"} |-> <<>>]
      /\ built \in SUBSET Nodes /\ doing = [t \in Threads |-> "idle"]
      /\ waits = [t \in Threads |-> {}] /\ result = None /\ calls = 0
      /\ capture_works \in BOOLEAN /\ capturing = FALSE /\ graph = None
      /\ kept = [r \in Captures |-> None] /\ at = [t \in Threads |-> Ready]
  BY SameForCuda DEF Cuda!Init, Cuda!Ready, Ready
<1>2. Main = <<>> /\ Main \in Seq(Command) /\ Elements(Main) = {}
  BY <1>1, EmptySeq DEF Main, Elements
<1>3. MemoryInv  BY <1>1, CallsAssumption DEF MemoryInv
<1>4. Ordered(Main, built) /\ Counted(Main, calls)  BY <1>2 DEF Ordered, Counted, Apart
<1>5. StreamInv
  <2>1. <<>> \in Seq(Command)  BY EmptySeq
  <2> QED  BY <1>1, <1>4, <2>1 DEF StreamInv
<1>6. ThreadInv  BY <1>1 DEF ThreadInv
<1>7. StepInv  BY <1>1 DEF StepInv, Ready
<1>8. CaptureInv  BY <1>1 DEF CaptureInv, Ready
<1>9. Q = <<>> /\ W \in [Nodes -> Words \cup {None}]
  BY <1>1, <1>2, <1>4, WithoutNewEmpty, NodeWordsType DEF Q, W
<1>10. QueuedOnly(waits) = [t \in Threads |-> {}]  BY <1>1 DEF QueuedOnly
<1>11. Contract!Stream!Init
  BY <1>1, <1>9, <1>10, SameForContract
     DEF Contract!Stream!Init, OfBackend, Q, W, Main, Cuda!Main
<1>12. Contract!Init  BY <1>1, <1>11 DEF Contract!Init, OfBackend, Cuda!Recording
<1> QED  BY <1>3, <1>5, <1>6, <1>7, <1>8, <1>12 DEF CudaInv

LEMMA CudaNext ==
    ASSUME CudaInv, OnCuda, ~Overlap, Cuda!Next
    PROVE  CudaInv' /\ [Contract!Next]_(Contract!vars)
<1>1. ASSUME NEW t \in Threads, NEW b \in Buffers, NEW v \in Values, Cuda!upload_raw(t, b, v)
      PROVE  CudaInv' /\ Contract!Next
  BY <1>1, CudaUpload DEF Contract!Next, Contract!Stream!Other
<1>2. ASSUME NEW t \in Threads, NEW a \in Buffers, NEW b \in Buffers, Cuda!copy_raw(t, a, b)
      PROVE  CudaInv' /\ Contract!Next
  BY <1>2, CudaCopy DEF Contract!Next, Contract!Stream!Other
<1>3. ASSUME NEW t \in Threads, NEW b \in Buffers, Cuda!clear_raw(t, b)
      PROVE  CudaInv' /\ Contract!Next
  BY <1>3, CudaClear DEF Contract!Next, Contract!Stream!Other
<1>4. ASSUME NEW t \in Threads, NEW b \in Buffers, Cuda!download_raw(t, b)
      PROVE  CudaInv' /\ Contract!Next
  BY <1>4, CudaDownload DEF Contract!Next, Contract!Stream!Other
<1>5. ASSUME NEW t \in Threads, NEW n \in Nodes, NEW w \in Words, Cuda!build_node(t, n, w)
      PROVE  CudaInv' /\ Contract!Next
  BY <1>5, CudaBuild DEF Contract!Next, Contract!Stream!Other
<1>6. ASSUME NEW t \in Threads, NEW n \in Nodes, NEW w \in Words, Cuda!update_meta(t, n, w)
      PROVE  CudaInv' /\ Contract!Next
  BY <1>6, CudaMeta DEF Contract!Next, Contract!Stream!Other
<1>7. ASSUME NEW t \in Threads, NEW n \in Nodes, NEW a \in Buffers, NEW b \in Buffers,
             Cuda!execute_raw(t, n, a, b)
      PROVE  CudaInv' /\ UNCHANGED Contract!vars
  BY <1>7, CudaExecute
<1>8. ASSUME NEW t \in Threads, Cuda!Launch(t) PROVE CudaInv' /\ Contract!Next
  BY <1>8, CudaLaunch DEF Contract!Next
<1>9. ASSUME NEW t \in Threads, Cuda!synchronize(t) PROVE CudaInv' /\ Contract!Next
  BY <1>9, CudaSynchronize DEF Contract!Next, Contract!Stream!Other
<1>10. ASSUME NEW t \in Threads, Cuda!Return(t) PROVE CudaInv' /\ Contract!Next
  BY <1>10, CudaReturn DEF Contract!Next, Contract!Stream!Other
<1>11. ASSUME NEW t \in Threads, Cuda!begin_capture(t)
       PROVE  CudaInv' /\ [Contract!Next]_(Contract!vars)
  BY <1>11, CudaBegin DEF Contract!Next
<1>12. ASSUME NEW t \in Threads, Cuda!BeginStream(t) PROVE CudaInv' /\ Contract!Next
  BY <1>12, CudaBeginStream DEF Contract!Next
<1>13. ASSUME NEW t \in Threads, Cuda!EndStream(t) PROVE CudaInv' /\ Contract!Next
  BY <1>13, CudaEndStream DEF Contract!Next
<1>14. ASSUME NEW t \in Threads, NEW r \in Captures, Cuda!end_capture(t, r)
       PROVE  CudaInv' /\ [Contract!Next]_(Contract!vars)
  BY <1>14, CudaEnd DEF Contract!Next
<1>15. ASSUME NEW t \in Threads, NEW r \in Captures, Cuda!replay(t, r)
       PROVE  CudaInv' /\ Contract!Next
  BY <1>15, CudaReplay DEF Contract!Next
<1>16. ASSUME NEW t \in Threads, NEW r \in Captures, Cuda!release_capture(t, r)
       PROVE  CudaInv' /\ Contract!Next
  BY <1>16, CudaRelease DEF Contract!Next
<1>17. ASSUME NEW s \in {"main", "capture"}, Cuda!RunCommand(s)
       PROVE  CudaInv' /\ [Contract!Next]_(Contract!vars)
  BY <1>17, CudaRuns DEF Contract!Next
<1> QED
  BY <1>1, <1>2, <1>3, <1>4, <1>5, <1>6, <1>7, <1>8, <1>9, <1>10, <1>11, <1>12, <1>13, <1>14,
     <1>15, <1>16, <1>17 DEF Cuda!Next

-----------------------------------------------------------------------------
(* The CPU: what it has to do is the contract's queue.                     *)

Built == {n \in Nodes : words[n] # None}
OnCpu == backend = "cpu" /\ backend' = "cpu"

Able(q) == q \in Seq(Command) /\ \A k \in DOMAIN q : Sound(q[k], Built) /\ q[k].op # "new"

CpuMemoryInv ==
    /\ contents \in [Locations -> Values] /\ words \in [Nodes -> Words \cup {None}]
    /\ calls \in 0..MaxCalls
    /\ doing \in [Threads -> {"idle", "download", "synchronize"}]
    /\ waits \in [Threads -> SUBSET Command]
    /\ \A t \in Threads : doing[t] = "idle" => waits[t] = {}
    /\ Able(work)

CpuCaptureInv ==
    /\ poisoned \in BOOLEAN
    /\ recording = None \/ Runs(recording, Built)
    /\ kept \in [Captures -> Seq(Command) \cup {None}]
    /\ \A r \in Captures : kept[r] = None \/ Runs(kept[r], Built)

CpuInv == CpuMemoryInv /\ CpuCaptureInv

LEMMA CpuTypes == CpuInv => Cpu!TypeOK
<1> SUFFICES ASSUME CpuInv PROVE Cpu!TypeOK  OBVIOUS
<1>1. recording \in Seq(Command) \cup {None}  BY DEF CpuInv, CpuCaptureInv, Runs
<1> QED
  BY <1>1, SameForCpu DEF CpuInv, CpuMemoryInv, CpuCaptureInv, Able, Cpu!TypeOK

LEMMA CpuCounts ==
    ASSUME CpuInv, calls < MaxCalls, calls' = calls + 1
    PROVE  calls' \in 1..MaxCalls /\ calls' \in Nat /\ calls' \in 0..MaxCalls
BY CallsAssumption DEF CpuInv, CpuMemoryInv

LEMMA CpuCapturesStay ==
    ASSUME CpuInv, Built \subseteq Built', UNCHANGED <<recording, poisoned, kept>>
    PROVE  CpuCaptureInv'
<1> DEFINE more == Built'
<1>1. Built \subseteq more  OBVIOUS
<1> HIDE DEF more
<1>2. recording = None \/ Runs(recording, more)  BY <1>1, RunsMore DEF CpuInv, CpuCaptureInv
<1>3. \A r \in Captures : kept[r] = None \/ Runs(kept[r], more)
  BY <1>1, RunsMore DEF CpuInv, CpuCaptureInv
<1> QED  BY <1>2, <1>3 DEF CpuInv, CpuCaptureInv, more

LEMMA OneCommand ==
    ASSUME NEW c, Sound(c, Built), c.op # "new"
    PROVE  Able(<<c>>) /\ Append(<<>>, c) = <<c>> /\ Elements(<<c>>) = {c}
<1>1. c \in Command  BY DEF Sound
<1>2. <<c>> \in Seq(Command) /\ Len(<<c>>) = 1 /\ <<c>>[1] = c /\ DOMAIN <<c>> = {1}  BY <1>1
<1>3. Elements(<<c>>) = {c}  BY <1>2 DEF Elements
<1> QED  BY <1>2, <1>3 DEF Able

LEMMA CpuDoes ==
    ASSUME CpuInv, OnCpu, NEW t \in Threads, NEW c, Sound(c, Built), c.op # "new", Cpu!Do(t, c)
    PROVE  CpuInv' /\ Contract!Stream!Enqueue(t, c) /\ UNCHANGED Contract!captures
<1>1. /\ doing[t] = "idle" /\ work = <<>> /\ calls < MaxCalls /\ calls' = calls + 1 /\ work' = <<c>>
      /\ UNCHANGED <<contents, words, doing, waits, result, recording, poisoned, kept>>
  BY DEF Cpu!Do, Cpu!Call, Cpu!Free, Cpu!memory, Cpu!threadvars, Cpu!capturevars
<1>2. Able(<<c>>) /\ Append(<<>>, c) = <<c>>  BY OneCommand
<1> DEFINE one == <<c>>
<1>3. Able(one) /\ work' = one /\ Append(work, c) = one  BY <1>1, <1>2
<1> HIDE DEF one
<1>4. Built' = Built  BY <1>1 DEF Built
<1>5. CpuMemoryInv'  BY <1>1, <1>3, <1>4, CpuCounts DEF CpuInv, CpuMemoryInv, Able
<1>6. CpuCaptureInv'  BY <1>1, <1>4, CpuCapturesStay
<1>7. Contract!Stream!Enqueue(t, c)
  BY <1>1, <1>3 DEF Contract!Stream!Enqueue, Contract!Stream!Call, OnCpu, OfBackend
<1>8. UNCHANGED Contract!captures  BY <1>1 DEF Contract!captures, OnCpu, OfBackend
<1> QED  BY <1>5, <1>6, <1>7, <1>8 DEF CpuInv

LEMMA CpuUpload ==
    ASSUME CpuInv, OnCpu, NEW t \in Threads, NEW b \in Buffers, NEW v \in Values,
           Cpu!upload_raw(t, b, v)
    PROVE  CpuInv' /\ Contract!Stream!upload_raw(t, b, v) /\ UNCHANGED Contract!captures
<1> DEFINE c == write(calls', b, v)
<1>1. Cpu!Do(t, c)  BY SameForCpu DEF Cpu!upload_raw
<1>2. calls' \in Nat  BY <1>1, CpuCounts DEF Cpu!Do, Cpu!Call
<1>3. Sound(c, Built) /\ c.op = "write"  BY <1>2, CommandTypes
<1>4. Contract!Stream!upload_raw(t, b, v) <=> Contract!Stream!Enqueue(t, c)
  BY SameForContract DEF Contract!Stream!upload_raw
<1> HIDE DEF c
<1> QED  BY <1>1, <1>3, <1>4, CpuDoes

LEMMA CpuCopy ==
    ASSUME CpuInv, OnCpu, NEW t \in Threads, NEW a \in Buffers, NEW b \in Buffers,
           Cpu!copy_raw(t, a, b)
    PROVE  CpuInv' /\ Contract!Stream!copy_raw(t, a, b) /\ UNCHANGED Contract!captures
<1> DEFINE c == copy(calls', a, b)
<1>1. a # b /\ Cpu!Do(t, c)  BY SameForCpu DEF Cpu!copy_raw
<1>2. calls' \in Nat  BY <1>1, CpuCounts DEF Cpu!Do, Cpu!Call
<1>3. Sound(c, Built) /\ c.op = "copy"  BY <1>2, CommandTypes DEF Locations
<1>4. Contract!Stream!copy_raw(t, a, b) <=> Contract!Stream!Enqueue(t, c)
  BY <1>1, SameForContract DEF Contract!Stream!copy_raw
<1> HIDE DEF c
<1> QED  BY <1>1, <1>3, <1>4, CpuDoes

LEMMA CpuClear ==
    ASSUME CpuInv, OnCpu, NEW t \in Threads, NEW b \in Buffers, Cpu!clear_raw(t, b)
    PROVE  CpuInv' /\ Contract!Stream!clear_raw(t, b) /\ UNCHANGED Contract!captures
<1> DEFINE c == clear(calls', b)
<1>1. Cpu!Do(t, c)  BY SameForCpu DEF Cpu!clear_raw
<1>2. calls' \in Nat  BY <1>1, CpuCounts DEF Cpu!Do, Cpu!Call
<1>3. Sound(c, Built) /\ c.op = "clear"  BY <1>2, CommandTypes
<1>4. Contract!Stream!clear_raw(t, b) <=> Contract!Stream!Enqueue(t, c)
  BY SameForContract DEF Contract!Stream!clear_raw
<1> HIDE DEF c
<1> QED  BY <1>1, <1>3, <1>4, CpuDoes

LEMMA CpuMeta ==
    ASSUME CpuInv, OnCpu, NEW t \in Threads, NEW n \in Nodes, NEW w \in Words,
           Cpu!update_meta(t, n, w)
    PROVE  CpuInv' /\ Contract!Stream!update_meta(t, n, w) /\ UNCHANGED Contract!captures
<1> DEFINE c == meta(calls', n, w)
<1>1. words[n] # None /\ Cpu!Do(t, c)  BY SameForCpu DEF Cpu!update_meta
<1>2. calls' \in Nat /\ n \in Built  BY <1>1, CpuCounts DEF Cpu!Do, Cpu!Call, Built
<1>3. Sound(c, Built) /\ c.op = "meta"  BY <1>2, CommandTypes
<1>4. Contract!Stream!update_meta(t, n, w) <=> Contract!Stream!Enqueue(t, c)
  BY <1>1, SameForContract DEF Contract!Stream!update_meta, OnCpu, OfBackend
<1> HIDE DEF c
<1> QED  BY <1>1, <1>3, <1>4, CpuDoes

LEMMA CpuBuild ==
    ASSUME CpuInv, OnCpu, NEW t \in Threads, NEW n \in Nodes, NEW w \in Words,
           Cpu!build_node(t, n, w)
    PROVE  CpuInv' /\ Contract!Stream!build_node(t, n, w) /\ UNCHANGED Contract!captures
<1>1. /\ doing[t] = "idle" /\ work = <<>> /\ calls < MaxCalls /\ calls' = calls + 1
      /\ words[n] = None /\ words' = [words EXCEPT ![n] = w]
      /\ UNCHANGED <<contents, doing, waits, result, work, recording, poisoned, kept>>
  BY DEF Cpu!build_node, Cpu!Call, Cpu!Free, Cpu!threadvars, Cpu!capturevars
<1>2. words' \in [Nodes -> Words \cup {None}] /\ Built \subseteq Built'
  BY <1>1 DEF CpuInv, CpuMemoryInv, Built
<1>3. \A k \in DOMAIN work : FALSE  BY <1>1, EmptySeq
<1>4. CpuMemoryInv'  BY <1>1, <1>2, <1>3, CpuCounts DEF CpuInv, CpuMemoryInv, Able
<1>5. CpuCaptureInv'  BY <1>1, <1>2, CpuCapturesStay
<1>6. Contract!Stream!build_node(t, n, w)
  BY <1>1 DEF Contract!Stream!build_node, Contract!Stream!Call, OnCpu, OfBackend
<1>7. UNCHANGED Contract!captures  BY <1>1 DEF Contract!captures, OnCpu, OfBackend
<1> QED  BY <1>4, <1>5, <1>6, <1>7 DEF CpuInv

\* Recorded, or done: as the contract has it.
LEMMA CpuExecute ==
    ASSUME CpuInv, OnCpu, NEW t \in Threads, NEW n \in Nodes, NEW a \in Buffers, NEW b \in Buffers,
           Cpu!execute_raw(t, n, a, b)
    PROVE  CpuInv' /\ Contract!execute_raw(t, n, a, b)
<1>1. words[n] # None /\ a # b /\ n \in Built  BY DEF Cpu!execute_raw, Built
<1>2. CASE recording = None /\ Cpu!Do(t, run(calls', n, a, b))
  <2> DEFINE c == run(calls', n, a, b)
  <2>1. calls' \in Nat  BY <1>2, CpuCounts DEF Cpu!Do, Cpu!Call
  <2>2. Sound(c, Built) /\ c.op = "run"  BY <1>1, <2>1, CommandTypes
  <2>3. Contract!Stream!execute_raw(t, n, a, b) <=> Contract!Stream!Enqueue(t, c)
    BY <1>1, SameForContract DEF Contract!Stream!execute_raw, OnCpu, OfBackend
  <2>4. Cpu!Do(t, c)  BY <1>2
  <2> HIDE DEF c
  <2>5. CpuInv' /\ Contract!Stream!Enqueue(t, c) /\ UNCHANGED Contract!captures
    BY <2>2, <2>4, CpuDoes
  <2> QED  BY <1>2, <2>3, <2>5 DEF Contract!execute_raw, OnCpu, OfBackend
<1>3. CASE /\ recording # None /\ Cpu!Free(t) /\ recording' = Append(recording, run(0, n, a, b))
           /\ UNCHANGED <<contents, words, doing, waits, result, calls, work, poisoned, kept>>
  <2> DEFINE c == run(0, n, a, b)
  <2>1. Sound(c, Built) /\ c.op = "run"  BY <1>1, CommandTypes
  <2>2. Contract!run(0, n, a, b) = c  BY SameForContract
  <2>3. Runs(recording, Built)  BY <1>3 DEF CpuInv, CpuCaptureInv
  <2>4. recording' = Append(recording, c)  BY <1>3
  <2> HIDE DEF c
  <2>5. Runs(recording', Built)
    <3>1. Runs(Append(recording, c), Built)  BY <2>1, <2>3, RunsAppend
    <3> QED  BY <2>4, <3>1
  <2>6. Built' = Built  BY <1>3 DEF Built
  <2>7. CpuCaptureInv'  BY <1>3, <2>5, <2>6 DEF CpuInv, CpuCaptureInv
  <2>8. CpuMemoryInv'  BY <1>3, <2>6 DEF CpuInv, CpuMemoryInv, Able
  <2>9. Contract!execute_raw(t, n, a, b)
    BY <1>1, <1>3, <2>2, <2>4 DEF Contract!execute_raw, Contract!stream, Cpu!Free, OnCpu, OfBackend
  <2> QED  BY <2>7, <2>8, <2>9 DEF CpuInv
<1> QED
  BY <1>2, <1>3, SameForCpu DEF Cpu!execute_raw, Cpu!memory, Cpu!threadvars

LEMMA CpuContractBlocks ==
    ASSUME OnCpu, NEW t, NEW what, doing' = [doing EXCEPT ![t] = what], NEW q, work' = q,
           NEW given, given = {c \in Elements(q) : Queued(c)}, waits' = [waits EXCEPT ![t] = given]
    PROVE  Contract!Stream!Block(t, what)
<1> DEFINE p == OfBackend(WithoutNew(Cuda!Main), work)'
           all == {p[k] : k \in {j \in DOMAIN p : Contract!Stream!Queued(p[j])}}
<1>1. p = q  BY DEF OnCpu, OfBackend
<1>2. OfBackend(QueuedOnly(waits), waits)' = waits' /\ OfBackend(QueuedOnly(waits), waits) = waits
  BY DEF OnCpu, OfBackend
<1>3. Contract!Stream!Block(t, what) <=>
          /\ doing' = [doing EXCEPT ![t] = what]
          /\ OfBackend(QueuedOnly(waits), waits)' = [OfBackend(QueuedOnly(waits), waits) EXCEPT ![t] = all]
  BY DEF Contract!Stream!Block
<1>4. all = {p[k] : k \in {j \in DOMAIN p : Queued(p[j])}}
  <2> HIDE DEF p
  <2> QED  BY SameForContract
<1> HIDE DEF all
<1>5. all = given
  <2>1. all = {q[k] : k \in {j \in DOMAIN q : Queued(q[j])}}  BY <1>1, <1>4
  <2> QED  BY <2>1 DEF Elements
<1> QED  BY <1>2, <1>3, <1>5

LEMMA CpuDownload ==
    ASSUME CpuInv, OnCpu, NEW t \in Threads, NEW b \in Buffers, Cpu!download_raw(t, b)
    PROVE  CpuInv' /\ Contract!Stream!download_raw(t, b) /\ UNCHANGED Contract!captures
<1> DEFINE c == copy(calls', b, t)
           one == <<c>>
<1>1. /\ doing[t] = "idle" /\ work = <<>> /\ calls < MaxCalls /\ calls' = calls + 1
      /\ work' = one /\ waits' = [waits EXCEPT ![t] = {c}]
      /\ doing' = [doing EXCEPT ![t] = "download"]
      /\ UNCHANGED <<contents, words, result, recording, poisoned, kept>>
  BY SameForCpu DEF Cpu!download_raw, Cpu!Call, Cpu!Free, Cpu!memory, Cpu!capturevars
<1>2. calls' \in Nat  BY <1>1, CpuCounts
<1>3. Sound(c, Built) /\ c.op = "copy"  BY <1>2, CommandTypes DEF Locations
<1>4. Contract!Stream!copy(calls', b, t) = c  BY SameForContract
<1> HIDE DEF c
<1>5. Able(one) /\ Append(<<>>, c) = one /\ Elements(one) = {c}  BY <1>3, OneCommand
<1> HIDE DEF one
<1>6. {c} = {d \in Elements(one) : Queued(d)}  BY <1>3, <1>5 DEF Queued
<1>7. Contract!Stream!Block(t, "download")  BY <1>1, <1>6, CpuContractBlocks
<1>8. Built' = Built  BY <1>1 DEF Built
<1>9. CpuMemoryInv'
  <2>1. c \in Command  BY <1>3 DEF Sound
  <2>2. /\ waits' \in [Threads -> SUBSET Command]
        /\ doing' \in [Threads -> {"idle", "download", "synchronize"}]
        /\ \A u \in Threads : doing'[u] = "idle" => waits'[u] = {}
    BY <1>1, <2>1 DEF CpuInv, CpuMemoryInv
  <2> QED  BY <1>1, <1>5, <1>8, <2>2, CpuCounts DEF CpuInv, CpuMemoryInv, Able
<1>10. CpuCaptureInv'  BY <1>1, <1>8, CpuCapturesStay
<1>11. Contract!Stream!download_raw(t, b)
  BY <1>1, <1>4, <1>5, <1>7 DEF Contract!Stream!download_raw, Contract!Stream!Call, OnCpu, OfBackend
<1>12. UNCHANGED Contract!captures  BY <1>1 DEF Contract!captures, OnCpu, OfBackend
<1> QED  BY <1>9, <1>10, <1>11, <1>12 DEF CpuInv

LEMMA CpuSynchronize ==
    ASSUME CpuInv, OnCpu, NEW t \in Threads, Cpu!synchronize(t)
    PROVE  CpuInv' /\ Contract!Stream!synchronize(t) /\ UNCHANGED Contract!captures
<1>1. /\ doing[t] = "idle" /\ work = <<>> /\ calls < MaxCalls /\ calls' = calls + 1
      /\ doing' = [doing EXCEPT ![t] = "synchronize"]
      /\ UNCHANGED <<contents, words, waits, result, work, recording, poisoned, kept>>
  BY DEF Cpu!synchronize, Cpu!Call, Cpu!Free, Cpu!memory, Cpu!capturevars
<1>2. waits[t] = {} /\ waits \in [Threads -> SUBSET Command]
      /\ doing \in [Threads -> {"idle", "download", "synchronize"}]
  BY <1>1 DEF CpuInv, CpuMemoryInv
<1>3. Contract!Stream!Block(t, "synchronize")
  <2>1. {} = {c \in Elements(<<>>) : Queued(c)}  BY EmptySeq DEF Elements
  <2>2. waits' = [waits EXCEPT ![t] = {}]  BY <1>1, <1>2
  <2> DEFINE none == <<>>
  <2>3. {} = {c \in Elements(none) : Queued(c)} /\ work' = none  BY <1>1, <2>1
  <2> HIDE DEF none
  <2> QED  BY <1>1, <2>2, <2>3, CpuContractBlocks
<1>4. Built' = Built  BY <1>1 DEF Built
<1>5. CpuMemoryInv'
  <2>1. /\ doing' \in [Threads -> {"idle", "download", "synchronize"}]
        /\ \A u \in Threads : doing'[u] = "idle" => waits'[u] = {}
    BY <1>1, <1>2 DEF CpuInv, CpuMemoryInv
  <2> QED  BY <1>1, <1>4, <2>1, CpuCounts DEF CpuInv, CpuMemoryInv, Able
<1>6. CpuCaptureInv'  BY <1>1, <1>4, CpuCapturesStay
<1>7. Contract!Stream!synchronize(t)
  BY <1>1, <1>3 DEF Contract!Stream!synchronize, Contract!Stream!Call, OnCpu, OfBackend
<1>8. UNCHANGED Contract!captures  BY <1>1 DEF Contract!captures, OnCpu, OfBackend
<1> QED  BY <1>5, <1>6, <1>7, <1>8 DEF CpuInv

LEMMA CpuReturn ==
    ASSUME CpuInv, OnCpu, NEW t \in Threads, Cpu!Return(t)
    PROVE  CpuInv' /\ Contract!Stream!Return(t) /\ UNCHANGED Contract!captures
<1>1. /\ doing[t] # "idle" /\ waits[t] = {} /\ doing' = [doing EXCEPT ![t] = "idle"]
      /\ result' = IF doing[t] = "download" THEN contents[t] ELSE result
      /\ UNCHANGED <<contents, words, waits, calls, work, recording, poisoned, kept>>
  BY DEF Cpu!Return, Cpu!memory, Cpu!capturevars
<1>2. Built' = Built  BY <1>1 DEF Built
<1>3. CpuMemoryInv'
  <2>1. /\ doing' \in [Threads -> {"idle", "download", "synchronize"}]
        /\ \A u \in Threads : doing'[u] = "idle" => waits'[u] = {}
    BY <1>1 DEF CpuInv, CpuMemoryInv
  <2> QED  BY <1>1, <1>2, <2>1 DEF CpuInv, CpuMemoryInv, Able
<1>4. CpuCaptureInv'  BY <1>1, <1>2, CpuCapturesStay
<1>5. Contract!Stream!Return(t)  BY <1>1 DEF Contract!Stream!Return, OnCpu, OfBackend
<1>6. UNCHANGED Contract!captures  BY <1>1 DEF Contract!captures, OnCpu, OfBackend
<1> QED  BY <1>3, <1>4, <1>5, <1>6 DEF CpuInv

LEMMA CpuStreamStays ==
    ASSUME CpuInv, OnCpu, UNCHANGED <<contents, words, doing, waits, result, calls, work>>
    PROVE  UNCHANGED Contract!stream /\ CpuMemoryInv' /\ Built' = Built
<1>1. Built' = Built  BY DEF Built
<1> QED  BY <1>1 DEF CpuInv, CpuMemoryInv, Able, Contract!stream, OnCpu, OfBackend

\* A second begin_capture poisons the mutex, and the contract sees nothing of it.
LEMMA CpuBegin ==
    ASSUME CpuInv, OnCpu, NEW t \in Threads, Cpu!begin_capture(t)
    PROVE  CpuInv' /\ (Contract!begin_capture(t) \/ UNCHANGED Contract!vars)
<1>1. /\ doing[t] = "idle" /\ recording' = IF recording = None THEN <<>> ELSE recording
      /\ poisoned' = (recording # None)
      /\ UNCHANGED <<contents, words, doing, waits, result, calls, work, kept>>
  BY DEF Cpu!begin_capture, Cpu!Free, Cpu!memory, Cpu!threadvars
<1>2. UNCHANGED Contract!stream /\ CpuMemoryInv' /\ Built' = Built  BY <1>1, CpuStreamStays
<1>3. CpuCaptureInv'
  <2>1. Runs(<<>>, Built)  BY RunsEmpty
  <2>2. recording' = None \/ Runs(recording', Built)  BY <1>1, <2>1 DEF CpuInv, CpuCaptureInv
  <2>3. poisoned' \in BOOLEAN  BY <1>1
  <2> QED  BY <1>1, <1>2, <2>2, <2>3 DEF CpuInv, CpuCaptureInv
<1>4. CASE recording = None
  <2>1. Contract!begin_capture(t)
    BY <1>1, <1>2, <1>4 DEF Contract!begin_capture, OnCpu, OfBackend
  <2> QED  BY <1>2, <1>3, <2>1 DEF CpuInv
<1>5. CASE recording # None
  <2>1. UNCHANGED Contract!vars
    BY <1>1, <1>2, <1>5 DEF Contract!vars, Contract!captures, OnCpu, OfBackend
  <2> QED  BY <1>2, <1>3, <2>1 DEF CpuInv
<1> QED  BY <1>4, <1>5

LEMMA CpuEnd ==
    ASSUME CpuInv, OnCpu, NEW t \in Threads, NEW r \in Captures, Cpu!end_capture(t, r)
    PROVE  CpuInv' /\ Contract!end_capture(t, r)
<1>1. /\ doing[t] = "idle" /\ recording # None /\ kept[r] = None
      /\ kept' = [kept EXCEPT ![r] = recording] /\ recording' = None
      /\ UNCHANGED <<contents, words, doing, waits, result, calls, work, poisoned>>
  BY DEF Cpu!end_capture, Cpu!Free, Cpu!memory, Cpu!threadvars
<1>2. UNCHANGED Contract!stream /\ CpuMemoryInv' /\ Built' = Built  BY <1>1, CpuStreamStays
<1>3. CpuCaptureInv'
  <2>1. Runs(recording, Built) /\ kept \in [Captures -> Seq(Command) \cup {None}]
        /\ \A x \in Captures : kept[x] = None \/ Runs(kept[x], Built)
    BY <1>1 DEF CpuInv, CpuCaptureInv
  <2>2. recording \in Seq(Command)  BY <2>1 DEF Runs
  <2>3. kept' \in [Captures -> Seq(Command) \cup {None}]
        /\ \A x \in Captures : kept'[x] = IF x = r THEN recording ELSE kept[x]
    BY <1>1, <2>1, <2>2
  <2> QED  BY <1>1, <1>2, <2>1, <2>3 DEF CpuInv, CpuCaptureInv
<1>4. Contract!end_capture(t, r)
  BY <1>1, <1>2 DEF Contract!end_capture, OnCpu, OfBackend
<1> QED  BY <1>2, <1>3, <1>4 DEF CpuInv

LEMMA CpuReplay ==
    ASSUME CpuInv, OnCpu, NEW t \in Threads, NEW r \in Captures, Cpu!replay(t, r)
    PROVE  CpuInv' /\ Contract!replay(t, r)
<1> DEFINE again == Again(kept[r], calls')
<1>1. /\ doing[t] = "idle" /\ work = <<>> /\ calls < MaxCalls /\ calls' = calls + 1 /\ kept[r] # None
      /\ work' = again
      /\ UNCHANGED <<contents, words, doing, waits, result, recording, poisoned, kept>>
  BY SameForCpu DEF Cpu!replay, Cpu!Call, Cpu!Free, Cpu!memory, Cpu!threadvars, Cpu!capturevars
<1>2. calls' \in 1..MaxCalls /\ calls' \in 0..MaxCalls  BY <1>1, CpuCounts
<1>3. Runs(kept[r], Built)  BY <1>1 DEF CpuInv, CpuCaptureInv
<1>4. Runs(again, Built)  BY <1>2, <1>3, AgainRuns
<1>5. Contract!Again(kept[r], calls') = again  BY SameForContract
<1> HIDE DEF again
<1>6. Able(again) /\ again \in Seq(Command)  BY <1>4 DEF Runs, Able
<1>7. work \o again = again  BY <1>1, <1>6, ConcatEmptySeq
<1>8. Built' = Built  BY <1>1 DEF Built
<1>9. CpuMemoryInv'  BY <1>1, <1>2, <1>6, <1>8 DEF CpuInv, CpuMemoryInv, Able
<1>10. CpuCaptureInv'  BY <1>1, <1>8, CpuCapturesStay
<1>11. Contract!replay(t, r)
  BY <1>1, <1>5, <1>7
     DEF Contract!replay, Contract!Stream!Call, Contract!captures, OnCpu, OfBackend
<1> QED  BY <1>9, <1>10, <1>11 DEF CpuInv

LEMMA CpuRelease ==
    ASSUME CpuInv, OnCpu, NEW t \in Threads, NEW r \in Captures, Cpu!release_capture(t, r)
    PROVE  CpuInv' /\ Contract!release_capture(t, r)
<1>1. /\ doing[t] = "idle" /\ kept[r] # None /\ kept' = [kept EXCEPT ![r] = None]
      /\ UNCHANGED <<contents, words, doing, waits, result, calls, work, recording, poisoned>>
  BY DEF Cpu!release_capture, Cpu!Free, Cpu!memory, Cpu!threadvars
<1>2. UNCHANGED Contract!stream /\ CpuMemoryInv' /\ Built' = Built  BY <1>1, CpuStreamStays
<1>3. CpuCaptureInv'
  <2>1. kept' \in [Captures -> Seq(Command) \cup {None}]
        /\ \A x \in Captures : kept'[x] = IF x = r THEN None ELSE kept[x]
    BY <1>1 DEF CpuInv, CpuCaptureInv
  <2> QED  BY <1>1, <1>2, <2>1 DEF CpuInv, CpuCaptureInv
<1>4. Contract!release_capture(t, r)
  BY <1>1, <1>2 DEF Contract!release_capture, OnCpu, OfBackend
<1> QED  BY <1>2, <1>3, <1>4 DEF CpuInv

\* What a command does where only the built nodes have words.
LEMMA CpuMemoryTypes ==
    ASSUME CpuInv, NEW c, Sound(c, Built)
    PROVE  /\ Contents(contents, words, c) \in [Locations -> Values]
           /\ MetaWords(words, c) \in [Nodes -> Words \cup {None}]
           /\ \A n \in Built : MetaWords(words, c)[n] # None
<1> DEFINE all == [n \in Nodes |-> IF words[n] = None THEN Zero ELSE words[n]]
<1>1. words \in [Nodes -> Words \cup {None}] /\ contents \in [Locations -> Values]
  BY DEF CpuInv, CpuMemoryInv
<1>2. all \in [Nodes -> Words] /\ \A n \in Built : all[n] = words[n]
  BY <1>1, ZeroAssumption DEF Built
<1> HIDE DEF all
<1>3. Contents(contents, all, c) = Contents(contents, words, c)
  <2>1. c.op = "run" => words[c.node] = all[c.node]
    BY <1>2, NoneAssumption DEF Sound, WellFormed
  <2> QED  BY <2>1 DEF Contents
<1>4. Contents(contents, all, c) \in [Locations -> Values]  BY <1>1, <1>2, MemoryTypes
<1>5. c.op \in {"meta", "new"} => c.node \in Nodes /\ c.value \in Words  BY DEF Sound, WellFormed
<1>6. MetaWords(words, c) \in [Nodes -> Words \cup {None}]  BY <1>1, <1>5 DEF MetaWords
<1>7. \A n \in Built : MetaWords(words, c)[n] # None
  <2>1. None \notin Words  BY NoneAssumption
  <2> QED  BY <1>1, <1>5, <2>1 DEF MetaWords, Built
<1> QED  BY <1>3, <1>4, <1>6, <1>7

LEMMA CpuWorks ==
    ASSUME CpuInv, OnCpu, Cpu!Work
    PROVE  CpuInv' /\ Contract!Stream!RunCommand /\ UNCHANGED Contract!captures
<1> DEFINE q == work
           c == Head(q)
           rest == Tail(q)
<1>1. /\ q # <<>> /\ contents' = Contents(contents, words, c) /\ words' = MetaWords(words, c)
      /\ work' = rest /\ waits' = [t \in Threads |-> waits[t] \ {c}]
      /\ UNCHANGED <<doing, result, calls, recording, poisoned, kept>>
  BY SameForCpu DEF Cpu!Work, Cpu!capturevars
<1>2. q \in Seq(Command) /\ \A k \in DOMAIN q : Sound(q[k], Built) /\ q[k].op # "new"
  BY DEF CpuInv, CpuMemoryInv, Able
<1> HIDE DEF q
<1>3. /\ rest \in Seq(Command) /\ DOMAIN q = 1..Len(q) /\ DOMAIN rest = 1..(Len(q) - 1)
      /\ Len(q) \in Nat \ {0} /\ c = q[1] /\ \A k \in 1..(Len(q) - 1) : rest[k] = q[k + 1]
  BY <1>1, <1>2, HeadTailProperties, LenProperties, EmptySeq
<1> HIDE DEF c, rest
<1>4. Sound(c, Built)  BY <1>2, <1>3
<1>5. \A k \in DOMAIN rest : Sound(rest[k], Built) /\ rest[k].op # "new"  BY <1>2, <1>3
<1>6. /\ contents' \in [Locations -> Values] /\ words' \in [Nodes -> Words \cup {None}]
      /\ Built \subseteq Built'
  <2>1. /\ Contents(contents, words, c) \in [Locations -> Values]
        /\ MetaWords(words, c) \in [Nodes -> Words \cup {None}]
        /\ \A n \in Built : MetaWords(words, c)[n] # None
    BY <1>4, CpuMemoryTypes
  <2> QED  BY <1>1, <2>1 DEF Built
<1>7. Able(work)'  BY <1>1, <1>3, <1>5, <1>6 DEF Able, Sound
<1>8. CpuMemoryInv'
  <2>1. waits' \in [Threads -> SUBSET Command] /\ \A t \in Threads : doing[t] = "idle" => waits'[t] = {}
    BY <1>1 DEF CpuInv, CpuMemoryInv
  <2> QED  BY <1>1, <1>6, <1>7, <2>1 DEF CpuInv, CpuMemoryInv
<1>9. CpuCaptureInv'  BY <1>1, <1>6, CpuCapturesStay
<1>10. Contract!Stream!RunCommand
  BY <1>1, SameForContract DEF Contract!Stream!RunCommand, OnCpu, OfBackend, q, c, rest
<1>11. UNCHANGED Contract!captures  BY <1>1 DEF Contract!captures, OnCpu, OfBackend
<1> QED  BY <1>8, <1>9, <1>10, <1>11 DEF CpuInv

LEMMA CpuInit ==
    Cpu!Init /\ CudaUnused /\ backend = "cpu" => CpuInv /\ Contract!Init
<1> SUFFICES ASSUME Cpu!Init, backend = "cpu" PROVE CpuInv /\ Contract!Init  OBVIOUS
<1>1. /\ contents \in [Locations -> Values] /\ \A t \in Threads : contents[t] = Zero
      /\ words \in [Nodes -> Words \cup {None}] /\ doing = [t \in Threads |-> "idle"]
      /\ waits = [t \in Threads |-> {}] /\ result = None /\ calls = 0 /\ work = <<>>
      /\ recording = None /\ poisoned = FALSE /\ kept = [r \in Captures |-> None]
  BY SameForCpu DEF Cpu!Init
<1>2. Able(work)
  <2>1. work \in Seq(Command) /\ \A k \in DOMAIN work : FALSE  BY <1>1, EmptySeq
  <2> QED  BY <2>1 DEF Able
<1>3. CpuMemoryInv  BY <1>1, <1>2, CallsAssumption DEF CpuMemoryInv
<1>4. CpuCaptureInv  BY <1>1 DEF CpuCaptureInv
<1>5. Contract!Stream!Init  BY <1>1, SameForContract DEF Contract!Stream!Init, OfBackend
<1>6. Contract!Init  BY <1>1, <1>5 DEF Contract!Init, OfBackend
<1> QED  BY <1>3, <1>4, <1>6 DEF CpuInv

LEMMA CpuNext ==
    ASSUME CpuInv, OnCpu, Cpu!Next
    PROVE  CpuInv' /\ [Contract!Next]_(Contract!vars)
<1>1. ASSUME NEW t \in Threads, NEW b \in Buffers, NEW v \in Values, Cpu!upload_raw(t, b, v)
      PROVE  CpuInv' /\ Contract!Next
  BY <1>1, CpuUpload DEF Contract!Next, Contract!Stream!Other
<1>2. ASSUME NEW t \in Threads, NEW a \in Buffers, NEW b \in Buffers, Cpu!copy_raw(t, a, b)
      PROVE  CpuInv' /\ Contract!Next
  BY <1>2, CpuCopy DEF Contract!Next, Contract!Stream!Other
<1>3. ASSUME NEW t \in Threads, NEW b \in Buffers, Cpu!clear_raw(t, b)
      PROVE  CpuInv' /\ Contract!Next
  BY <1>3, CpuClear DEF Contract!Next, Contract!Stream!Other
<1>4. ASSUME NEW t \in Threads, NEW b \in Buffers, Cpu!download_raw(t, b)
      PROVE  CpuInv' /\ Contract!Next
  BY <1>4, CpuDownload DEF Contract!Next, Contract!Stream!Other
<1>5. ASSUME NEW t \in Threads, NEW n \in Nodes, NEW w \in Words, Cpu!build_node(t, n, w)
      PROVE  CpuInv' /\ Contract!Next
  BY <1>5, CpuBuild DEF Contract!Next, Contract!Stream!Other
<1>6. ASSUME NEW t \in Threads, NEW n \in Nodes, NEW w \in Words, Cpu!update_meta(t, n, w)
      PROVE  CpuInv' /\ Contract!Next
  BY <1>6, CpuMeta DEF Contract!Next, Contract!Stream!Other
<1>7. ASSUME NEW t \in Threads, NEW n \in Nodes, NEW a \in Buffers, NEW b \in Buffers,
             Cpu!execute_raw(t, n, a, b)
      PROVE  CpuInv' /\ Contract!Next
  BY <1>7, CpuExecute DEF Contract!Next
<1>8. ASSUME NEW t \in Threads, Cpu!synchronize(t) PROVE CpuInv' /\ Contract!Next
  BY <1>8, CpuSynchronize DEF Contract!Next, Contract!Stream!Other
<1>9. ASSUME NEW t \in Threads, Cpu!Return(t) PROVE CpuInv' /\ Contract!Next
  BY <1>9, CpuReturn DEF Contract!Next, Contract!Stream!Other
<1>10. ASSUME NEW t \in Threads, Cpu!begin_capture(t)
       PROVE  CpuInv' /\ [Contract!Next]_(Contract!vars)
  BY <1>10, CpuBegin DEF Contract!Next
<1>11. ASSUME NEW t \in Threads, NEW r \in Captures, Cpu!end_capture(t, r)
       PROVE  CpuInv' /\ Contract!Next
  BY <1>11, CpuEnd DEF Contract!Next
<1>12. ASSUME NEW t \in Threads, NEW r \in Captures, Cpu!replay(t, r)
       PROVE  CpuInv' /\ Contract!Next
  BY <1>12, CpuReplay DEF Contract!Next
<1>13. ASSUME NEW t \in Threads, NEW r \in Captures, Cpu!release_capture(t, r)
       PROVE  CpuInv' /\ Contract!Next
  BY <1>13, CpuRelease DEF Contract!Next
<1>14. ASSUME Cpu!Work PROVE CpuInv' /\ Contract!Next
  BY <1>14, CpuWorks DEF Contract!Next
<1> QED
  BY <1>1, <1>2, <1>3, <1>4, <1>5, <1>6, <1>7, <1>8, <1>9, <1>10, <1>11, <1>12, <1>13, <1>14
     DEF Cpu!Next

-----------------------------------------------------------------------------
(* Either device.                                                          *)

DeviceInv ==
    \/ backend = "cuda" /\ CudaInv
    \/ backend = "cpu" /\ CpuInv /\ streams = [s \in {"main", "capture"} |-> <<>>]

LEMMA DeviceInit == Init => DeviceInv /\ Contract!Init
<1> SUFFICES ASSUME Init PROVE DeviceInv /\ Contract!Init  OBVIOUS
<1>1. CASE backend = "cuda"  BY <1>1, CudaInit DEF Init, DeviceInv
<1>2. CASE backend = "cpu"
  <2>1. Cpu!Init /\ CudaUnused  BY <1>2 DEF Init
  <2>2. streams = [s \in {"main", "capture"} |-> <<>>]  BY <2>1 DEF CudaUnused
  <2> QED  BY <1>2, <2>1, <2>2, CpuInit DEF DeviceInv
<1> QED  BY <1>1, <1>2, BackendsAssumption DEF Init

LEMMA DeviceNext ==
    ASSUME ~Overlap
    PROVE  DeviceInv /\ [Next]_vars => DeviceInv' /\ [Contract!Next]_(Contract!vars)
<1> SUFFICES ASSUME DeviceInv, [Next]_vars
             PROVE  DeviceInv' /\ [Contract!Next]_(Contract!vars)
  OBVIOUS
<1>1. CASE backend = "cuda" /\ Cuda!Next /\ UNCHANGED <<backend, cpuvars>>
  <2>1. OnCuda /\ CudaInv  BY <1>1 DEF OnCuda, DeviceInv
  <2>2. CudaInv' /\ [Contract!Next]_(Contract!vars)  BY <1>1, <2>1, CudaNext
  <2> QED  BY <2>1, <2>2 DEF OnCuda, DeviceInv
<1>2. CASE backend = "cpu" /\ Cpu!Next /\ UNCHANGED <<backend, cudavars>>
  <2>1. OnCpu /\ CpuInv  BY <1>2 DEF OnCpu, DeviceInv
  <2>2. CpuInv' /\ [Contract!Next]_(Contract!vars)  BY <1>2, <2>1, CpuNext
  <2>3. streams' = [s \in {"main", "capture"} |-> <<>>]  BY <1>2 DEF DeviceInv, cudavars
  <2> QED  BY <2>1, <2>2, <2>3 DEF OnCpu, DeviceInv
<1>3. CASE UNCHANGED vars
  <2>1. UNCHANGED <<backend, contents, words, doing, waits, result, calls, kept, streams, built,
                    capture_works, capturing, graph, at, work, recording, poisoned>>
    BY <1>3 DEF vars, cudavars, cpuvars
  <2>2. CASE backend = "cuda" /\ CudaInv
    <3>1. MemoryInv' /\ StreamInv' /\ ThreadInv' /\ Q' = Q /\ W' = W
      BY <2>1, <2>2, CudaMemoryStays, CudaThreadsStay
    <3>2. StepInv' /\ CaptureInv'  BY <2>1, <2>2, CudaCaptureStays
    <3>3. OnCuda  BY <2>1, <2>2 DEF OnCuda
    <3>4. UNCHANGED Contract!stream  BY <2>1, <3>1, <3>3, CudaStreamStays
    <3>5. UNCHANGED Contract!vars
      BY <2>1, <3>3, <3>4 DEF Contract!vars, Contract!captures, OnCuda, OfBackend, Cuda!Recording
    <3> QED  BY <3>1, <3>2, <3>3, <3>5 DEF DeviceInv, CudaInv, OnCuda
  <2>3. CASE backend = "cpu" /\ CpuInv /\ streams = [s \in {"main", "capture"} |-> <<>>]
    <3>1. OnCpu  BY <2>1, <2>3 DEF OnCpu
    <3>2. UNCHANGED Contract!stream /\ CpuMemoryInv' /\ Built' = Built
      BY <2>1, <2>3, <3>1, CpuStreamStays
    <3>3. CpuCaptureInv'  BY <2>1, <2>3, <3>2, CpuCapturesStay
    <3>4. UNCHANGED Contract!vars
      BY <2>1, <3>1, <3>2 DEF Contract!vars, Contract!captures, OnCpu, OfBackend
    <3> QED  BY <2>1, <2>3, <3>1, <3>2, <3>3, <3>4 DEF DeviceInv, CpuInv, OnCpu
  <2> QED  BY <2>2, <2>3 DEF DeviceInv
<1> QED  BY <1>1, <1>2, <1>3 DEF Next

\* The types of either device.
THEOREM DevicesTyped == ASSUME ~Overlap PROVE Spec => []TypeOK
<1>1. Init => DeviceInv  BY DeviceInit
<1>2. DeviceInv /\ [Next]_vars => DeviceInv'  BY DeviceNext
<1>3. DeviceInv => TypeOK  BY CudaTypes, CpuTypes DEF DeviceInv, TypeOK
<1> QED  BY <1>1, <1>2, <1>3, PTL DEF Spec

\* Both devices keep the contracts of Storage, Dispatch and Capturable
\* (src/backend/mod.rs): each of their steps is a step of Capturing or none.
THEOREM DevicesKeepTheContract == ASSUME ~Overlap PROVE Spec => KeepsTheContract
<1>1. Init => DeviceInv /\ Contract!Init  BY DeviceInit
<1>2. DeviceInv /\ [Next]_vars => DeviceInv' /\ [Contract!Next]_(Contract!vars)  BY DeviceNext
<1> QED  BY <1>1, <1>2, PTL DEF Spec, KeepsTheContract, Contract!Spec

=============================================================================
