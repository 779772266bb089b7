----------------------------- MODULE CudaDevice -----------------------------
(***************************************************************************)
(* One CUDA device (src/backends/cuda.rs): a main stream for everything, a *)
(* capture stream for the runs recorded between begin_capture and          *)
(* end_capture, and an atomic flag that tells execute_raw which of the two *)
(* to launch on.  The flag and the capture stream are changed in two       *)
(* steps, and execute_raw reads the one before it launches on the other:   *)
(* at[t] is the second step that thread t still has to take.  A launch on  *)
(* a capture stream that isn't capturing runs right there, in the order of *)
(* no other stream.  Calls that a backend refuses because a buffer, node   *)
(* or capture is another device's change nothing and are left out.         *)
(***************************************************************************)
EXTENDS Commands

CONSTANTS
  Captures,     \* variables that hold a CudaCapture
  MaxRecorded,  \* bound on the calls of one capture
  Overlap       \* TRUE: threads call execute_raw while others begin or end a capture

VARIABLES contents, words, doing, waits, result, calls,
  streams,        \* "main", "capture": what each stream was given and hasn't done
  built,          \* nodes
  capture_works,
  capturing,      \* the AtomicBool
  graph,          \* what capture_stream has captured; None when it isn't capturing
  kept,           \* [Captures -> the graph, or None]
  at

memory == <<contents, words>>
threadvars == <<doing, waits, result, at>>
capturevars == <<capture_works, capturing, graph, kept>>
vars == <<memory, streams, built, threadvars, calls, capturevars>>

Ready == [step |-> "ready"]
Idle(t) == doing[t] = "idle" /\ at[t] = Ready
Alone == Overlap \/ \A t \in Threads : at[t].step \in {"ready", "wait"}

TypeOK ==
    /\ contents \in [Locations -> Values] /\ words \in [Nodes -> Words]
    /\ streams \in [{"main", "capture"} -> Seq(Command)]
    /\ built \in SUBSET Nodes
    /\ doing \in [Threads -> {"idle", "download", "synchronize"}]
    /\ waits \in [Threads -> SUBSET Command]
    /\ capture_works \in BOOLEAN /\ capturing \in BOOLEAN
    /\ graph \in Seq(Command) \cup {None}
    /\ kept \in [Captures -> Seq(Command) \cup {None}]
    /\ \A t \in Threads : doing[t] # "idle" <=> at[t].step = "wait"
    /\ ~capture_works => graph = None /\ streams["capture"] = <<>>

Call(t) == Idle(t) /\ calls < MaxCalls /\ calls' = calls + 1

\* A command for the main stream, from a call that doesn't wait for it.
Queue(t, c) ==
    /\ Call(t)
    /\ streams' = [streams EXCEPT !["main"] = Append(@, c)]
    /\ UNCHANGED <<memory, threadvars, capturevars>>

upload_raw(t, b, v) == Queue(t, write(calls', b, v)) /\ UNCHANGED built
copy_raw(t, a, b) == a # b /\ Queue(t, copy(calls', a, b)) /\ UNCHANGED built
clear_raw(t, b) == Queue(t, clear(calls', b)) /\ UNCHANGED built

\* Mutant: the words are written at once, before the runs queued earlier.
update_meta_AtOnce(t, n, w) ==
    /\ n \in built /\ Call(t)
    /\ words' = [words EXCEPT ![n] = w]
    /\ UNCHANGED <<contents, streams, built, threadvars, capturevars>>

update_meta(t, n, w) == n \in built /\ Queue(t, meta(calls', n, w)) /\ UNCHANGED built

build_node(t, n, w) ==
    /\ n \notin built
    /\ built' = built \cup {n}
    /\ Queue(t, new(calls', n, w))

\* Mutant: a device that can't capture launches all the same.
execute_raw_Launched(t, n, a, b) ==
    /\ Idle(t) /\ Alone
    /\ n \in built /\ a # b
    /\ at' = [at EXCEPT ![t] = [step |-> "launch", stream |-> IF capturing THEN "capture" ELSE "main",
                                node |-> n, from |-> a, to |-> b]]
    /\ UNCHANGED <<memory, streams, built, doing, waits, result, calls, capturevars>>

\* The flag is read here.  Where nothing can be captured the run is recorded
\* into nothing.
execute_raw(t, n, a, b) ==
    /\ Idle(t) /\ Alone
    /\ n \in built /\ a # b
    /\ ~(capturing /\ ~capture_works)
    /\ at' = [at EXCEPT ![t] = [step |-> "launch", stream |-> IF capturing THEN "capture" ELSE "main",
                                node |-> n, from |-> a, to |-> b]]
    /\ UNCHANGED <<memory, streams, built, doing, waits, result, calls, capturevars>>

\* Captured only if the stream it goes to captures when the launch comes.
Launch(t) ==
    /\ at[t].step = "launch"
    /\ LET call == at[t]
           c(id) == run(id, call.node, call.from, call.to)
       IN  \/ /\ call.stream = "capture" /\ graph # None
              /\ Len(graph) < MaxRecorded
              /\ graph' = Append(graph, c(0))
              /\ UNCHANGED <<streams, calls>>
           \/ /\ call.stream = "capture" => graph = None
              /\ calls < MaxCalls /\ calls' = calls + 1
              /\ streams' = [streams EXCEPT ![call.stream] = Append(@, c(calls'))]
              /\ UNCHANGED graph
    /\ at' = [at EXCEPT ![t] = Ready]
    /\ UNCHANGED <<memory, built, doing, waits, result, capture_works, capturing, kept>>

\* t waits for the main stream.
Block(t, what) ==
    /\ doing' = [doing EXCEPT ![t] = what]
    /\ waits' = [waits EXCEPT ![t] = {streams'["main"][k] : k \in DOMAIN streams'["main"]}]
    /\ at' = [at EXCEPT ![t] = [step |-> "wait", asked |-> calls']]
    /\ UNCHANGED <<memory, built, result, capturevars>>

download_raw(t, b) ==
    /\ Call(t)
    /\ streams' = [streams EXCEPT !["main"] = Append(@, copy(calls', b, t))]
    /\ Block(t, "download")

synchronize(t) == Call(t) /\ UNCHANGED streams /\ Block(t, "synchronize")

Return(t) ==
    /\ doing[t] # "idle"
    /\ waits[t] = {}
    /\ result' = IF doing[t] = "download" THEN contents[t] ELSE result
    /\ doing' = [doing EXCEPT ![t] = "idle"]
    /\ at' = [at EXCEPT ![t] = Ready]
    /\ UNCHANGED <<memory, streams, built, waits, calls, capturevars>>

\* The assertion fails, and nothing changes, when the flag is set.
begin_capture(t) ==
    /\ Idle(t) /\ Alone
    /\ ~capturing
    /\ capturing' = TRUE
    /\ at' = [at EXCEPT ![t] = IF capture_works THEN [step |-> "begin"] ELSE Ready]
    /\ UNCHANGED <<memory, streams, built, doing, waits, result, calls, capture_works, graph, kept>>

\* The driver refuses to begin twice: must() panics.
BeginStream(t) ==
    /\ at[t].step = "begin"
    /\ graph' = IF graph = None THEN <<>> ELSE graph
    /\ at' = [at EXCEPT ![t] = Ready]
    /\ UNCHANGED <<memory, streams, built, doing, waits, result, calls, capture_works, capturing, kept>>

\* An error when the flag isn't set, and when the device can't capture.
end_capture(t, r) ==
    /\ Idle(t) /\ Alone
    /\ capturing
    /\ kept[r] = None
    /\ capturing' = FALSE
    /\ at' = [at EXCEPT ![t] = IF capture_works THEN [step |-> "end", into |-> r] ELSE Ready]
    /\ UNCHANGED <<memory, streams, built, doing, waits, result, calls, capture_works, graph, kept>>

\* Mutant: the capture stream goes on capturing into the same graph.
EndStream_GoesOn(t) ==
    /\ at[t].step = "end"
    /\ kept' = [kept EXCEPT ![at[t].into] = graph]
    /\ at' = [at EXCEPT ![t] = Ready]
    /\ UNCHANGED <<memory, streams, built, doing, waits, result, calls, capture_works, capturing, graph>>

\* The driver refuses to end what wasn't begun.
EndStream(t) ==
    /\ at[t].step = "end"
    /\ kept' = [kept EXCEPT ![at[t].into] = graph]
    /\ graph' = None
    /\ at' = [at EXCEPT ![t] = Ready]
    /\ UNCHANGED <<memory, streams, built, doing, waits, result, calls, capture_works, capturing>>

\* One launch of the graph; its kernels read their meta buffers when they run.
replay(t, r) ==
    /\ Call(t)
    /\ kept[r] # None
    /\ streams' = [streams EXCEPT !["main"] = @ \o Again(kept[r], calls')]
    /\ UNCHANGED <<memory, built, threadvars, capturevars>>

release_capture(t, r) ==
    /\ Idle(t)
    /\ kept[r] # None
    /\ kept' = [kept EXCEPT ![r] = None]
    /\ UNCHANGED <<memory, streams, built, threadvars, calls, capture_works, capturing, graph>>

\* Each stream runs its commands in order, and independently of the other.
RunCommand(s) ==
    /\ streams[s] # <<>>
    /\ contents' = Contents(contents, words, Head(streams[s]))
    /\ words' = MetaWords(words, Head(streams[s]))
    /\ streams' = [streams EXCEPT ![s] = Tail(@)]
    /\ waits' = [t \in Threads |-> waits[t] \ {Head(streams[s])}]
    /\ UNCHANGED <<built, doing, result, calls, at, capturevars>>

\* A device at any moment when it has nothing to do and doesn't record.
Init ==
    /\ contents \in [Locations -> Values]
    /\ \A t \in Threads : contents[t] = Zero
    /\ words \in [Nodes -> Words]
    /\ streams = [s \in {"main", "capture"} |-> <<>>]
    /\ built \in SUBSET Nodes
    /\ doing = [t \in Threads |-> "idle"]
    /\ waits = [t \in Threads |-> {}]
    /\ result = None
    /\ calls = 0
    /\ capture_works \in BOOLEAN
    /\ capturing = FALSE
    /\ graph = None
    /\ kept = [r \in Captures |-> None]
    /\ at = [t \in Threads |-> Ready]

Next ==
    \/ \E t \in Threads :
          \/ \E b \in Buffers, v \in Values : upload_raw(t, b, v)
          \/ \E a, b \in Buffers : copy_raw(t, a, b)
          \/ \E b \in Buffers : clear_raw(t, b) \/ download_raw(t, b)
          \/ \E n \in Nodes, w \in Words : build_node(t, n, w) \/ update_meta(t, n, w)
          \/ \E n \in Nodes, a, b \in Buffers : execute_raw(t, n, a, b)
          \/ Launch(t)
          \/ synchronize(t)
          \/ Return(t)
          \/ begin_capture(t) \/ BeginStream(t)
          \/ EndStream(t)
          \/ \E r \in Captures : end_capture(t, r) \/ replay(t, r) \/ release_capture(t, r)
    \/ \E s \in {"main", "capture"} : RunCommand(s)

Spec == Init /\ [][Next]_vars

-----------------------------------------------------------------------------
(* The state of Capturing that this state stands for: the main stream in   *)
(* order; a new node has its words from the start.                         *)

Main == streams["main"]
Recording == IF capture_works THEN graph ELSE IF capturing THEN <<>> ELSE None

\* "Blocks until all queued work on this device is done" (src/backend/mod.rs:198):
\* a synchronize that may return has nothing left to wait for on any stream, of
\* what was called before it.  Not so where execute_raw overlaps begin_capture or
\* end_capture (MCDevices).
SynchronizeWaits ==
    \A t \in Threads : doing[t] = "synchronize" /\ waits[t] = {} =>
        \A s \in DOMAIN streams : \A k \in DOMAIN streams[s] :
            Number(streams[s][k]) >= at[t].asked

=============================================================================
