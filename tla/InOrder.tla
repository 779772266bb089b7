------------------------------ MODULE InOrder ------------------------------
(***************************************************************************)
(* The device the contract in src/backend/mod.rs promises: "Uploads,       *)
(* downloads, copies, clears and dispatches run in the order they are      *)
(* called", one stream per device; a download and synchronize block until  *)
(* what was queued before them is done; a new node has its meta words.  It *)
(* starts at any moment when nothing is queued: some nodes may be built.   *)
(***************************************************************************)
EXTENDS Commands

VARIABLES
  contents,  \* of every buffer, and of every thread's staging buffer
  words,     \* each node's meta words; None before it is built
  queue,     \* what is called and not done yet
  doing,     \* what a thread is blocked in
  waits,     \* the commands it waits for
  result,    \* what the last download returned
  calls      \* calls made so far

vars == <<contents, words, queue, doing, waits, result, calls>>

Call(t) ==
    /\ doing[t] = "idle"
    /\ calls < MaxCalls
    /\ calls' = calls + 1

\* Everything but a blocking call.
Enqueue(t, c) ==
    /\ Call(t)
    /\ queue' = Append(queue, c)
    /\ UNCHANGED <<contents, words, doing, waits, result>>

upload_raw(t, b, v) == Enqueue(t, write(calls', b, v))
copy_raw(t, a, b) == a # b /\ Enqueue(t, copy(calls', a, b))
clear_raw(t, b) == Enqueue(t, clear(calls', b))

update_meta(t, n, w) == words[n] # None /\ Enqueue(t, meta(calls', n, w))
execute_raw(t, n, a, b) == words[n] # None /\ a # b /\ Enqueue(t, run(calls', n, a, b))

build_node(t, n, w) ==
    /\ Call(t)
    /\ words[n] = None
    /\ words' = [words EXCEPT ![n] = w]
    /\ UNCHANGED <<contents, queue, doing, waits, result>>

\* t blocks until everything queued so far is done.
Block(t, what) ==
    /\ doing' = [doing EXCEPT ![t] = what]
    /\ waits' = [waits EXCEPT ![t] = {queue'[k] : k \in {j \in DOMAIN queue' : Queued(queue'[j])}}]

download_raw(t, b) ==
    /\ Call(t)
    /\ queue' = Append(queue, copy(calls', b, t))
    /\ Block(t, "download")
    /\ UNCHANGED <<contents, words, result>>

synchronize(t) ==
    /\ Call(t)
    /\ UNCHANGED queue
    /\ Block(t, "synchronize")
    /\ UNCHANGED <<contents, words, result>>

\* A blocked call may wait for what other threads queued since as well.
WaitLonger(t) ==
    /\ doing[t] # "idle"
    /\ \E more \in SUBSET {queue[k] : k \in DOMAIN queue} :
          waits' = [waits EXCEPT ![t] = @ \cup {c \in more : Queued(c)}]
    /\ UNCHANGED <<contents, words, queue, doing, result, calls>>

Return(t) ==
    /\ doing[t] # "idle"
    /\ waits[t] = {}
    /\ result' = IF doing[t] = "download" THEN contents[t] ELSE result
    /\ doing' = [doing EXCEPT ![t] = "idle"]
    /\ UNCHANGED <<contents, words, queue, waits, calls>>

RunCommand ==
    /\ queue # <<>>
    /\ contents' = Contents(contents, words, Head(queue))
    /\ words' = MetaWords(words, Head(queue))
    /\ queue' = Tail(queue)
    /\ waits' = [t \in Threads |-> waits[t] \ {Head(queue)}]
    /\ UNCHANGED <<doing, result, calls>>

Init ==
    /\ contents \in [Locations -> Values]
    /\ \A t \in Threads : contents[t] = Zero
    /\ words \in [Nodes -> Words \cup {None}]
    /\ queue = <<>>
    /\ doing = [t \in Threads |-> "idle"]
    /\ waits = [t \in Threads |-> {}]
    /\ result = None
    /\ calls = 0

\* What t may do besides execute_raw.
Other(t) ==
    \/ \E b \in Buffers, v \in Values : upload_raw(t, b, v)
    \/ \E a, b \in Buffers : copy_raw(t, a, b)
    \/ \E b \in Buffers : clear_raw(t, b)
    \/ \E n \in Nodes, w \in Words : build_node(t, n, w) \/ update_meta(t, n, w)
    \/ \E b \in Buffers : download_raw(t, b)
    \/ synchronize(t)
    \/ WaitLonger(t)
    \/ Return(t)

Next ==
    \/ \E t \in Threads :
          \/ Other(t)
          \/ \E n \in Nodes, a, b \in Buffers : execute_raw(t, n, a, b)
    \/ RunCommand

Spec == Init /\ [][Next]_vars

=============================================================================
