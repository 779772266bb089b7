------------------------------ MODULE WgpuQueue ------------------------------
(***************************************************************************)
(* How src/backends/wgpu.rs keeps the contract on top of a wgpu queue.     *)
(* Runs, copies and clears are recorded in an encoder and submitted in     *)
(* batches; a host write is staged, and lands before every command of the  *)
(* next submit.  The mutex `pending` makes each method's critical section  *)
(* one action.  submitted is what wgpu was given and the GPU has not done. *)
(***************************************************************************)
EXTENDS Commands

CONSTANT SubmitEvery  \* the values submit_every may be set to

ASSUME SubmitEveryAssumption == SubmitEvery \subseteq Nat /\ 1 \in SubmitEvery

VARIABLES
  contents, words,  \* on the GPU
  submitted,
  staged,           \* writes that wait for the next submit
  recorded,         \* the encoder in `pending`: commands not submitted
  submit_every,
  built,            \* nodes
  doing, waits, result,
  polling,          \* threads inside poll(wait_indefinitely)
  calls

memory == <<contents, words>>
batches == <<submitted, staged, recorded>>
threadvars == <<doing, waits, result, polling>>
vars == <<memory, batches, submit_every, built, threadvars, calls>>

\* The types, and that a thread which waits for something is blocked.
TypeOK ==
    /\ contents \in [Locations -> Values]
    /\ words \in [Nodes -> Words]
    /\ submitted \in Seq(Command) /\ staged \in Seq(Command) /\ recorded \in Seq(Command)
    /\ submit_every \in SubmitEvery
    /\ built \in SUBSET Nodes
    /\ doing \in [Threads -> {"idle", "download", "synchronize"}]
    /\ waits \in [Threads -> SUBSET Command]
    /\ result \in Values \cup {None}
    /\ polling \subseteq {t \in Threads : doing[t] # "idle"}
    /\ calls \in 0..MaxCalls
    /\ \A t \in Threads : doing[t] = "idle" => waits[t] = {}

Call(t) ==
    /\ doing[t] = "idle"
    /\ calls < MaxCalls
    /\ calls' = calls + 1

\* WgpuBackend::submit: without an encoder nothing is submitted, the writes stay.
Submitted(commands) == IF commands = <<>> THEN submitted ELSE submitted \o staged \o commands
StillStaged(commands) == IF commands = <<>> THEN staged ELSE <<>>

\* WgpuBackend::record.
record(c) ==
    LET commands == Append(recorded, c) IN
    IF submit_every # 0 /\ Len(commands) >= submit_every
    THEN /\ submitted' = Submitted(commands)
         /\ staged' = <<>>
         /\ recorded' = <<>>
    ELSE /\ recorded' = commands
         /\ UNCHANGED <<submitted, staged>>

\* Mutant: the write is staged without submitting what was recorded before it.
Stage_NotSubmitted(c) ==
    /\ staged' = Append(staged, c)
    /\ UNCHANGED <<submitted, recorded>>

\* Under the lock: submit, then write_buffer.
Stage(c) ==
    /\ submitted' = Submitted(recorded)
    /\ staged' = Append(StillStaged(recorded), c)
    /\ recorded' = <<>>

upload_raw(t, b, v) ==
    /\ Call(t)
    /\ Stage(write(calls', b, v))
    /\ UNCHANGED <<memory, submit_every, built, threadvars>>

update_meta(t, n, w) ==
    /\ Call(t)
    /\ n \in built
    /\ Stage(meta(calls', n, w))
    /\ UNCHANGED <<memory, submit_every, built, threadvars>>

\* Neither the lock nor a submit: nothing ran on a new node.
build_node(t, n, w) ==
    /\ Call(t)
    /\ n \notin built
    /\ built' = built \cup {n}
    /\ staged' = Append(staged, new(calls', n, w))
    /\ UNCHANGED <<memory, submitted, recorded, submit_every, threadvars>>

copy_raw(t, a, b) ==
    /\ Call(t)
    /\ a # b
    /\ record(copy(calls', a, b))
    /\ UNCHANGED <<memory, submit_every, built, threadvars>>

clear_raw(t, b) ==
    /\ Call(t)
    /\ record(clear(calls', b))
    /\ UNCHANGED <<memory, submit_every, built, threadvars>>

execute_raw(t, n, a, b) ==
    /\ Call(t)
    /\ n \in built
    /\ a # b
    /\ record(run(calls', n, a, b))
    /\ UNCHANGED <<memory, submit_every, built, threadvars>>

\* t has submitted, given up the lock, and is about to poll.
Block(t, what) ==
    /\ doing' = [doing EXCEPT ![t] = what]
    /\ waits' = [waits EXCEPT ![t] = {submitted'[k] : k \in DOMAIN submitted'}]

\* poll(wait_indefinitely): until what is submitted by now is done, other
\* threads' later commands included.
Poll(t) ==
    /\ doing[t] # "idle"
    /\ t \notin polling
    /\ polling' = polling \cup {t}
    /\ waits' = [waits EXCEPT ![t] = {submitted[k] : k \in DOMAIN submitted}]
    /\ UNCHANGED <<memory, batches, submit_every, built, doing, result, calls>>

download_raw(t, b) ==
    /\ Call(t)
    /\ LET commands == Append(recorded, copy(calls', b, t)) IN
          submitted' = Submitted(commands)
    /\ staged' = <<>>
    /\ recorded' = <<>>
    /\ Block(t, "download")
    /\ UNCHANGED <<memory, submit_every, built, result, polling>>

synchronize(t) ==
    /\ Call(t)
    /\ submitted' = Submitted(recorded)
    /\ staged' = StillStaged(recorded)
    /\ recorded' = <<>>
    /\ Block(t, "synchronize")
    /\ UNCHANGED <<memory, submit_every, built, result, polling>>

\* Mutant: the mapping is read, or the call left, without waiting.
Return_Early(t) ==
    /\ doing[t] # "idle"
    /\ result' = IF doing[t] = "download" THEN contents[t] ELSE result
    /\ doing' = [doing EXCEPT ![t] = "idle"]
    /\ polling' = polling \ {t}
    /\ UNCHANGED <<memory, batches, submit_every, built, waits, calls>>

Return(t) ==
    /\ doing[t] # "idle"
    /\ t \in polling
    /\ waits[t] = {}
    /\ result' = IF doing[t] = "download" THEN contents[t] ELSE result
    /\ doing' = [doing EXCEPT ![t] = "idle"]
    /\ polling' = polling \ {t}
    /\ UNCHANGED <<memory, batches, submit_every, built, waits, calls>>

\* submit_every is a public field, which may change between any two calls.
SetSubmitEvery(k) ==
    /\ k # submit_every
    /\ submit_every' = k
    /\ UNCHANGED <<memory, batches, built, threadvars, calls>>

\* The GPU does its oldest command.
RunCommand ==
    /\ submitted # <<>>
    /\ contents' = Contents(contents, words, Head(submitted))
    /\ words' = MetaWords(words, Head(submitted))
    /\ submitted' = Tail(submitted)
    /\ waits' = [t \in Threads |-> waits[t] \ {Head(submitted)}]
    /\ UNCHANGED <<staged, recorded, submit_every, built, doing, result, polling, calls>>

\* attach sets submit_every to 1; new buffers hold anything, new metas zeros.
Init ==
    /\ contents \in [Locations -> Values]
    /\ \A t \in Threads : contents[t] = Zero
    /\ words = [n \in Nodes |-> Zero]
    /\ submitted = <<>> /\ staged = <<>> /\ recorded = <<>>
    /\ submit_every = 1
    /\ built = {}
    /\ doing = [t \in Threads |-> "idle"]
    /\ waits = [t \in Threads |-> {}]
    /\ result = None
    /\ polling = {}
    /\ calls = 0

Next ==
    \/ \E t \in Threads :
          \/ \E b \in Buffers, v \in Values : upload_raw(t, b, v)
          \/ \E a, b \in Buffers : copy_raw(t, a, b)
          \/ \E b \in Buffers : clear_raw(t, b)
          \/ \E n \in Nodes, w \in Words : build_node(t, n, w) \/ update_meta(t, n, w)
          \/ \E n \in Nodes, a, b \in Buffers : execute_raw(t, n, a, b)
          \/ \E b \in Buffers : download_raw(t, b)
          \/ synchronize(t)
          \/ Poll(t)
          \/ Return(t)
    \/ \E k \in SubmitEvery : SetSubmitEvery(k)
    \/ RunCommand

Spec == Init /\ [][Next]_vars

-----------------------------------------------------------------------------
(* The refinement.  The write of a new node's meta may overtake commands   *)
(* recorded before it; it is left out of the stream, and the node has its  *)
(* words from the start.                                                   *)

InFlight == submitted \o staged \o recorded

Stream == INSTANCE InOrder WITH
    queue <- WithoutNew(InFlight),
    words <- NodeWords(InFlight, words, built),
    waits <- QueuedOnly(waits)

\* The batches and staged writes of wgpu.rs, with any submit_every at any time
\* and any interleaving of threads, are one stream in the order of the calls, as
\* Storage's contract has it (src/backend/mod.rs).
KeepsTheContract == Stream!Spec

=============================================================================
