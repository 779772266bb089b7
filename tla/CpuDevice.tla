------------------------------ MODULE CpuDevice ------------------------------
(***************************************************************************)
(* The CPU device (src/backends/cpu.rs): every call does its work before   *)
(* it returns, and a mutex holds the calls recorded between begin_capture  *)
(* and end_capture.  A recorded call keeps its node's and its slots'       *)
(* addresses, and a replay reads the node's meta when it runs the call.    *)
(*                                                                         *)
(* work is what the call in progress still has to do.  Calls of two        *)
(* threads in progress at once borrow different buffers and nodes, so one  *)
(* at a time is enough.  A panic with the mutex locked poisons it: from    *)
(* then on every lock().unwrap() panics, and such calls are left out.      *)
(***************************************************************************)
EXTENDS Commands

CONSTANTS
  Captures,     \* variables that hold a CpuCapture
  MaxRecorded,  \* bound on the calls of one capture
  Twice         \* TRUE: begin_capture is called while the device is recording

VARIABLES contents, words, doing, waits, result, calls,
  work,       \* the commands of the call in progress
  recording,  \* in the mutex: the recorded calls, or None
  poisoned,   \* the mutex is
  kept        \* [Captures -> the recorded calls, or None]

memory == <<contents, words>>
threadvars == <<doing, waits, result>>
capturevars == <<recording, poisoned, kept>>
vars == <<memory, threadvars, calls, work, capturevars>>

TypeOK ==
    /\ contents \in [Locations -> Values]
    /\ words \in [Nodes -> Words \cup {None}]
    /\ doing \in [Threads -> {"idle", "download", "synchronize"}]
    /\ waits \in [Threads -> SUBSET Command]
    /\ work \in Seq(Command)
    /\ recording \in Seq(Command) \cup {None}
    /\ poisoned \in BOOLEAN
    /\ kept \in [Captures -> Seq(Command) \cup {None}]

Free(t) == doing[t] = "idle" /\ work = <<>>
Call(t) == Free(t) /\ calls < MaxCalls /\ calls' = calls + 1

Do(t, c) ==
    /\ Call(t)
    /\ work' = <<c>>
    /\ UNCHANGED <<memory, threadvars, capturevars>>

upload_raw(t, b, v) == Do(t, write(calls', b, v))
copy_raw(t, a, b) == a # b /\ Do(t, copy(calls', a, b))
clear_raw(t, b) == Do(t, clear(calls', b))
update_meta(t, n, w) == words[n] # None /\ Do(t, meta(calls', n, w))

build_node(t, n, w) ==
    /\ Call(t)
    /\ words[n] = None
    /\ words' = [words EXCEPT ![n] = w]
    /\ UNCHANGED <<contents, threadvars, work, capturevars>>

\* Recorded, or done after the mutex is unlocked.
execute_raw(t, n, a, b) ==
    /\ words[n] # None /\ a # b
    /\ ~poisoned
    /\ \/ /\ recording = None
          /\ Do(t, run(calls', n, a, b))
       \/ /\ recording # None
          /\ Free(t) /\ Len(recording) < MaxRecorded
          /\ recording' = Append(recording, run(0, n, a, b))
          /\ UNCHANGED <<memory, threadvars, calls, work, poisoned, kept>>

download_raw(t, b) ==
    /\ Call(t)
    /\ LET c == copy(calls', b, t) IN
          /\ work' = <<c>>
          /\ waits' = [waits EXCEPT ![t] = {c}]
    /\ doing' = [doing EXCEPT ![t] = "download"]
    /\ UNCHANGED <<memory, result, capturevars>>

\* Nothing to wait for.
synchronize(t) ==
    /\ Call(t)
    /\ doing' = [doing EXCEPT ![t] = "synchronize"]
    /\ UNCHANGED <<memory, waits, result, work, capturevars>>

Return(t) ==
    /\ doing[t] # "idle"
    /\ waits[t] = {}
    /\ result' = IF doing[t] = "download" THEN contents[t] ELSE result
    /\ doing' = [doing EXCEPT ![t] = "idle"]
    /\ UNCHANGED <<memory, waits, calls, work, capturevars>>

\* The assertion is made with the mutex locked.
begin_capture(t) ==
    /\ Free(t) /\ ~poisoned
    /\ Twice \/ recording = None
    /\ recording' = IF recording = None THEN <<>> ELSE recording
    /\ poisoned' = (recording # None)
    /\ UNCHANGED <<memory, threadvars, calls, work, kept>>

end_capture(t, r) ==
    /\ Free(t) /\ ~poisoned
    /\ recording # None
    /\ kept[r] = None
    /\ kept' = [kept EXCEPT ![r] = recording]
    /\ recording' = None
    /\ UNCHANGED <<memory, threadvars, calls, work, poisoned>>

replay(t, r) ==
    /\ Call(t)
    /\ kept[r] # None
    /\ work' = Again(kept[r], calls')
    /\ UNCHANGED <<memory, threadvars, capturevars>>

release_capture(t, r) ==
    /\ Free(t)
    /\ kept[r] # None
    /\ kept' = [kept EXCEPT ![r] = None]
    /\ UNCHANGED <<memory, threadvars, calls, work, recording, poisoned>>

\* The call in progress does the next thing.
Work ==
    /\ work # <<>>
    /\ contents' = Contents(contents, words, Head(work))
    /\ words' = MetaWords(words, Head(work))
    /\ work' = Tail(work)
    /\ waits' = [t \in Threads |-> waits[t] \ {Head(work)}]
    /\ UNCHANGED <<doing, result, calls, capturevars>>

\* A device at any moment when it does nothing and doesn't record.
Init ==
    /\ contents \in [Locations -> Values]
    /\ \A t \in Threads : contents[t] = Zero
    /\ words \in [Nodes -> Words \cup {None}]
    /\ doing = [t \in Threads |-> "idle"]
    /\ waits = [t \in Threads |-> {}]
    /\ result = None
    /\ calls = 0
    /\ work = <<>>
    /\ recording = None
    /\ poisoned = FALSE
    /\ kept = [r \in Captures |-> None]

Next ==
    \/ \E t \in Threads :
          \/ \E b \in Buffers, v \in Values : upload_raw(t, b, v)
          \/ \E a, b \in Buffers : copy_raw(t, a, b)
          \/ \E b \in Buffers : clear_raw(t, b) \/ download_raw(t, b)
          \/ \E n \in Nodes, w \in Words : build_node(t, n, w) \/ update_meta(t, n, w)
          \/ \E n \in Nodes, a, b \in Buffers : execute_raw(t, n, a, b)
          \/ synchronize(t)
          \/ Return(t)
          \/ begin_capture(t)
          \/ \E r \in Captures : end_capture(t, r) \/ replay(t, r) \/ release_capture(t, r)
    \/ Work

Spec == Init /\ [][Next]_vars

-----------------------------------------------------------------------------
\* A device that records can be made to stop: what EndCaptureOnDrop
\* (src/safe/scope.rs:286) does for a capture that was left by a panic.
RecordingCanEnd == recording # None => ~poisoned

=============================================================================
