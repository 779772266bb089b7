------------------------------ MODULE Capturing ------------------------------
(***************************************************************************)
(* The device of InOrder with the trait Capturable (src/backend/mod.rs):   *)
(* between begin_capture and end_capture its execute_raw calls are         *)
(* recorded instead of run, whichever thread makes them; a replay queues   *)
(* the recorded calls again, in order, "each node with its current meta".  *)
(***************************************************************************)
EXTENDS Commands

CONSTANT Captures  \* variables that hold a capture

VARIABLES contents, words, queue, doing, waits, result, calls,
  recording,  \* what is recorded so far; None when the device isn't recording
  kept,       \* [Captures -> the recorded calls, or None]
  able        \* the device can record (found out when it is opened)

stream == <<contents, words, queue, doing, waits, result, calls>>
captures == <<recording, kept, able>>
vars == <<stream, captures>>

Stream == INSTANCE InOrder

execute_raw(t, n, a, b) ==
    \/ /\ recording = None
       /\ Stream!execute_raw(t, n, a, b)
       /\ UNCHANGED captures
    \/ /\ recording # None
       /\ doing[t] = "idle"
       /\ words[n] # None /\ a # b
       /\ recording' = Append(recording, run(0, n, a, b))
       /\ UNCHANGED <<stream, kept, able>>

\* A second begin_capture panics, and changes nothing.
begin_capture(t) ==
    /\ doing[t] = "idle"
    /\ recording = None
    /\ recording' = <<>>
    /\ UNCHANGED <<stream, kept, able>>

\* It fails when nothing is recording.
end_capture(t, r) ==
    /\ doing[t] = "idle"
    /\ recording # None
    /\ able
    /\ kept[r] = None
    /\ kept' = [kept EXCEPT ![r] = recording]
    /\ recording' = None
    /\ UNCHANGED <<stream, able>>

\* A device that is unable to record says so at the end.
FailCapture(t) ==
    /\ doing[t] = "idle"
    /\ recording # None
    /\ ~able
    /\ recording' = None
    /\ UNCHANGED <<stream, kept, able>>

replay(t, r) ==
    /\ Stream!Call(t)
    /\ kept[r] # None
    /\ queue' = queue \o Again(kept[r], calls')
    /\ UNCHANGED <<contents, words, doing, waits, result, captures>>

release_capture(t, r) ==
    /\ doing[t] = "idle"
    /\ kept[r] # None
    /\ kept' = [kept EXCEPT ![r] = None]
    /\ UNCHANGED <<stream, recording, able>>

Init ==
    /\ Stream!Init
    /\ recording = None
    /\ kept = [r \in Captures |-> None]
    /\ able \in BOOLEAN

Next ==
    \/ \E t \in Threads :
          \/ Stream!Other(t) /\ UNCHANGED captures
          \/ \E n \in Nodes, a, b \in Buffers : execute_raw(t, n, a, b)
          \/ begin_capture(t)
          \/ FailCapture(t)
          \/ \E r \in Captures : end_capture(t, r) \/ replay(t, r) \/ release_capture(t, r)
    \/ Stream!RunCommand /\ UNCHANGED captures

Spec == Init /\ [][Next]_vars

=============================================================================
