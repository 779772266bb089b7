----------------------------- MODULE MCDevices -----------------------------
(***************************************************************************)
(* A device of one of the backends that can capture, chosen when it is     *)
(* opened, shown to be the device of Capturing.  The two share what the    *)
(* contract speaks of (memory, threads, captures); what only the other one *)
(* has stays as it is.                                                     *)
(***************************************************************************)
EXTENDS Commands, TLC

CONSTANTS Backends, Captures, MaxRecorded, Overlap, Twice

ASSUME BackendsAssumption == Backends \subseteq {"cuda", "cpu"}
ASSUME ChoicesAssumption == Overlap \in BOOLEAN /\ Twice \in BOOLEAN /\ MaxRecorded \in Nat

VARIABLES backend, contents, words, doing, waits, result, calls, kept,
  streams, built, capture_works, capturing, graph, at,
  work, recording, poisoned

cudavars == <<streams, built, capture_works, capturing, graph, at>>
cpuvars == <<work, recording, poisoned>>
vars == <<backend, contents, words, doing, waits, result, calls, kept, cudavars, cpuvars>>

Cuda == INSTANCE CudaDevice
Cpu == INSTANCE CpuDevice

CudaUnused ==
    /\ streams = [s \in {"main", "capture"} |-> <<>>] /\ built = {}
    /\ capture_works = FALSE /\ capturing = FALSE /\ graph = None
    /\ at = [t \in Threads |-> Cuda!Ready]
CpuUnused == work = <<>> /\ recording = None /\ poisoned = FALSE

Init ==
    /\ backend \in Backends
    /\ IF backend = "cuda" THEN Cuda!Init /\ CpuUnused ELSE Cpu!Init /\ CudaUnused

Next ==
    \/ backend = "cuda" /\ Cuda!Next /\ UNCHANGED <<backend, cpuvars>>
    \/ backend = "cpu" /\ Cpu!Next /\ UNCHANGED <<backend, cudavars>>

Spec == Init /\ [][Next]_vars

\* The types of whichever device it is.
TypeOK == IF backend = "cuda" THEN Cuda!TypeOK ELSE Cpu!TypeOK

OfBackend(cuda, cpu) == IF backend = "cuda" THEN cuda ELSE cpu

Contract == INSTANCE Capturing WITH
    queue <- OfBackend(WithoutNew(Cuda!Main), work),
    words <- OfBackend(NodeWords(Cuda!Main, words, built), words),
    waits <- OfBackend(QueuedOnly(waits), waits),
    recording <- OfBackend(Cuda!Recording, recording),
    able <- OfBackend(capture_works, TRUE)

\* Both backends keep the contracts of Storage, Dispatch and Capturable
\* (src/backend/mod.rs): one stream in the order of the calls, calls recorded
\* and replayed in order with the current meta, waits that are long enough.
KeepsTheContract == Contract!Spec

\* Of the CPU: a device that records can be made to stop.
RecordingCanEnd == Cpu!RecordingCanEnd

\* Not so with Overlap: a synchronize of CUDA that may return has nothing left to wait
\* for on either stream (src/backend/mod.rs:198).  A run that a thread launches while
\* another ends the capture it was meant for stays on the capture stream.  Without
\* Overlap that stream is always empty, so the property says nothing there.
SynchronizeWaits == Cuda!SynchronizeWaits

MCEffect(w, v) == (w + v) % 2

Symmetry == Permutations(Threads) \cup Permutations(Buffers)

=============================================================================
