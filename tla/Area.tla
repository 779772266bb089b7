-------------------------------- MODULE Area --------------------------------
(***************************************************************************)
(* One area and the threads that cut parts out of it: DeviceArea in        *)
(* src/safe/mod.rs over carve of src/backends/cpu.rs (least = 0, align =   *)
(* 4) or src/backends/cuda.rs (least = MIN_BYTES, align = CARVE_ALIGN).    *)
(* carve claims its bytes with try_update: it loads `next`, decides, and   *)
(* compares and swaps until no other thread came in between.               *)
(***************************************************************************)
EXTENDS Integers, Sequences, FiniteSets

CONSTANTS
  Threads,
  Areas,     \* areas that may be reserved: [cuda, least, align, total]
  Asks,      \* the bytes carve may be asked for
  MaxParts,  \* bound on the parts cut out, and the calls under way
  None

ASSUME AreasAssumption ==
    /\ Areas \subseteq [cuda : BOOLEAN, least : Nat, align : Nat \ {0}, total : Nat]
    /\ \A a \in Areas : a.cuda => a.least # 0
ASSUME BytesAssumption == Asks \subseteq Nat /\ MaxParts \in Nat
ASSUME NoneAssumption == None \notin Nat

VARIABLES
  area,     \* the one reserved: its backend, the bytes a part has at least,
            \* where parts start, and the bytes reserve was asked for
  next,     \* bytes cut out so far
  parts,    \* the parts cut out, in order: [start, bytes]
  dropped,  \* those whose tensor was dropped
  asked,    \* the bytes a thread's carve was asked for, or None
  seen,     \* what it last read of `next`
  released  \* the area was given back

vars == <<area, next, parts, dropped, asked, seen, released>>

\* Mutant: an empty part takes nothing.
AtLeast_Nothing(bytes) == bytes

AtLeast(bytes) == IF bytes < area.least THEN area.least ELSE bytes

\* usize::next_multiple_of; div_ceil(4) words are as many bytes.
RoundUp(bytes, align) ==
    IF bytes % align = 0 THEN bytes ELSE bytes + (align - (bytes % align))

\* Mutant: parts are not aligned.
Taken_Unrounded(bytes) == AtLeast(bytes)

\* What a part takes of the area.
Taken(bytes) == RoundUp(AtLeast(bytes), area.align)

\* The area's size, and a part's.  A CPU buffer counts whole words.
AreaBytes == IF area.cuda THEN AtLeast(area.total) ELSE RoundUp(area.total, area.align)
PartBytes(bytes) == IF area.cuda THEN AtLeast(bytes) ELSE Taken(bytes)

remaining_bytes == AreaBytes - next

\* Mutants: the bytes are compared before rounding; the last word is never given.
Fits_Unrounded(bytes, before) == AtLeast(bytes) <= AreaBytes - before
Fits_Strict(bytes, before) == Taken(bytes) < AreaBytes - before

Fits(bytes, before) == Taken(bytes) <= AreaBytes - before

-----------------------------------------------------------------------------
Init ==
    /\ area \in Areas
    /\ next = 0
    /\ parts = <<>>
    /\ dropped = {}
    /\ asked = [t \in Threads |-> None]
    /\ seen = [t \in Threads |-> 0]
    /\ released = FALSE

Carving == {t \in Threads : asked[t] # None}

\* t calls carve, which loads next.
StartCarve(t, bytes) ==
    /\ ~ released
    /\ asked[t] = None
    /\ Len(parts) + Cardinality(Carving) < MaxParts
    /\ asked' = [asked EXCEPT ![t] = bytes]
    /\ seen' = [seen EXCEPT ![t] = next]
    /\ UNCHANGED <<area, next, parts, dropped, released>>

Cut(t) ==
    /\ next' = seen[t] + Taken(asked[t])
    /\ parts' = Append(parts, [start |-> seen[t], bytes |-> PartBytes(asked[t])])
    /\ asked' = [asked EXCEPT ![t] = None]
    /\ UNCHANGED <<area, dropped, seen, released>>

\* Mutant: what is there is written over.
CompareExchange_Store(t) ==
    /\ asked[t] # None
    /\ Fits(asked[t], seen[t])
    /\ Cut(t)

\* Mutant: next is added to, after it was checked.
CompareExchange_Add(t) ==
    /\ asked[t] # None
    /\ Fits(asked[t], seen[t])
    /\ next' = next + Taken(asked[t])
    /\ parts' = Append(parts, [start |-> next, bytes |-> PartBytes(asked[t])])
    /\ asked' = [asked EXCEPT ![t] = None]
    /\ UNCHANGED <<area, dropped, seen, released>>

\* Another thread's carve in between makes it look again.
CompareExchange(t) ==
    /\ asked[t] # None
    /\ Fits(asked[t], seen[t])
    /\ \/ next = seen[t] /\ Cut(t)
       \/ /\ next # seen[t]
          /\ seen' = [seen EXCEPT ![t] = next]
          /\ UNCHANGED <<area, next, parts, dropped, asked, released>>

\* Mutant: the call tries again in the hope of room.
Refuse_TryAgain(t) ==
    /\ asked[t] # None
    /\ ~ Fits(asked[t], seen[t])
    /\ seen' = [seen EXCEPT ![t] = next]
    /\ UNCHANGED <<area, next, parts, dropped, asked, released>>

Refuse(t) ==
    /\ asked[t] # None
    /\ ~ Fits(asked[t], seen[t])
    /\ asked' = [asked EXCEPT ![t] = None]
    /\ UNCHANGED <<area, next, parts, dropped, seen, released>>

\* Tensor::drop leaves a carved buffer alone: neither pool nor area get it.
DropTensor(k) ==
    /\ k \notin dropped
    /\ dropped' = dropped \cup {k}
    /\ UNCHANGED <<area, next, parts, asked, seen, released>>

\* DeviceArea::drop; every part, and every call, borrows the area.
Release ==
    /\ ~ released
    /\ Carving = {}
    /\ dropped = DOMAIN parts
    /\ released' = TRUE
    /\ UNCHANGED <<area, next, parts, dropped, asked, seen>>

Next ==
    \/ \E t \in Threads :
          \/ \E bytes \in Asks : StartCarve(t, bytes)
          \/ CompareExchange(t)
          \/ Refuse(t)
    \/ \E k \in DOMAIN parts : DropTensor(k)
    \/ Release

Spec == Init /\ [][Next]_vars

\* A thread goes on with its loop, and its compare_exchange_weak does not fail
\* for no reason forever.
FairSpec ==
    /\ Spec
    /\ \A t \in Threads : WF_vars(CompareExchange(t)) /\ WF_vars(Refuse(t))

-----------------------------------------------------------------------------
(* What carve promises.                                                    *)

\* The types, and that parts start where the backend aligns them: next is always
\* a multiple of CARVE_ALIGN (src/backends/cuda.rs:497).
TypeOK ==
    /\ area \in Areas
    /\ next \in Nat /\ next % area.align = 0
    /\ parts \in Seq([start : Nat, bytes : Nat])
    /\ dropped \subseteq DOMAIN parts
    /\ asked \in [Threads -> Asks \cup {None}]
    /\ seen \in [Threads -> Nat]
    /\ released \in BOOLEAN

Apart(a, b) == a.start + a.bytes <= b.start \/ b.start + b.bytes <= a.start

\* However carves interleave, no byte is in two parts, as the SAFETY comment of
\* CpuArea has it (src/backends/cpu.rs:351).
PartsApart == \A j, k \in DOMAIN parts : j # k => Apart(parts[j], parts[k])

\* Every part lies inside the area, and so does next, so that the subtraction
\* `total - next` in carve never goes below zero.
PartsInside ==
    /\ next <= AreaBytes
    /\ \A k \in DOMAIN parts : parts[k].start + parts[k].bytes <= AreaBytes

\* No two parts of a CUDA area share an address, not even empty ones, as the
\* comment of MIN_BYTES has it (src/backends/cuda.rs:22): an empty part takes
\* MIN_BYTES of its own.
CudaAddressesDiffer ==
    area.cuda => \A j, k \in DOMAIN parts : j # k => parts[j].start # parts[k].start

\* Not so on the CPU: two parts share an address only if both are empty, so that
\* Scope::replay, which looks for a tensor by its address, can't pick a wrong one
\* that `check` accepts (src/safe/scope.rs:376).  An empty part takes no word there,
\* and the part that is cut next, of any length, has its address.
SharedOnlyIfEmpty ==
    \A j, k \in DOMAIN parts :
        j # k /\ parts[j].start = parts[k].start => {parts[j].bytes, parts[k].bytes} = {0}

\* What a carve that fails at this step would have needed is not left.
OutOfRoom ==
    \A t \in Threads :
        asked[t] # None /\ asked'[t] = None /\ parts' = parts
          => AtLeast(asked[t]) > remaining_bytes

\* Not so of every area: carve fails only if there is no room left for a buffer of
\* the bytes asked for, by what remaining_bytes says then (Areable,
\* src/backend/mod.rs:265).  Of a CUDA area that is no multiple of CARVE_ALIGN the
\* last bytes are never given.
RefusedWhenFull == [][OutOfRoom]_vars

\* So it is in an area that is a multiple of the backend's alignment.  In another,
\* carve rounds up past the area's end and refuses what is left there.
AlignedRefusedWhenFull == [][AreaBytes % area.align = 0 => OutOfRoom]_vars

\* Every carve ends: another thread's success makes it look again, but takes room.
CarvesEnd == \A t \in Threads : asked[t] # None ~> asked[t] = None

=============================================================================
