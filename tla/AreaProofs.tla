----------------------------- MODULE AreaProofs -----------------------------
(***************************************************************************)
(* Carved parts are apart and inside their area, for any number of threads *)
(* and any area, alignment and sizes.  The argument: parts come in the     *)
(* order of their addresses, and each ends at or before `next`; a swap     *)
(* succeeds only where `next` is what the thread saw when it found that    *)
(* the part fits.                                                          *)
(***************************************************************************)
EXTENDS Area, TLAPS

\* Rounding up gives a multiple of the alignment that is not smaller.
LEMMA RoundUpFacts ==
    ASSUME NEW n \in Nat, NEW a \in Nat \ {0}
    PROVE  RoundUp(n, a) \in Nat /\ RoundUp(n, a) >= n
<1>1. n % a \in Nat /\ n % a < a
  BY SMT
<1>. QED
  BY <1>1 DEF RoundUp

LEMMA AreaFields ==
    ASSUME area \in Areas
    PROVE  area.least \in Nat /\ area.align \in Nat \ {0} /\ area.total \in Nat
  BY AreasAssumption

\* A part is never longer than what it takes of the area.
LEMMA SizeFacts ==
    ASSUME area \in Areas, NEW bytes \in Nat
    PROVE  /\ Taken(bytes) \in Nat
           /\ PartBytes(bytes) \in Nat
           /\ PartBytes(bytes) <= Taken(bytes)
<1>1. AtLeast(bytes) \in Nat
  BY AreaFields DEF AtLeast
<1>2. Taken(bytes) \in Nat /\ Taken(bytes) >= AtLeast(bytes)
  BY <1>1, RoundUpFacts, AreaFields DEF Taken
<1>. QED
  BY <1>1, <1>2 DEF PartBytes

LEMMA AreaFacts == ASSUME area \in Areas PROVE AreaBytes \in Nat
<1>1. AtLeast(area.total) \in Nat
  BY AreaFields DEF AtLeast
<1>2. RoundUp(area.total, area.align) \in Nat
  BY RoundUpFacts, AreaFields
<1>. QED
  BY <1>1, <1>2 DEF AreaBytes

-----------------------------------------------------------------------------
\* Multiples, and the least that is not less: next_multiple_of.

Multiple(n, a) == \E q \in Nat : n = q * a

LEMMA Division ==
    ASSUME NEW n \in Nat, NEW a \in Nat \ {0}
    PROVE  n = (n \div a) * a + (n % a) /\ n \div a \in Nat /\ n % a \in Nat /\ n % a < a
  BY SMT

LEMMA Remainder ==
    ASSUME NEW a \in Nat \ {0}, NEW q \in Int, NEW n \in Nat, n = q * a
    PROVE  n % a = 0
  BY Z3

\* Multiples are a apart.
LEMMA Steps ==
    ASSUME NEW p \in Int, NEW q \in Int, NEW a \in Nat \ {0}, p < q
    PROVE  p * a + a <= q * a
<1>1. PICK d \in Nat : q = p + 1 + d
  <2>1. q - p - 1 \in Nat /\ q = p + 1 + (q - p - 1) OBVIOUS
  <2>2. QED  BY <2>1
<1>2. q * a = p * a + a + d * a  BY <1>1
<1>3. d * a \in Nat  OBVIOUS
<1>4. p * a \in Int  OBVIOUS
<1>5. QED  BY <1>2, <1>3, <1>4

LEMMA MultipleIs ==
    ASSUME NEW n \in Nat, NEW a \in Nat \ {0}
    PROVE  n % a = 0 <=> Multiple(n, a)
<1>1. ASSUME n % a = 0 PROVE Multiple(n, a)
  BY <1>1, Division DEF Multiple
<1>2. ASSUME NEW q \in Nat, n = q * a PROVE n % a = 0
  BY <1>2, Remainder
<1>3. QED  BY <1>1, <1>2 DEF Multiple

LEMMA RoundUpMultiple ==
    ASSUME NEW n \in Nat, NEW a \in Nat \ {0}
    PROVE  Multiple(RoundUp(n, a), a)
<1>1. n = (n \div a) * a + (n % a) /\ n \div a \in Nat  BY Division
<1>2. CASE n % a = 0  BY <1>1, <1>2 DEF RoundUp, Multiple
<1>3. CASE n % a # 0
  <2>1. RoundUp(n, a) = n + (a - (n % a))  BY <1>3 DEF RoundUp
  <2>2. n % a \in Nat  BY Division
  <2>3. n + (a - (n % a)) = (n \div a) * a + a
    <3> DEFINE x == (n \div a) * a
               r == n % a
    <3>1. x \in Int /\ r \in Nat /\ n = x + r  BY <1>1, <2>2
    <3> HIDE DEF x, r
    <3>2. n + (a - r) = x + a  BY <3>1
    <3>3. QED  BY <3>2 DEF x, r
  <2>4. (n \div a) * a + a = (n \div a + 1) * a /\ n \div a + 1 \in Nat  BY <1>1
  <2>5. QED  BY <1>1, <2>1, <2>3, <2>4 DEF Multiple
<1>4. QED  BY <1>2, <1>3

\* Rounding up never passes a multiple.
LEMMA RoundUpLeast ==
    ASSUME NEW n \in Nat, NEW m \in Nat, NEW a \in Nat \ {0}, n <= m, Multiple(m, a)
    PROVE  RoundUp(n, a) <= m
<1>1. PICK q \in Nat : m = q * a  BY DEF Multiple
<1>2. n = (n \div a) * a + (n % a) /\ n \div a \in Nat /\ n % a \in Nat /\ n % a < a  BY Division
<1>3. CASE n % a = 0  BY <1>3 DEF RoundUp
<1>4. CASE n % a # 0
  <2> DEFINE p == n \div a
             x == p * a
             y == q * a
             r == n % a
  <2>1. p < q \/ q < p \/ p = q  BY <1>2
  <2>2. p < q => x + a <= y  BY <1>2, Steps
  <2>3. q < p => y + a <= x  BY <1>2, Steps
  <2>4. p = q => x = y OBVIOUS
  <2>5. x \in Int /\ y \in Int /\ r \in Nat /\ r # 0 /\ r < a /\ n = x + r /\ m = y /\ RoundUp(n, a) = n + (a - r)
    BY <1>1, <1>2, <1>4 DEF RoundUp
  <2> HIDE DEF p, x, y, r
  <2>6. n + (a - r) <= m BY <2>1, <2>2, <2>3, <2>4, <2>5
  <2>7. QED  BY <2>5, <2>6
<1>5. QED  BY <1>3, <1>4

LEMMA SumMultiple ==
    ASSUME NEW n, NEW m, NEW a \in Nat \ {0}, Multiple(n, a), Multiple(m, a)
    PROVE  Multiple(n + m, a)
<1>1. PICK p \in Nat, q \in Nat : n = p * a /\ m = q * a  BY DEF Multiple
<1>2. n + m = (p + q) * a /\ p + q \in Nat  BY <1>1
<1>3. QED  BY <1>2 DEF Multiple

LEMMA RestMultiple ==
    ASSUME NEW n \in Nat, NEW m \in Nat, NEW a \in Nat \ {0}, Multiple(n, a), Multiple(m, a), m <= n
    PROVE  Multiple(n - m, a)
<1>1. PICK p \in Nat, q \in Nat : n = p * a /\ m = q * a  BY DEF Multiple
<1>2. p < q => n + a <= m  BY <1>1, Steps
<1>3. p - q \in Nat  BY <1>2
<1>4. n - m = (p - q) * a  BY <1>1
<1>5. QED  BY <1>3, <1>4 DEF Multiple

-----------------------------------------------------------------------------
\* The types that the arithmetic needs: TypeOK without the alignment.
Types ==
    /\ area \in Areas
    /\ next \in Nat
    /\ parts \in Seq([start : Nat, bytes : Nat])
    /\ asked \in [Threads -> Asks \cup {None}]
    /\ seen \in [Threads -> Nat]

\* Parts in the order of their addresses, all before next.
InLine ==
    /\ next <= AreaBytes
    /\ \A k \in DOMAIN parts : parts[k].start + parts[k].bytes <= next
    /\ \A j, k \in DOMAIN parts : j < k => parts[j].start + parts[j].bytes <= parts[k].start

AreaInv == Types /\ InLine

LEMMA AreaBytesStays == area' = area => AreaBytes' = AreaBytes
  BY DEF AreaBytes, AtLeast, RoundUp

LEMMA PartTypes ==
    ASSUME Types, NEW k \in DOMAIN parts
    PROVE  parts[k].start \in Nat /\ parts[k].bytes \in Nat
<1>. DEFINE Part == [start : Nat, bytes : Nat]
<1>1. parts \in Seq(Part)
  BY DEF Types
<1>2. \A part \in Part : part.start \in Nat /\ part.bytes \in Nat
  OBVIOUS
<1>. HIDE DEF Part
<1>3. parts[k] \in Part
  BY <1>1
<1>. QED
  BY <1>2, <1>3

LEMMA AreaInvInit == Init => AreaInv
  BY AreaFacts DEF Init, AreaInv, Types, InLine

\* The only step that changes next or the parts.
LEMMA CutKeeps ==
    ASSUME AreaInv, NEW t \in Threads, asked[t] # None,
           Fits(asked[t], seen[t]), next = seen[t], Cut(t)
    PROVE  AreaInv'
<1>. DEFINE part == [start |-> next, bytes |-> PartBytes(asked[t])]
<1>1. asked[t] \in Nat
  BY BytesAssumption DEF AreaInv, Types
<1>2. /\ PartBytes(asked[t]) \in Nat /\ Taken(asked[t]) \in Nat
      /\ PartBytes(asked[t]) <= Taken(asked[t])
  BY <1>1, SizeFacts DEF AreaInv, Types
<1>3. part \in [start : Nat, bytes : Nat] /\ part.start = next /\ part.bytes = PartBytes(asked[t])
  BY <1>2 DEF AreaInv, Types
<1>4. parts' = Append(parts, part) /\ next' = next + Taken(asked[t])
  BY DEF Cut
<1>. HIDE DEF part
<1>5. Types'
  <2>1. next' \in Nat
    BY <1>2, <1>4 DEF AreaInv, Types
  <2>2. parts' \in Seq([start : Nat, bytes : Nat])
    BY <1>3, <1>4 DEF AreaInv, Types
  <2>4. area' \in Areas
    BY DEF AreaInv, Types, Cut
  <2>3. asked' \in [Threads -> Asks \cup {None}] /\ seen' \in [Threads -> Nat]
    BY DEF AreaInv, Types, Cut
  <2>. QED
    BY <2>1, <2>2, <2>3, <2>4 DEF Types
<1>6. next' <= AreaBytes
  BY <1>2, <1>4, AreaFacts DEF AreaInv, Types, Fits
<1>11. AreaBytes' = AreaBytes
  BY AreaBytesStays DEF Cut
<1>7. /\ DOMAIN parts = 1..Len(parts) /\ Len(parts) \in Nat
      /\ DOMAIN parts' = 1..Len(parts) + 1
      /\ \A k \in DOMAIN parts : parts'[k] = parts[k]
      /\ parts'[Len(parts) + 1] = part
  BY <1>3, <1>4 DEF AreaInv, Types
<1>8. \A k \in DOMAIN parts : parts[k].start \in Nat /\ parts[k].bytes \in Nat
  BY PartTypes DEF AreaInv
<1>9. ASSUME NEW k \in DOMAIN parts'
      PROVE  parts'[k].start + parts'[k].bytes <= next'
  <2>1. CASE k \in DOMAIN parts
    <3>1. parts[k].start + parts[k].bytes <= next
      BY <2>1 DEF AreaInv, InLine
    <3>2. parts'[k] = parts[k] /\ parts[k].start \in Nat /\ parts[k].bytes \in Nat
      BY <2>1, <1>7, <1>8
    <3>. QED
      <4>1. next \in Nat /\ next' \in Nat /\ next <= next'
        BY <1>2, <1>4 DEF AreaInv, Types
      <4>. QED
        BY <4>1, <3>1, <3>2
  <2>2. CASE k = Len(parts) + 1
    BY <2>2, <1>2, <1>3, <1>4, <1>7 DEF AreaInv, Types
  <2>. QED
    BY <2>1, <2>2, <1>7
<1>10. ASSUME NEW j \in DOMAIN parts', NEW k \in DOMAIN parts', j < k
       PROVE  parts'[j].start + parts'[j].bytes <= parts'[k].start
  <2>1. j \in DOMAIN parts
    BY <1>7, <1>10
  <2>2. CASE k \in DOMAIN parts
    BY <2>1, <2>2, <1>7, <1>10 DEF AreaInv, InLine
  <2>3. CASE k = Len(parts) + 1
    BY <2>1, <2>3, <1>3, <1>7 DEF AreaInv, InLine
  <2>. QED
    BY <2>2, <2>3, <1>7
<1>. QED
  BY <1>5, <1>6, <1>9, <1>10, <1>11 DEF AreaInv, InLine

LEMMA AreaInvStep ==
    ASSUME AreaInv, [Next]_vars
    PROVE  AreaInv'
<1>1. ASSUME NEW t \in Threads, NEW bytes \in Asks, StartCarve(t, bytes)
      PROVE  AreaInv'
  BY <1>1, AreaBytesStays DEF StartCarve, AreaInv, Types, InLine
<1>2. ASSUME NEW t \in Threads, CompareExchange(t)
      PROVE  AreaInv'
  <2>1. CASE next = seen[t] /\ Cut(t)
    BY <1>2, <2>1, CutKeeps DEF CompareExchange
  <2>2. CASE next # seen[t]
    BY <1>2, <2>2, AreaBytesStays DEF CompareExchange, AreaInv, Types, InLine
  <2>. QED
    BY <1>2, <2>1, <2>2 DEF CompareExchange
<1>3. ASSUME NEW t \in Threads, Refuse(t)
      PROVE  AreaInv'
  BY <1>3, AreaBytesStays DEF Refuse, AreaInv, Types, InLine
<1>4. ASSUME NEW k \in DOMAIN parts, DropTensor(k)
      PROVE  AreaInv'
  BY <1>4, AreaBytesStays DEF DropTensor, AreaInv, Types, InLine
<1>5. CASE Release
  BY <1>5, AreaBytesStays DEF Release, AreaInv, Types, InLine
<1>6. CASE UNCHANGED vars
  BY <1>6, AreaBytesStays DEF vars, AreaInv, Types, InLine
<1>. QED
  BY <1>1, <1>2, <1>3, <1>4, <1>5, <1>6 DEF Next

\* In a line, parts are apart.
LEMMA InLineApart == AreaInv => PartsApart
<1>. SUFFICES ASSUME AreaInv, NEW j \in DOMAIN parts, NEW k \in DOMAIN parts, j # k
              PROVE  Apart(parts[j], parts[k])
  BY DEF PartsApart
<1>1. j \in Nat /\ k \in Nat
  BY DEF AreaInv, Types
<1>. QED
  BY <1>1 DEF AreaInv, InLine, Apart

LEMMA InLineInside == AreaInv => PartsInside
<1>. SUFFICES ASSUME AreaInv, NEW k \in DOMAIN parts
              PROVE  parts[k].start + parts[k].bytes <= AreaBytes
  BY DEF PartsInside, AreaInv, InLine
<1>1. parts[k].start \in Nat /\ parts[k].bytes \in Nat
  BY PartTypes DEF AreaInv
<1>. QED
  BY <1>1, AreaFacts DEF AreaInv, InLine, Types

\* No byte of an area is in two parts, whatever the threads, sizes and alignment
\* (the SAFETY comment of CpuArea, src/backends/cpu.rs:351).
THEOREM CarvedApart == Spec => []PartsApart
<1>. QED
  BY AreaInvInit, AreaInvStep, InLineApart, PTL DEF Spec

\* Every part lies inside its area (src/backends/cpu.rs:402).
THEOREM CarvedInside == Spec => []PartsInside
<1>. QED
  BY AreaInvInit, AreaInvStep, InLineInside, PTL DEF Spec

-----------------------------------------------------------------------------
\* Where parts start and what a carve may still believe.

Marks ==
    /\ next % area.align = 0
    /\ \A t \in Threads : seen[t] <= next
    /\ area.cuda => \A k \in DOMAIN parts : parts[k].bytes >= area.least
    /\ dropped \subseteq DOMAIN parts
    /\ released \in BOOLEAN

MarkedInv == AreaInv /\ Marks

LEMMA MarksInit == Init => Marks
<1>. SUFFICES ASSUME Init PROVE Marks
  OBVIOUS
<1>1. next = 0 /\ area.align \in Nat \ {0} /\ DOMAIN parts = {}
  BY AreaFields DEF Init
<1>2. 0 % area.align = 0
  BY <1>1, Remainder
<1>3. \A t \in Threads : seen[t] <= next
  BY DEF Init
<1>4. dropped \subseteq DOMAIN parts /\ released \in BOOLEAN
  BY DEF Init
<1>. QED
  BY <1>1, <1>2, <1>3, <1>4 DEF Marks

LEMMA CutMarks ==
    ASSUME MarkedInv, NEW t \in Threads, asked[t] # None, next = seen[t], Cut(t)
    PROVE  Marks'
<1>1. asked[t] \in Nat /\ area \in Areas /\ next \in Nat
  BY BytesAssumption DEF MarkedInv, AreaInv, Types
<1>2. area.align \in Nat \ {0} /\ area.least \in Nat
  BY <1>1, AreaFields
<1>3. AtLeast(asked[t]) \in Nat /\ AtLeast(asked[t]) >= area.least
  BY <1>1, <1>2 DEF AtLeast
<1>4. next' = next + Taken(asked[t]) /\ Taken(asked[t]) \in Nat
  BY <1>1, SizeFacts DEF Cut
<1>5. next' % area'.align = 0
  <2>1. Multiple(Taken(asked[t]), area.align)
    BY <1>2, <1>3, RoundUpMultiple DEF Taken
  <2>2. Multiple(next, area.align)
    BY <1>1, <1>2, MultipleIs DEF MarkedInv, Marks
  <2>3. Multiple(next + Taken(asked[t]), area.align)
    BY <1>2, <2>1, <2>2, SumMultiple
  <2>4. next' % area.align = 0
    BY <1>1, <1>2, <1>4, <2>3, MultipleIs
  <2>. QED
    BY <2>4 DEF Cut
<1>6. \A u \in Threads : seen'[u] <= next'
  <2>1. \A u \in Threads : seen'[u] \in Nat /\ seen'[u] <= next
    BY DEF MarkedInv, AreaInv, Types, Marks, Cut
  <2>. QED
    BY <1>1, <1>4, <2>1
<1>. DEFINE part == [start |-> seen[t], bytes |-> PartBytes(asked[t])]
<1>7. part.bytes = PartBytes(asked[t]) /\ parts' = Append(parts, part)
  BY DEF Cut
<1>8. part \in [start : Nat, bytes : Nat]
  BY <1>1, SizeFacts DEF MarkedInv, AreaInv, Types
<1>. HIDE DEF part
<1>9. /\ DOMAIN parts = 1..Len(parts) /\ Len(parts) \in Nat
      /\ DOMAIN parts' = 1..(Len(parts) + 1)
      /\ \A k \in DOMAIN parts : parts'[k] = parts[k]
      /\ parts'[Len(parts) + 1] = part
  BY <1>7, <1>8 DEF MarkedInv, AreaInv, Types
<1>10. area'.cuda => \A k \in DOMAIN parts' : parts'[k].bytes >= area'.least
  <2>. SUFFICES ASSUME area.cuda, NEW k \in DOMAIN parts' PROVE parts'[k].bytes >= area.least
    BY DEF Cut
  <2>1. CASE k \in DOMAIN parts
    BY <2>1, <1>9 DEF MarkedInv, Marks
  <2>2. CASE k = Len(parts) + 1
    BY <2>2, <1>3, <1>7, <1>9 DEF PartBytes
  <2>. QED
    BY <1>9, <2>1, <2>2
<1>11. dropped' \subseteq DOMAIN parts' /\ released' \in BOOLEAN
  BY <1>9 DEF Cut, MarkedInv, Marks
<1>. QED
  BY <1>5, <1>6, <1>10, <1>11 DEF Marks

LEMMA MarksStep ==
    ASSUME MarkedInv, [Next]_vars
    PROVE  Marks'
<1>1. ASSUME NEW t \in Threads, NEW bytes \in Asks, StartCarve(t, bytes)
      PROVE  Marks'
  BY <1>1 DEF StartCarve, MarkedInv, AreaInv, Types, Marks
<1>2. ASSUME NEW t \in Threads, CompareExchange(t)
      PROVE  Marks'
  <2>1. CASE next = seen[t] /\ Cut(t)
    BY <1>2, <2>1, CutMarks DEF CompareExchange
  <2>2. CASE next # seen[t]
    <3>1. seen' = [seen EXCEPT ![t] = next] /\ UNCHANGED <<area, next, parts, dropped, asked, released>>
      BY <1>2, <2>2 DEF CompareExchange
    <3>2. \A u \in Threads : seen'[u] <= next'
      BY <3>1 DEF MarkedInv, AreaInv, Types, Marks
    <3>. QED
      BY <3>1, <3>2 DEF MarkedInv, Marks
  <2>. QED
    BY <1>2, <2>1, <2>2 DEF CompareExchange
<1>3. ASSUME NEW t \in Threads, Refuse(t)
      PROVE  Marks'
  BY <1>3 DEF Refuse, MarkedInv, Marks
<1>4. ASSUME NEW k \in DOMAIN parts, DropTensor(k)
      PROVE  Marks'
  BY <1>4 DEF DropTensor, MarkedInv, Marks
<1>5. CASE Release
  BY <1>5 DEF Release, MarkedInv, Marks
<1>6. CASE UNCHANGED vars
  BY <1>6 DEF vars, MarkedInv, Marks
<1>. QED
  BY <1>1, <1>2, <1>3, <1>4, <1>5, <1>6 DEF Next

LEMMA MarkedHolds == Spec => []MarkedInv
<1>1. Init => MarkedInv
  BY AreaInvInit, MarksInit DEF MarkedInv
<1>2. MarkedInv /\ [Next]_vars => MarkedInv'
  <2>. SUFFICES ASSUME MarkedInv, [Next]_vars PROVE MarkedInv'
    OBVIOUS
  <2>1. AreaInv' /\ Marks'
    BY AreaInvStep, MarksStep DEF MarkedInv
  <2>. QED
    BY <2>1 DEF MarkedInv
<1>. QED
  BY <1>1, <1>2, PTL DEF Spec

\* `next` stays a multiple of the alignment, for any alignment and sizes
\* (src/backends/cuda.rs:497).
THEOREM CarvedAligned == Spec => []TypeOK
<1>1. MarkedInv => TypeOK
  BY DEF MarkedInv, AreaInv, Types, Marks, TypeOK
<1>. QED
  BY <1>1, MarkedHolds, PTL

\* No two parts of a CUDA area start at one address, whatever its size and however
\* carves interleave, empty parts among them (src/backends/cuda.rs:22).
THEOREM CarvedDiffer == Spec => []CudaAddressesDiffer
<1>1. ASSUME MarkedInv, area.cuda PROVE \A j, k \in DOMAIN parts : j # k => parts[j].start # parts[k].start
  <2>1. ASSUME NEW j \in DOMAIN parts, NEW k \in DOMAIN parts, j < k
        PROVE  parts[j].start # parts[k].start
    <3>1. parts[j].start \in Nat /\ parts[j].bytes \in Nat /\ parts[k].start \in Nat
      BY <1>1, PartTypes DEF MarkedInv, AreaInv
    <3>2. parts[j].start + parts[j].bytes <= parts[k].start
      BY <1>1, <2>1 DEF MarkedInv, AreaInv, InLine
    <3>3. area.least \in Nat /\ area.least # 0 /\ parts[j].bytes >= area.least
      BY <1>1, AreasAssumption, AreaFields DEF MarkedInv, AreaInv, Types, Marks
    <3>. QED
      BY <3>1, <3>2, <3>3
  <2>2. \A k \in DOMAIN parts : k \in Nat
    BY <1>1 DEF MarkedInv, AreaInv, Types
  <2>3. ASSUME NEW j \in DOMAIN parts, NEW k \in DOMAIN parts, j # k
        PROVE  j < k \/ k < j
    BY <2>2, <2>3
  <2>. QED
    BY <2>1, <2>3
<1>2. MarkedInv => CudaAddressesDiffer
  BY <1>1 DEF CudaAddressesDiffer
<1>. QED
  BY <1>2, MarkedHolds, PTL

\* A carve of an area that is a multiple of the alignment fails only if remaining_bytes
\* is less than it asks for: what it saw of `next` may be old, but `next` only grew.
THEOREM RefusedMeansFull == Spec => AlignedRefusedWhenFull
<1>1. ASSUME MarkedInv, Next, AreaBytes % area.align = 0, NEW t \in Threads,
             asked[t] # None, asked'[t] = None, parts' = parts
      PROVE  AtLeast(asked[t]) > remaining_bytes
  <2>1. ~ Fits(asked[t], seen[t])
    <3>1. ASSUME NEW u \in Threads, NEW bytes \in Asks, StartCarve(u, bytes) PROVE FALSE
      <4>1. bytes # None
        BY BytesAssumption, NoneAssumption
      <4>. QED
        BY <1>1, <3>1, <4>1 DEF StartCarve, MarkedInv, AreaInv, Types
    <3>2. ASSUME NEW u \in Threads, CompareExchange(u) PROVE FALSE
      <4>1. CASE Cut(u)
        <5>. DEFINE part == [start |-> seen[u], bytes |-> PartBytes(asked[u])]
        <5>1. parts' = Append(parts, part) /\ parts \in Seq([start : Nat, bytes : Nat])
          BY <1>1, <4>1 DEF Cut, MarkedInv, AreaInv, Types
        <5>. HIDE DEF part
        <5>2. Len(parts') = Len(parts) + 1 /\ Len(parts) \in Nat
          BY <5>1
        <5>. QED
          BY <1>1, <5>2
      <4>. QED
        BY <1>1, <3>2, <4>1 DEF CompareExchange
    <3>3. ASSUME NEW u \in Threads, Refuse(u) PROVE ~ Fits(asked[t], seen[t])
      BY <1>1, <3>3 DEF Refuse, MarkedInv, AreaInv, Types
    <3>. QED
      BY <1>1, <3>1, <3>2, <3>3 DEF Next, DropTensor, Release
  <2>2. /\ area \in Areas /\ next \in Nat /\ seen[t] \in Nat /\ seen[t] <= next /\ next <= AreaBytes
        /\ asked[t] \in Nat /\ next % area.align = 0
    BY <1>1, BytesAssumption DEF MarkedInv, AreaInv, Types, InLine, Marks
  <2>3. AreaBytes \in Nat /\ area.align \in Nat \ {0} /\ AtLeast(asked[t]) \in Nat
    BY <2>2, AreaFacts, AreaFields DEF AtLeast
  <2>4. Multiple(AreaBytes - next, area.align)
    BY <1>1, <2>2, <2>3, MultipleIs, RestMultiple
  <2>5. AtLeast(asked[t]) <= AreaBytes - next => Taken(asked[t]) <= AreaBytes - next
    BY <2>2, <2>3, <2>4, RoundUpLeast DEF Taken
  <2>6. Taken(asked[t]) \in Nat
    BY <2>2, SizeFacts
  <2>. QED
    BY <2>1, <2>2, <2>3, <2>5, <2>6 DEF Fits, remaining_bytes
<1>2. MarkedInv /\ [Next]_vars => [AreaBytes % area.align = 0 => OutOfRoom]_vars
  BY <1>1 DEF OutOfRoom
<1>. QED
  BY <1>2, MarkedHolds, PTL DEF Spec, AlignedRefusedWhenFull

=============================================================================
