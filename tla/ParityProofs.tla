---------------------------- MODULE ParityProofs ----------------------------
(***************************************************************************)
(* Proofs about a comparison: whatever sizes a workgroup and a tile have   *)
(* (a workgroup's a power of two), whatever the data, a report that passes *)
(* speaks for every element, and every builtin's native and WGSL code pass *)
(* its own cases.                                                          *)
(*                                                                         *)
(* CompareInv is what a comparison keeps.  That the codes agree is then a  *)
(* fact about loops: a sum taken tile by tile, or by a workgroup's tree,   *)
(* with zeros past the end, is the sum taken in order.  The inductions are *)
(* over a set of the numbers for which the fact holds (CountUp).           *)
(***************************************************************************)
EXTENDS Parity, TLAPS, WellFoundedInduction

-----------------------------------------------------------------------------
(* The cases, kind by kind.                                                *)

LEMMA Division ==
    ASSUME NEW n \in Nat, NEW a \in Nat \ {0}
    PROVE  n = (n \div a) * a + (n % a) /\ n \div a \in Nat /\ n % a \in Nat /\ n % a < a
  BY SMT

\* Enough tiles, and never none.
LEMMA TilesCover ==
    ASSUME NEW n \in Nat, NEW size \in Nat \ {0}
    PROVE  tiles(n, size) \in Nat \ {0} /\ n <= tiles(n, size) * size
<1> DEFINE k == n + size - 1
           q == k \div size
<1>1. k \in Nat  OBVIOUS
<1>2. k = q * size + (k % size) /\ q \in Nat /\ k % size \in Nat /\ k % size < size
  <2> HIDE DEF k
  <2> QED  BY <1>1, Division
<1>3. CASE n = 0  BY <1>3 DEF tiles
<1>4. CASE n # 0
  <2>1. tiles(n, size) = q  BY <1>4 DEF tiles
  <2>2. n <= q * size
    <3> DEFINE p == q * size
    <3>1. p \in Int  BY <1>2
    <3> HIDE DEF p, q
    <3> QED  BY <1>2, <3>1 DEF p
  <2>3. q # 0
    <3> HIDE DEF q
    <3> QED  BY <2>2, <1>4
  <2> HIDE DEF q
  <2> QED  BY <1>2, <2>1, <2>2, <2>3
<1> QED  BY <1>3, <1>4

LEMMA SizesAre ==
    /\ Group \in Nat /\ Group >= 1 /\ Group \in Nat \ {0}
    /\ Tile \in Nat /\ Tile >= 1 /\ Tile \in Nat \ {0}
BY SizesAssumption

LEMMA MatmulCases ==
    ASSUME NEW name \in Matmuls, NEW c \in cases(name)
    PROVE  \E a, b, k \in Nat :
              c = [meta |-> <<a, b, k>>, workgroups |-> <<tiles(b, Tile), tiles(a, Tile)>>,
                   checks |-> <<ignore, ignore, products>>]
<1> DEFINE metas == {<<1, 1, 1>>, <<Tile, Tile, Tile>>, <<Tile + 1, Tile - 1, 2 * Tile + 1>>,
                     <<1, 2 * Tile + 1, 1>>, <<1, 2, 0>>}
           of(m) == [meta |-> m, workgroups |-> <<tiles(m[2], Tile), tiles(m[1], Tile)>>,
                     checks |-> <<ignore, ignore, products>>]
<1>1. cases(name) = {of(m) : m \in metas}  BY DEF cases, Matmuls, Gemvs
<1>2. \A m \in metas : \E a, b, k \in Nat : m = <<a, b, k>>
  <2>1. 2 * Tile + 1 \in Nat /\ Tile - 1 \in Nat /\ Tile + 1 \in Nat  BY SizesAre
  <2> QED  BY <2>1, SizesAre
<1>3. PICK m \in metas : c = of(m)  BY <1>1
<1>4. PICK a, b, k \in Nat : m = <<a, b, k>>  BY <1>2
<1>5. m[1] = a /\ m[2] = b  BY <1>4
<1> QED  BY <1>3, <1>4, <1>5

LEMMA GemvCases ==
    ASSUME NEW name \in Gemvs, NEW c \in cases(name)
    PROVE  \E n, k \in Nat :
              c = [meta |-> <<1>> \o <<n, k>>, workgroups |-> <<tiles(n, Group), 1>>,
                   checks |-> <<ignore, ignore, products>>]
<1> DEFINE metas == {<<1, 1>>, <<Group - 1, 2>>, <<Group + 1, 3>>, <<Group + 2, 0>>}
           of(m) == [meta |-> <<1>> \o m, workgroups |-> <<tiles(m[1], Group), 1>>,
                     checks |-> <<ignore, ignore, products>>]
<1>1. cases(name) = {of(m) : m \in metas}  BY DEF cases, Matmuls, Gemvs
<1>2. \A m \in metas : \E n, k \in Nat : m = <<n, k>>
  <2>1. Group - 1 \in Nat /\ Group + 1 \in Nat /\ Group + 2 \in Nat  BY SizesAre
  <2> QED  BY <2>1, SizesAre
<1>3. PICK m \in metas : c = of(m)  BY <1>1
<1>4. PICK n, k \in Nat : m = <<n, k>>  BY <1>2
<1>5. m[1] = n /\ m[2] = k  BY <1>4
<1> QED  BY <1>3, <1>4, <1>5

LEMMA TransposeCases ==
    ASSUME NEW c \in cases("transpose")
    PROVE  \E a, b \in Nat :
              c = [meta |-> <<a, b>>, workgroups |-> <<tiles(b, Tile), tiles(a, Tile)>>,
                   checks |-> <<ignore, EXACT>>]
<1> DEFINE metas == {<<1, 1>>, <<Tile, Tile>>, <<Tile + 1, 2 * Tile + 1>>, <<1, 3 * Tile + 1>>}
           of(m) == [meta |-> m, workgroups |-> <<tiles(m[2], Tile), tiles(m[1], Tile)>>,
                     checks |-> <<ignore, EXACT>>]
<1>1. cases("transpose") = {of(m) : m \in metas}  BY DEF cases, Matmuls, Gemvs
<1>2. \A m \in metas : \E a, b \in Nat : m = <<a, b>>
  <2>1. 2 * Tile + 1 \in Nat /\ 3 * Tile + 1 \in Nat /\ Tile + 1 \in Nat  BY SizesAre
  <2> QED  BY <2>1, SizesAre
<1>3. PICK m \in metas : c = of(m)  BY <1>1
<1>4. PICK a, b \in Nat : m = <<a, b>>  BY <1>2
<1>5. m[1] = a /\ m[2] = b  BY <1>4
<1> QED  BY <1>3, <1>4, <1>5

\* The checks of a builtin of one length.
ChecksOf(name) ==
    CASE name = "dot" -> <<ignore, ignore, total>>
      [] name = "sum" -> <<ignore, total>>
      [] name \in {"add", "mul", "max", "min"} -> <<EXACT, ignore>>
      [] OTHER -> <<EXACT>>

Lengths == {0, 1, Group - 1, Group, Group + 1, 2 * Group + 1}

LEMMA LengthsNat == Lengths \subseteq Nat
BY SizesAre DEF Lengths

LEMMA LengthCases ==
    ASSUME NEW name \in Elementwise \cup Reductions, NEW c \in cases(name)
    PROVE  \E n \in Lengths :
              c = [meta |-> <<n>> \o rest(name, n), workgroups |-> <<tiles(n, Group), 1>>,
                   checks |-> ChecksOf(name)]
<1>1. name \notin Matmuls /\ name \notin Gemvs /\ name # "transpose"
  BY DEF Elementwise, Reductions, Matmuls, Gemvs
<1>2. cases(name) = each_n(name, ChecksOf(name))  BY <1>1 DEF cases, ChecksOf
<1> QED  BY <1>2 DEF each_n, Lengths

LEMMA RestIs ==
    ASSUME NEW name, NEW n \in Nat
    PROVE  /\ (<<n>> \o rest(name, n))[1] = n
           /\ name = "scale" => (<<n>> \o rest(name, n))[2] = -2
           /\ name = "clamp" => (<<n>> \o rest(name, n))[2] = -1 /\ (<<n>> \o rest(name, n))[3] = 1
           /\ name = "fill_constant" => (<<n>> \o rest(name, n))[2] = 3
           /\ name = "fill_random" => (<<n>> \o rest(name, n))[2] = n
<1>1. rest(name, n) \in Seq(Int)  BY DEF rest
<1>2. CASE name = "scale"  BY <1>2 DEF rest
<1>3. CASE name = "clamp"  BY <1>3 DEF rest
<1>4. CASE name = "fill_constant"  BY <1>4 DEF rest
<1>5. CASE name = "fill_random"  BY <1>5 DEF rest
<1>6. (<<n>> \o rest(name, n))[1] = n  BY <1>1
<1> QED  BY <1>2, <1>3, <1>4, <1>5, <1>6

LEMMA Fields ==
    ASSUME NEW c, NEW m, NEW w, NEW k, c = [meta |-> m, workgroups |-> w, checks |-> k]
    PROVE  /\ c.meta = m /\ c.workgroups = w /\ c.checks = k
           /\ c = [meta |-> c.meta, workgroups |-> c.workgroups, checks |-> c.checks]
OBVIOUS

\* Any case is a record of a kind.
LEMMA CasesAre ==
    ASSUME NEW name \in Builtins, NEW c \in cases(name)
    PROVE  c = [meta |-> c.meta, workgroups |-> c.workgroups, checks |-> c.checks]
<1>1. CASE name \in Matmuls  BY <1>1, MatmulCases
<1>2. CASE name \in Gemvs
  <2>1. PICK n, k \in Nat : c = [meta |-> <<1>> \o <<n, k>>, workgroups |-> <<tiles(n, Group), 1>>,
                                checks |-> <<ignore, ignore, products>>]
    BY <1>2, GemvCases
  <2> QED  BY Zenon, <2>1, Fields
<1>3. CASE name = "transpose"  BY <1>3, TransposeCases
<1>4. CASE name \in Elementwise \cup Reductions
  <2>1. PICK n \in Lengths :
            c = [meta |-> <<n>> \o rest(name, n), workgroups |-> <<tiles(n, Group), 1>>,
                 checks |-> ChecksOf(name)]
    BY <1>4, LengthCases
  <2> QED  BY Zenon, <2>1, Fields
<1> QED  BY <1>1, <1>2, <1>3, <1>4 DEF Builtins

LEMMA OwnCasesAre ==
    ASSUME NEW name \in Builtins, NEW c \in OwnCases(name)
    PROVE  \E d \in cases(name) : c.meta = d.meta /\ c.workgroups = d.workgroups
<1>1. PICK d \in cases(name) : \/ c = [d EXCEPT !.checks = [k \in DOMAIN @ |-> ignore]]
                               \/ c = [d EXCEPT !.checks = <<>>]
  BY DEF OwnCases
<1>2. d = [meta |-> d.meta, workgroups |-> d.workgroups, checks |-> d.checks]  BY CasesAre
<1> QED  BY <1>1, <1>2

\* A slot has at least no elements, and as many slots have lengths as the layout has.
LEMMA LensTyped ==
    ASSUME NEW name \in Builtins, NEW c \in cases(name) \cup OwnCases(name)
    PROVE  /\ DOMAIN min_lens(name, c.meta, c.workgroups) = DOMAIN layout(name)
           /\ \A slot \in DOMAIN layout(name) : min_lens(name, c.meta, c.workgroups)[slot] \in Nat
<1>1. PICK d \in cases(name) : c.meta = d.meta /\ c.workgroups = d.workgroups  BY OwnCasesAre
<1> DEFINE lens == min_lens(name, d.meta, d.workgroups)
<1>2. CASE name \in Matmuls
  <2>1. PICK a, b, k \in Nat : d.meta = <<a, b, k>>  BY <1>2, MatmulCases
  <2>2. lens = <<a * k, k * b, a * b>>  BY <1>2, <2>1 DEF min_lens, Matmuls, Gemvs, Reductions
  <2>3. DOMAIN layout(name) = 1..3  BY <1>2 DEF layout, Matmuls
  <2>4. a * k \in Nat /\ k * b \in Nat /\ a * b \in Nat  OBVIOUS
  <2> HIDE DEF lens
  <2>5. \A slot \in 1..3 : lens[slot] \in Nat  BY <2>2, <2>4
  <2>6. DOMAIN lens = 1..3  BY <2>2
  <2> QED  BY <1>1, <2>3, <2>5, <2>6 DEF lens
<1>3. CASE name \in Gemvs
  <2>0. PICK n, k \in Nat : d = [meta |-> <<1>> \o <<n, k>>, workgroups |-> <<tiles(n, Group), 1>>,
                                checks |-> <<ignore, ignore, products>>]
    BY <1>3, GemvCases
  <2>1. d.meta = <<1>> \o <<n, k>>  BY Zenon, <2>0, Fields
  <2>2. d.meta[2] = n /\ d.meta[3] = k  BY <2>1
  <2>3. lens = <<k, k * n, n>>  BY <1>3, <2>2 DEF min_lens, Matmuls, Gemvs, Reductions
  <2>4. DOMAIN layout(name) = 1..3  BY <1>3 DEF layout, Gemvs
  <2>5. k * n \in Nat  OBVIOUS
  <2> HIDE DEF lens
  <2>6. \A slot \in 1..3 : lens[slot] \in Nat  BY <2>3, <2>5
  <2>7. DOMAIN lens = 1..3  BY <2>3
  <2> QED  BY <1>1, <2>4, <2>6, <2>7 DEF lens
<1>4. CASE name = "transpose"
  <2>1. PICK a, b \in Nat : d.meta = <<a, b>>  BY <1>4, TransposeCases
  <2>2. lens = <<a * b, a * b>>  BY <1>4, <2>1 DEF min_lens, Matmuls, Gemvs, Reductions
  <2>3. DOMAIN layout(name) = 1..2  BY <1>4 DEF layout
  <2>4. a * b \in Nat  OBVIOUS
  <2> HIDE DEF lens
  <2>5. \A slot \in 1..2 : lens[slot] \in Nat  BY <2>2, <2>4
  <2>6. DOMAIN lens = 1..2  BY <2>2
  <2> QED  BY <1>1, <2>3, <2>5, <2>6 DEF lens
<1>5. CASE name \in Elementwise \cup Reductions
  <2>1. PICK n \in Nat : d.meta = <<n>> \o rest(name, n) /\ d.workgroups = <<tiles(n, Group), 1>>
    BY <1>5, LengthCases, LengthsNat
  <2>2. d.meta[1] = n  BY <2>1, RestIs
  <2>3. tiles(n, Group) \in Nat  BY TilesCover, SizesAre
  <2>4. d.workgroups[1] * d.workgroups[2] = tiles(n, Group)  BY <2>1, <2>3
  <2>5. name \notin Matmuls /\ name \notin Gemvs /\ name # "transpose"
    BY <1>5 DEF Elementwise, Reductions, Matmuls, Gemvs
  <2>6. CASE name \in Reductions
    <3>1. lens = [s \in DOMAIN layout(name) |-> IF s # Len(layout(name)) THEN n
                    ELSE IF tiles(n, Group) = 0 THEN 1 ELSE tiles(n, Group)]
      BY <2>2, <2>4, <2>5, <2>6 DEF min_lens
    <3> HIDE DEF lens
    <3>2. DOMAIN lens = DOMAIN layout(name) /\ \A slot \in DOMAIN layout(name) : lens[slot] \in Nat
      BY <2>3, <3>1
    <3> QED  BY <1>1, <3>2 DEF lens
  <2>7. CASE name \notin Reductions
    <3>1. lens = [s \in DOMAIN layout(name) |-> n]
      BY <2>2, <2>5, <2>7 DEF min_lens
    <3> HIDE DEF lens
    <3>2. DOMAIN lens = DOMAIN layout(name) /\ \A slot \in DOMAIN layout(name) : lens[slot] \in Nat
      BY <3>1
    <3> QED  BY <1>1, <3>2 DEF lens
  <2> QED  BY <2>6, <2>7
<1> QED  BY <1>2, <1>3, <1>4, <1>5 DEF Builtins

-----------------------------------------------------------------------------
(* Finding the first.                                                      *)

LEMMA LeastOf ==
    ASSUME NEW S \in SUBSET Nat, S # {}
    PROVE  \E m \in S : \A k \in S : m <= k
<1> DEFINE R == OpToRel(<, Nat)
<1>1. IsWellFoundedOn(R, Nat)  BY NatLessThanWellFounded
<1>2. PICK m \in S : \A k \in S : ~(<<k, m>> \in R)
  <2> HIDE DEF R
  <2> QED  BY <1>1, WFMin
<1>3. \A k \in S : ~(k < m)  BY <1>2 DEF OpToRel
<1> QED  BY <1>3

\* Nothing is found only where there is nothing.
LEMMA NoneFound ==
    ASSUME NEW hits \in SUBSET Nat,
           (IF hits = {} THEN None ELSE CHOOSE i \in hits : \A j \in hits : i <= j) = None
    PROVE  hits = {}
<1> SUFFICES ASSUME hits # {} PROVE FALSE  OBVIOUS
<1> DEFINE m == CHOOSE i \in hits : \A j \in hits : i <= j
<1>1. \E i \in hits : \A j \in hits : i <= j  BY LeastOf
<1>2. m \in hits  BY <1>1
<1>3. m = None  OBVIOUS
<1> HIDE DEF m
<1> QED  BY <1>2, <1>3, FloatsAssumption

\* A slot of n elements.
Filled(r, n) == r = [i \in 1..n |-> r[i]]

LEMMA FilledIs ==
    ASSUME NEW r, NEW n \in Nat, Filled(r, n)
    PROVE  DOMAIN r = 1..n /\ Len(r) = n
<1> DEFINE S == {r[i] : i \in 1..n}
<1>1. r \in [1..n -> S]  BY DEF Filled
<1>2. DOMAIN r = 1..n  BY DEF Filled
<1> HIDE DEF S
<1>3. r \in Seq(S)  BY <1>1
<1> QED  BY <1>2, <1>3

LEMMA NoOverrun ==
    ASSUME NEW r, NEW n \in Nat, Filled(r, n), NEW len \in Nat
    PROVE  overrun(len, r) = None <=> \A i \in DOMAIN r \ 1..len : r[i] = PAD
<1> DEFINE hits == {i \in (len + 1)..Len(r) : r[i] # PAD}
<1>1. DOMAIN r = 1..n /\ Len(r) = n  BY FilledIs
<1>2. overrun(len, r) = IF hits = {} THEN None ELSE CHOOSE i \in hits : \A j \in hits : i <= j
  BY DEF overrun, position
<1>3. hits \in SUBSET Nat  BY <1>1
<1>4. hits = {} <=> \A i \in DOMAIN r \ 1..len : r[i] = PAD  BY <1>1
<1> HIDE DEF hits
<1> QED  BY <1>2, <1>3, <1>4, NoneFound

LEMMA NoneUnwritten ==
    ASSUME NEW r, NEW len \in Nat, NEW role, NEW check
    PROVE  unwritten(role, check, len, r) = None
              <=> (role = "Output" /\ check.check # "Total" => \A i \in 1..len : r[i] # NaN)
<1> DEFINE hits == {i \in 1..len : role = "Output" /\ check.check # "Total" /\ r[i] = NaN}
<1>1. unwritten(role, check, len, r)
        = IF hits = {} THEN None ELSE CHOOSE i \in hits : \A j \in hits : i <= j
  BY DEF unwritten, position
<1>2. hits \in SUBSET Nat  OBVIOUS
<1>3. hits = {} <=> (role = "Output" /\ check.check # "Total" => \A i \in 1..len : r[i] # NaN)
  OBVIOUS
<1> HIDE DEF hits
<1> QED  BY <1>1, <1>2, <1>3, NoneFound

-----------------------------------------------------------------------------
(* A comparison's state.                                                   *)

Slots == DOMAIN layout(shaders[1])
Size(slot) == Lens[slot] + pad_len(shaders[1])
Side(k) == IF k = 1 THEN "native" ELSE "wgsl"

\* A side holds every slot, each as long as before.
SlotsHeld(s) == s = [slot \in Slots |-> s[slot]] /\ \A slot \in Slots : Filled(s[slot], Size(slot))

AskedInv ==
    /\ shaders[1] \in Shaders
    /\ case \in cases(shaders[1]) \cup OwnCases(shaders[1])
    /\ phase \in {"asked", "started", "compared", "refused"}
    /\ faults \in Nat

StartedInv ==
    /\ phase \in {"asked", "refused"} => out = <<>>
    /\ phase \in {"started", "compared"} =>
          /\ start = start_data(shaders[1], case, Lens)
          /\ Len(case.checks) = Len(layout(shaders[1]))

OutInv ==
    /\ out \in Seq({out[k] : k \in DOMAIN out}) /\ Len(out) <= 2
    /\ \A k \in DOMAIN out : SlotsHeld(out[k])
    /\ faults = 0 => \A k \in DOMAIN out :
          out[k] = entry(Side(k), shaders[1], case.meta, case.workgroups, start)

ReportInv ==
    phase = "compared" =>
        /\ Len(out) = 2
        /\ report = [slot \in DOMAIN start |->
                        SlotReport(layout(shaders[1])[slot], case.checks[slot], Lens[slot],
                                   out[1][slot], out[2][slot])]

CompareInv == AskedInv /\ StartedInv /\ OutInv /\ ReportInv

LEMMA PadIs == ASSUME NEW name PROVE pad_len(name) \in Nat
<1>1. \A a, b \in Nat : a * b \in Nat  OBVIOUS
<1> QED  BY <1>1, SizesAre DEF pad_len, workgroup_size

LEMMA LensAre ==
    ASSUME AskedInv
    PROVE  /\ DOMAIN Lens = Slots
           /\ \A slot \in Slots : Lens[slot] \in Nat /\ Size(slot) \in Nat /\ Size(slot) >= Lens[slot]
<1>1. shaders[1] \in Builtins  BY ShadersAssumption DEF AskedInv
<1>2. DOMAIN Lens = Slots /\ \A slot \in Slots : Lens[slot] \in Nat
  BY <1>1, LensTyped DEF AskedInv, Slots, Lens
<1>3. pad_len(shaders[1]) \in Nat  BY PadIs
<1> QED  BY <1>2, <1>3 DEF Size

LEMMA StartHolds ==
    ASSUME AskedInv
    PROVE  SlotsHeld(start_data(shaders[1], case, Lens))
<1> DEFINE s == start_data(shaders[1], case, Lens)
           of(slot, i) == IF i <= Lens[slot]
                          THEN first(layout(shaders[1])[slot], case.checks[slot], slot, i - 1) ELSE PAD
<1>1. s = [slot \in Slots |-> [i \in 1..Size(slot) |-> of(slot, i)]]
  BY LensAre DEF start_data, Size
<1> HIDE DEF s, of
<1>2. s = [slot \in Slots |-> s[slot]]  BY <1>1
<1>3. \A slot \in Slots : Filled(s[slot], Size(slot))  BY <1>1 DEF Filled
<1> QED  BY <1>2, <1>3 DEF SlotsHeld, s

\* A run of a builtin changes what its output slot holds, not how much.
LEMMA EntryHolds ==
    ASSUME NEW s, SlotsHeld(s), NEW format, NEW name, NEW m, NEW wg
    PROVE  SlotsHeld(entry(format, name, m, wg, s))
<1> DEFINE w == IF format = "native" THEN native_writes(name, m, s) ELSE wgsl_writes(name, m, wg, s)
           o == OutSlot(name)
           r == entry(format, name, m, wg, s)
<1>1. r = [s EXCEPT ![o] = Written(@, w)]  BY DEF entry
<1> HIDE DEF w, o, r
<1>2. r = [slot \in Slots |-> r[slot]]  BY <1>1 DEF SlotsHeld
<1>3. ASSUME NEW slot \in Slots PROVE Filled(r[slot], Size(slot))
  <2>1. Filled(s[slot], Size(slot))  BY DEF SlotsHeld
  <2>2. CASE slot # o
    <3>1. r[slot] = s[slot]  BY <1>1, <2>2 DEF SlotsHeld
    <3> QED  BY <2>1, <3>1
  <2>3. CASE slot = o
    <3>1. r[slot] = Written(s[slot], w)  BY <1>1, <2>3 DEF SlotsHeld
    <3>2. DOMAIN s[slot] = 1..Size(slot)  BY <2>1 DEF Filled
    <3> QED  BY <3>1, <3>2 DEF Written, Filled
  <2> QED  BY <2>2, <2>3
<1> QED  BY <1>2, <1>3 DEF SlotsHeld, r

CompareNext ==
    \E slot \in DOMAIN start, v \in WrongValues : \E i \in DOMAIN start[slot] : Misbehave(slot, i, v)

LEMMA CompareInit == Init => CompareInv
<1> SUFFICES ASSUME Init PROVE CompareInv  OBVIOUS
<1>1. PICK a \in Shaders, b \in Shaders : shaders = <<a, b>>  BY DEF Init
<1>2. shaders[1] \in Shaders  BY <1>1
<1>3. AskedInv  BY <1>2 DEF AskedInv, Init
<1>4. out = <<>> /\ phase = "asked"  BY DEF Init
<1>5. OutInv  BY <1>4 DEF OutInv
<1> QED  BY <1>3, <1>4, <1>5 DEF CompareInv, StartedInv, ReportInv

\* The case is the same throughout, and so is what follows from it.
LEMMA CaseKept ==
    ASSUME Next \/ UNCHANGED vars
    PROVE  shaders' = shaders /\ case' = case
BY DEF Next, vars, Refuse, Start, run, Misbehave, Compare

LEMMA LensKept ==
    ASSUME shaders' = shaders, case' = case
    PROVE  /\ Lens' = Lens /\ Slots' = Slots
           /\ \A slot : Size(slot)' = Size(slot)
           /\ \A s : SlotsHeld(s)' <=> SlotsHeld(s)
           /\ AskedInv /\ phase' \in {"asked", "started", "compared", "refused"} /\ faults' \in Nat => AskedInv'
<1>1. Lens' = Lens /\ Slots' = Slots  BY DEF Lens, Slots
<1>2. \A slot : Size(slot)' = Size(slot)  BY <1>1 DEF Size
<1>3. \A s : SlotsHeld(s)' <=> SlotsHeld(s)  BY <1>1, <1>2 DEF SlotsHeld
<1> QED  BY <1>1, <1>2, <1>3 DEF AskedInv

LEMMA StillAsked ==
    ASSUME CompareInv, Next \/ UNCHANGED vars
    PROVE  AskedInv'
<1>1. shaders' = shaders /\ case' = case  BY CaseKept
<1>2. faults' \in Nat /\ phase' \in {"asked", "started", "compared", "refused"}
  BY DEF Next, vars, Refuse, Start, run, Misbehave, Compare, CompareInv, AskedInv
<1> QED  BY <1>1, <1>2, LensKept DEF CompareInv

LEMMA StillStarted ==
    ASSUME CompareInv, Next \/ UNCHANGED vars
    PROVE  StartedInv'
<1>1. Lens' = Lens /\ shaders' = shaders /\ case' = case  BY CaseKept, LensKept
<1> USE DEF CompareInv, StartedInv, AskedInv
<1>2. CASE Refuse  BY <1>2, <1>1 DEF Refuse
<1>3. CASE Start  BY <1>3, <1>1 DEF Start
<1>4. CASE run
  <2>1. phase = "started" /\ phase' = phase /\ start' = start  BY <1>4 DEF run
  <2> QED  BY <2>1, <1>1
<1>5. CASE Compare  BY <1>5, <1>1 DEF Compare
<1>6. CASE CompareNext
  <2>1. phase = "started" /\ phase' = phase /\ start' = start  BY <1>6 DEF CompareNext, Misbehave
  <2> QED  BY <2>1, <1>1
<1>7. CASE UNCHANGED vars  BY <1>7, <1>1 DEF vars
<1> QED  BY <1>2, <1>3, <1>4, <1>5, <1>6, <1>7 DEF Next, CompareNext

LEMMA OutKept ==
    ASSUME CompareInv, shaders' = shaders, case' = case, out' = out,
           out # <<>> => start' = start, faults' = faults
    PROVE  OutInv'
<1>1. \A s : SlotsHeld(s)' <=> SlotsHeld(s)  BY LensKept
<1>2. out = <<>> => DOMAIN out = {}  OBVIOUS
<1> QED  BY <1>1, <1>2 DEF CompareInv, OutInv

LEMMA SideRuns ==
    ASSUME CompareInv, run
    PROVE  OutInv'
<1> DEFINE n == Len(out)
           format == IF n = 0 THEN "native" ELSE "wgsl"
           e == entry(format, shaders[1], case.meta, case.workgroups, start)
           S == {out[k] : k \in DOMAIN out}
<1>1. shaders' = shaders /\ case' = case /\ start' = start /\ faults' = faults /\ n < 2 /\ phase = "started"
  BY DEF run
<1>2. out' = Append(out, e)  BY DEF run
<1>3. SlotsHeld(e)
  <2>1. SlotsHeld(start)  BY <1>1, StartHolds DEF CompareInv, StartedInv
  <2> QED  BY <2>1, EntryHolds
<1>4. out \in Seq(S) /\ n \in Nat /\ DOMAIN out = 1..n  BY DEF CompareInv, OutInv
<1>8. format = Side(n + 1)  BY <1>4 DEF Side
<1> HIDE DEF format
<1>9. faults = 0 => e = entry(Side(n + 1), shaders[1], case.meta, case.workgroups, start)  BY <1>8
<1> HIDE DEF e, S
<1>5. Len(out') = n + 1 /\ DOMAIN out' = 1..(n + 1)  BY <1>2, <1>4
<1>6. /\ \A k \in 1..n : out'[k] = out[k]
      /\ out'[n + 1] = e
  BY <1>2, <1>4
<1>7. out' \in Seq({out'[k] : k \in DOMAIN out'})
  <2> DEFINE T == S \cup {e}
  <2>1. out' \in [1..(n + 1) -> {out'[k] : k \in DOMAIN out'}]
    <3>1. out \in Seq(T) /\ e \in T  BY <1>4
    <3> HIDE DEF T
    <3>2. out' \in Seq(T)  BY <1>2, <3>1
    <3> QED  BY <1>5, <3>2
  <2> QED  BY <1>4, <2>1
<1> HIDE DEF n
<1>10. \A k \in 1..(n + 1) : k \in 1..n \/ k = n + 1  BY <1>4
<1>11. \A k \in DOMAIN out' : SlotsHeld(out'[k])
  BY <1>3, <1>4, <1>5, <1>6, <1>10 DEF CompareInv, OutInv
<1>12. faults = 0 => \A k \in DOMAIN out' :
          out'[k] = entry(Side(k), shaders[1], case.meta, case.workgroups, start)
  BY <1>4, <1>5, <1>6, <1>9, <1>10 DEF CompareInv, OutInv
<1>13. \A s : SlotsHeld(s)' <=> SlotsHeld(s)  BY <1>1, LensKept
<1>14. Len(out') <= 2  BY <1>1, <1>4, <1>5 DEF n
<1> QED  BY <1>1, <1>7, <1>11, <1>12, <1>13, <1>14 DEF OutInv

LEMMA SideMisbehaves ==
    ASSUME CompareInv, CompareNext
    PROVE  OutInv'
<1>0. PICK slot \in DOMAIN start, v \in WrongValues : \E i \in DOMAIN start[slot] : Misbehave(slot, i, v)
  BY DEF CompareNext
<1>1. PICK i \in DOMAIN start[slot] : Misbehave(slot, i, v)  BY <1>0
<1> DEFINE n == Len(out)
           S == {out[k] : k \in DOMAIN out}
           r == out[n]
           q == [r EXCEPT ![slot][i] = v]
<1>2. /\ shaders' = shaders /\ case' = case /\ start' = start /\ faults' = faults + 1
      /\ phase = "started" /\ out # <<>>
      /\ out' = [out EXCEPT ![n][slot][i] = v]
  BY <1>1 DEF Misbehave
<1>3. out \in Seq(S) /\ n \in Nat /\ DOMAIN out = 1..n /\ n # 0
  BY <1>2 DEF CompareInv, OutInv
<1>4. SlotsHeld(start)  BY <1>2, StartHolds DEF CompareInv, StartedInv
<1>5. slot \in Slots  BY <1>4 DEF SlotsHeld
<1>6. SlotsHeld(r)  BY <1>3 DEF CompareInv, OutInv
<1>7. SlotsHeld(q)
  <2>1. r = [x \in Slots |-> r[x]] /\ \A x \in Slots : Filled(r[x], Size(x))
    BY <1>6 DEF SlotsHeld
  <2> HIDE DEF r
  <2>2. q = [x \in Slots |-> q[x]]  BY <2>1
  <2>3. \A x \in Slots : x # slot => q[x] = r[x]  BY <2>1
  <2>4. q[slot] = [r[slot] EXCEPT ![i] = v]  BY <1>5, <2>1
  <2>5. Filled(q[slot], Size(slot))
    <3>1. Filled(r[slot], Size(slot))  BY <1>5, <2>1
    <3> DEFINE z == [r[slot] EXCEPT ![i] = v]
    <3>2. z = [x \in 1..Size(slot) |-> z[x]]  BY <3>1 DEF Filled
    <3> HIDE DEF z, q
    <3> QED  BY <2>4, <3>2 DEF Filled, z
  <2> HIDE DEF q
  <2> QED  BY <2>1, <2>2, <2>3, <2>5 DEF SlotsHeld
<1>8. DOMAIN out' = 1..n /\ out'[n] = q /\ \A k \in 1..n : k # n => out'[k] = out[k]
  <2> HIDE DEF n
  <2> QED  BY <1>2, <1>3
<1>9. out' \in Seq({out'[k] : k \in DOMAIN out'}) /\ Len(out') = n
  <2> DEFINE T == {out'[k] : k \in DOMAIN out'}
  <2>1. out' = [k \in 1..n |-> out'[k]]
    <3>1. out = [k \in 1..n |-> out[k]]  BY <1>3
    <3> HIDE DEF n
    <3> QED  BY <1>2, <3>1
  <2>2. out' \in [1..n -> T]  BY <1>8, <2>1
  <2> HIDE DEF T, n
  <2>3. out' \in Seq(T)  BY <1>3, <2>2
  <2> QED  BY <1>3, <1>8, <2>3 DEF T
<1>10. \A k \in DOMAIN out' : SlotsHeld(out'[k])
  <2> HIDE DEF q, n
  <2> QED  BY <1>3, <1>7, <1>8 DEF CompareInv, OutInv
<1>11. \A s : SlotsHeld(s)' <=> SlotsHeld(s)  BY <1>2, LensKept
<1>12. faults' # 0  BY <1>2 DEF CompareInv, AskedInv
<1>13. n <= 2  BY DEF CompareInv, OutInv
<1> HIDE DEF n
<1> QED  BY <1>9, <1>10, <1>11, <1>12, <1>13 DEF OutInv

LEMMA CompareSteps ==
    ASSUME CompareInv, Next \/ UNCHANGED vars
    PROVE  CompareInv'
<1>1. shaders' = shaders /\ case' = case  BY CaseKept
<1>2. AskedInv' /\ StartedInv'  BY StillAsked, StillStarted
<1>3. OutInv' /\ ReportInv'
  <2>1. CASE Refuse
    <3>1. OutInv'  BY <1>1, <2>1, OutKept DEF Refuse
    <3>2. phase' # "compared"  BY <2>1 DEF Refuse
    <3> QED  BY <3>1, <3>2 DEF ReportInv
  <2>2. CASE Start
    <3>1. OutInv'
      <4>1. out = <<>>  BY <2>2 DEF Start, CompareInv, StartedInv
      <4> QED  BY <1>1, <2>2, <4>1, OutKept DEF Start
    <3>2. phase' # "compared"  BY <2>2 DEF Start
    <3> QED  BY <3>1, <3>2 DEF ReportInv
  <2>3. CASE run
    <3>2. phase' # "compared"  BY <2>3 DEF run
    <3> QED  BY <2>3, <3>2, SideRuns DEF ReportInv
  <2>4. CASE CompareNext
    <3>2. phase' # "compared"  BY <2>4 DEF CompareNext, Misbehave
    <3> QED  BY <2>4, <3>2, SideMisbehaves DEF ReportInv
  <2>5. CASE Compare
    <3>1. OutInv'  BY <1>1, <2>5, OutKept DEF Compare
    <3>2. ReportInv'
      <4>1. Lens' = Lens  BY <1>1, LensKept
      <4>2. /\ out' = out /\ start' = start /\ Len(out) = 2
            /\ report' = [slot \in DOMAIN start |->
                    SlotReport(layout(shaders[1])[slot], case.checks[slot], Lens[slot],
                               out[1][slot], out[2][slot])]
        BY <2>5 DEF Compare
      <4> QED  BY <1>1, <4>1, <4>2 DEF ReportInv
    <3> QED  BY <3>1, <3>2
  <2>6. CASE UNCHANGED vars
    <3>1. OutInv'  BY <1>1, <2>6, OutKept DEF vars
    <3>2. ReportInv'
      <4>1. Lens' = Lens  BY <1>1, LensKept
      <4>2. out' = out /\ start' = start /\ report' = report /\ phase' = phase  BY <2>6 DEF vars
      <4> QED  BY <1>1, <4>1, <4>2 DEF ReportInv, CompareInv
    <3> QED  BY <3>1, <3>2
  <2> QED  BY <2>1, <2>2, <2>3, <2>4, <2>5, <2>6 DEF Next, CompareNext
<1> QED  BY <1>2, <1>3 DEF CompareInv

LEMMA CompareHolds == Spec => []CompareInv
<1>1. CompareInv /\ [Next]_vars => CompareInv'  BY CompareSteps
<1> QED  BY <1>1, CompareInit, PTL DEF Spec

\* What a report says of a slot is what its two sides hold.
LEMMA Reported ==
    ASSUME CompareInv, phase = "compared"
    PROVE  /\ DOMAIN report = Slots
           /\ \A slot \in Slots :
                 /\ report[slot] = SlotReport(layout(shaders[1])[slot], case.checks[slot], Lens[slot],
                                              out[1][slot], out[2][slot])
                 /\ \A side \in 1..2 : Filled(out[side][slot], Size(slot))
                 /\ Lens[slot] \in Nat /\ Size(slot) \in Nat
<1>1. SlotsHeld(start)  BY StartHolds DEF CompareInv, StartedInv
<1>2. DOMAIN start = Slots  BY <1>1 DEF SlotsHeld
<1>3. DOMAIN out = 1..2  BY DEF CompareInv, OutInv, ReportInv
<1>4. SlotsHeld(out[1]) /\ SlotsHeld(out[2])  BY <1>3 DEF CompareInv, OutInv
<1>5. \A slot \in Slots : \A side \in 1..2 : Filled(out[side][slot], Size(slot))
  BY <1>4 DEF SlotsHeld
<1>6. \A slot \in Slots : Lens[slot] \in Nat /\ Size(slot) \in Nat  BY LensAre DEF CompareInv
<1> QED  BY <1>2, <1>5, <1>6 DEF CompareInv, ReportInv

\* A report passes only if neither side wrote past min_lens, and a written Output
\* was written in full (compare, SlotReport::passed).
THEOREM PassedIsInBounds == Spec => []PassedMeansInBounds
<1>1. CompareInv => PassedMeansInBounds
  <2> SUFFICES ASSUME CompareInv, phase = "compared", passed,
                      NEW side \in 1..2, NEW slot \in DOMAIN report
               PROVE  /\ \A i \in DOMAIN out[side][slot] \ 1..Lens[slot] : out[side][slot][i] = PAD
                      /\ layout(shaders[1])[slot] = "Output" /\ case.checks[slot].check # "Total" =>
                            \A i \in 1..Lens[slot] : out[side][slot][i] # NaN
    BY DEF PassedMeansInBounds
  <2> DEFINE role == layout(shaders[1])[slot]
             check == case.checks[slot]
             len == Lens[slot]
             r == out[side][slot]
  <2>1. slot \in Slots /\ Filled(r, Size(slot)) /\ len \in Nat /\ Size(slot) \in Nat
        /\ report[slot] = SlotReport(role, check, len, out[1][slot], out[2][slot])
    BY Reported
  <2>2. slot_passed(report[slot])  BY DEF passed
  <2> HIDE DEF role, check, len
  <2>3. unwritten(role, check, len, r) = None /\ overrun(len, r) = None
    BY <2>1, <2>2 DEF slot_passed, SlotReport
  <2> HIDE DEF r
  <2>4. \A i \in DOMAIN r \ 1..len : r[i] = PAD  BY <2>1, <2>3, NoOverrun
  <2>5. role = "Output" /\ check.check # "Total" => \A i \in 1..len : r[i] # NaN
    BY <2>1, <2>3, NoneUnwritten
  <2> QED  BY <2>4, <2>5 DEF r, role, check, len
<1> QED  BY <1>1, CompareHolds, PTL

-----------------------------------------------------------------------------
(* The element furthest over its tolerance.                                *)

\* Induction up to a number, over a set instead of a predicate.
LEMMA CountUp ==
    ASSUME NEW n \in Nat, NEW T, 0 \in T, \A k \in 0..(n - 1) : k \in T => k + 1 \in T
    PROVE  \A k \in 0..n : k \in T
<1> DEFINE Out == {k \in 0..n : k \notin T}
<1> SUFFICES ASSUME Out # {} PROVE FALSE  OBVIOUS
<1>1. Out \in SUBSET Nat  OBVIOUS
<1>2. PICK m \in Out : \A k \in Out : m <= k
  <2> HIDE DEF Out
  <2> QED  BY <1>1, LeastOf
<1>3. m # 0 /\ m - 1 \in 0..(n - 1) /\ m - 1 \in T  BY <1>2
<1> QED  BY <1>3

Numbers == Int \cup {NaN}
Tolerances == [check : {"Close", "Total", "Ignore"}, atol : Nat, rtol : Nat]

LEMMA DiffsAre ==
    ASSUME NEW x \in Numbers, NEW y \in Numbers, NEW check \in Tolerances
    PROVE  /\ err(x, y) \in Nat \cup {NaN} /\ tolerance(x, y, check) \in Nat \cup {NaN}
           /\ x \in Int /\ x = y => err(x, y) = 0 /\ tolerance(x, y, check) \in Nat
<1>0. NaN \notin Int /\ Inf \notin Int /\ NaN # Inf  BY FloatsAssumption
<1>1. \A z \in Int : Abs(z) \in Nat  BY DEF Abs, Finite
<1>2. Abs(NaN) = NaN  BY <1>0 DEF Abs, Finite
<1>3. x # Inf /\ y # Inf  BY <1>0 DEF Numbers
<1>4. err(x, y) \in Nat \cup {NaN}
  <2>1. CASE x = NaN \/ y = NaN  BY <2>1 DEF err
  <2>2. CASE x \in Int /\ y \in Int
    <3>1. err(x, y) = Abs(x - y)  BY <1>0, <2>2 DEF err
    <3>2. x - y \in Int  BY <2>2
    <3> QED  BY <1>1, <3>1, <3>2
  <2> QED  BY <2>1, <2>2 DEF Numbers
<1> DEFINE most == IF x = NaN THEN Abs(y)
                   ELSE IF y = NaN THEN Abs(x)
                   ELSE IF Inf \in {x, y} THEN Inf
                   ELSE IF Abs(x) >= Abs(y) THEN Abs(x) ELSE Abs(y)
<1>5. most \in Nat \cup {NaN} /\ (x \in Int => most \in Nat)
  <2>1. CASE x = NaN /\ y = NaN  BY <1>0, <1>2, <2>1
  <2>2. CASE x = NaN /\ y \in Int  BY <1>0, <1>1, <2>2
  <2>3. CASE x \in Int /\ y = NaN  BY <1>0, <1>1, <2>3
  <2>4. CASE x \in Int /\ y \in Int  BY <1>0, <1>1, <2>4
  <2> QED  BY <2>1, <2>2, <2>3, <2>4 DEF Numbers
<1>6. tolerance(x, y, check) = IF most = NaN \/ (most = Inf /\ check.rtol = 0) THEN NaN
                               ELSE IF most = Inf THEN Inf
                               ELSE check.atol + (check.rtol * most) \div 8
  BY DEF tolerance
<1> HIDE DEF most
<1>7. most # Inf  BY <1>0, <1>5
<1>8. ASSUME most \in Nat PROVE tolerance(x, y, check) \in Nat
  <2>1. check.rtol * most \in Nat
    <3>1. check.rtol \in Nat  BY DEF Tolerances
    <3> QED  BY <1>8, <3>1
  <2>2. (check.rtol * most) \div 8 \in Nat  BY <2>1, Division
  <2>3. tolerance(x, y, check) = check.atol + (check.rtol * most) \div 8  BY <1>0, <1>6, <1>7, <1>8
  <2>4. check.atol \in Nat  BY DEF Tolerances
  <2> DEFINE q == (check.rtol * most) \div 8
  <2> HIDE DEF q
  <2> QED  BY <2>2, <2>3, <2>4 DEF q
<1>9. tolerance(x, y, check) \in Nat \cup {NaN}  BY <1>5, <1>6, <1>8
<1>10. x \in Int /\ x = y => err(x, y) = 0
  <2> SUFFICES ASSUME x \in Int, x = y PROVE err(x, y) = 0  OBVIOUS
  <2>1. err(x, y) = Abs(x - y)  BY <1>0 DEF err
  <2>2. x - y = 0  OBVIOUS
  <2> QED  BY <2>1, <2>2 DEF Abs, Finite
<1> QED  BY <1>4, <1>5, <1>8, <1>9, <1>10

\* How far over: a number, or Inf for a NaN.
Overs == Int \cup {Inf}

LEMMA GreaterIs ==
    ASSUME NEW a \in Overs, NEW b \in Overs
    PROVE  Greater(a, b) <=> (a = Inf /\ b # Inf) \/ (a \in Int /\ b \in Int /\ a > b)
BY FloatsAssumption DEF Greater, Overs, Finite

LEMMA GreaterOrders ==
    ASSUME NEW a \in Overs, NEW b \in Overs, NEW c \in Overs
    PROVE  /\ Greater(a, b) => ~Greater(b, a)
           /\ Greater(a, b) /\ Greater(b, c) => Greater(a, c)
           /\ Greater(a, b) /\ ~Greater(c, b) => Greater(a, c)
<1>0. Inf \notin Int  BY FloatsAssumption
<1>1. /\ Greater(a, b) <=> (a = Inf /\ b # Inf) \/ (a \in Int /\ b \in Int /\ a > b)
      /\ Greater(b, a) <=> (b = Inf /\ a # Inf) \/ (b \in Int /\ a \in Int /\ b > a)
      /\ Greater(b, c) <=> (b = Inf /\ c # Inf) \/ (b \in Int /\ c \in Int /\ b > c)
      /\ Greater(a, c) <=> (a = Inf /\ c # Inf) \/ (a \in Int /\ c \in Int /\ a > c)
      /\ Greater(c, b) <=> (c = Inf /\ b # Inf) \/ (c \in Int /\ b \in Int /\ c > b)
  BY GreaterIs
<1> QED  BY <1>0, <1>1 DEF Overs

\* Of any that are compared, one is the first that none is greater than.
LEMMA FurthestExists ==
    ASSUME NEW len \in Nat, len # 0, NEW o, \A i \in 1..len : o[i] \in Overs
    PROVE  \E i \in 1..len : /\ \A j \in 1..(i - 1) : Greater(o[i], o[j])
                             /\ \A j \in (i + 1)..len : ~Greater(o[j], o[i])
<1> DEFINE First(n, i) == /\ \A j \in 1..(i - 1) : Greater(o[i], o[j])
                          /\ \A j \in (i + 1)..n : ~Greater(o[j], o[i])
           T == {n \in 0..len : n # 0 => \E i \in 1..n : First(n, i)}
<1>1. 0 \in T  OBVIOUS
<1>2. ASSUME NEW n \in 0..(len - 1), n \in T PROVE n + 1 \in T
  <2>1. CASE n = 0
    <3>1. First(1, 1)  OBVIOUS
    <3>2. 1 \in 1..1  OBVIOUS
    <3> QED  BY <2>1, <3>1, <3>2
  <2>2. CASE n # 0
    <3>1. PICK i \in 1..n : First(n, i)  BY <1>2, <2>2
    <3>2. CASE Greater(o[n + 1], o[i])
      <4>1. ASSUME NEW j \in 1..n PROVE Greater(o[n + 1], o[j])
        <5>1. o[n + 1] \in Overs /\ o[i] \in Overs /\ o[j] \in Overs  OBVIOUS
        <5>2. CASE j = i  BY <3>2, <5>2
        <5>3. CASE j < i
          <6>1. Greater(o[i], o[j])  BY <3>1, <5>3
          <6> QED  BY <3>2, <5>1, <6>1, GreaterOrders
        <5>4. CASE j > i
          <6>1. ~Greater(o[j], o[i])  BY <3>1, <5>4
          <6> QED  BY <3>2, <5>1, <6>1, GreaterOrders
        <5> QED  BY <5>2, <5>3, <5>4
      <4>2. First(n + 1, n + 1)  BY <4>1
      <4>3. n + 1 \in 1..(n + 1) /\ n + 1 \in 0..len  OBVIOUS
      <4> QED  BY <4>2, <4>3
    <3>3. CASE ~Greater(o[n + 1], o[i])
      <4>1. \A j \in (i + 1)..(n + 1) : j \in (i + 1)..n \/ j = n + 1  OBVIOUS
      <4>2. First(n + 1, i)  BY <3>1, <3>3, <4>1
      <4>3. i \in 1..(n + 1) /\ n + 1 \in 0..len  OBVIOUS
      <4> QED  BY <4>2, <4>3
    <3> QED  BY <3>2, <3>3
  <2> QED  BY <2>1, <2>2
<1> HIDE DEF T
<1>3. \A n \in 0..len : n \in T  BY <1>1, <1>2, CountUp
<1>4. len \in T  BY <1>3
<1> QED  BY <1>4 DEF T

LEMMA OverIs ==
    ASSUME NEW d, d.err \in Nat \cup {NaN}, d.tol \in Nat \cup {NaN}
    PROVE  /\ over(d) \in Overs
           /\ Within(d) <=> over(d) # Inf /\ over(d) <= 0
           /\ Within(d) <=> d.err # NaN /\ d.tol # NaN /\ d.err <= d.tol
<1>0. NaN \notin Int /\ Inf \notin Int /\ NaN # Inf  BY FloatsAssumption
<1>1. CASE d.err = NaN \/ d.tol = NaN
  <2>1. Excess(d) = NaN  BY <1>1 DEF Excess
  <2> QED  BY <1>0, <1>1, <2>1 DEF over, Within, Overs
<1>2. CASE d.err \in Nat /\ d.tol \in Nat
  <2>1. Excess(d) = d.err - d.tol  BY <1>0, <1>2 DEF Excess
  <2>2. Excess(d) \in Int  BY <1>2, <2>1
  <2>3. over(d) = d.err - d.tol /\ over(d) \in Int  BY <1>0, <2>1, <2>2 DEF over
  <2> QED  BY <1>0, <1>2, <2>3 DEF Within, Overs
<1> QED  BY <1>1, <1>2

\* Where no element is infinite, all are within when the worst is.
LEMMA WorstIsFurthest ==
    ASSUME NEW len \in Nat, NEW a, NEW b, NEW check \in Tolerances,
           \A i \in 1..len : a[i] \in Numbers /\ b[i] \in Numbers
    PROVE  /\ len # 0 => worst(a, b, len, check) \in {Diffs(a, b, len, check)[i] : i \in 1..len}
           /\ len # 0 => worst(a, b, len, check) # None
           /\ (worst(a, b, len, check) # None => Within(worst(a, b, len, check)))
                => \A i \in 1..len : Within(Diffs(a, b, len, check)[i])
<1>0. CASE len = 0  BY <1>0
<1>1. CASE len # 0
  <2> DEFINE d == Diffs(a, b, len, check)
             o == [i \in 1..len |-> over(d[i])]
             furthest(i) == /\ \A j \in 1..(i - 1) : Greater(over(d[i]), over(d[j]))
                            /\ \A j \in (i + 1)..len : ~Greater(over(d[j]), over(d[i]))
             w == CHOOSE i \in 1..len : furthest(i)
  <2>1. ASSUME NEW i \in 1..len
        PROVE  /\ d[i] = [index |-> i - 1, values |-> <<a[i], b[i]>>, err |-> err(a[i], b[i]),
                          tol |-> tolerance(a[i], b[i], check)]
               /\ d[i].err = err(a[i], b[i]) /\ d[i].tol = tolerance(a[i], b[i], check)
    BY DEF Diffs
  <2>2. worst(a, b, len, check) = d[w]  BY <1>1 DEF worst
  <2> HIDE DEF d
  <2>3. \A i \in 1..len : d[i].err \in Nat \cup {NaN} /\ d[i].tol \in Nat \cup {NaN}
    <3> SUFFICES ASSUME NEW i \in 1..len
                 PROVE  d[i].err \in Nat \cup {NaN} /\ d[i].tol \in Nat \cup {NaN}
      OBVIOUS
    <3>1. a[i] \in Numbers /\ b[i] \in Numbers  OBVIOUS
    <3>2. d[i].err = err(a[i], b[i]) /\ d[i].tol = tolerance(a[i], b[i], check)  BY <2>1
    <3>3. err(a[i], b[i]) \in Nat \cup {NaN} /\ tolerance(a[i], b[i], check) \in Nat \cup {NaN}
      BY <3>1, DiffsAre
    <3> QED  BY <3>2, <3>3
  <2>4. \A i \in 1..len : over(d[i]) \in Overs  BY <2>3, OverIs
  <2>5. \E i \in 1..len : furthest(i)
    <3>1. \A i \in 1..len : o[i] \in Overs  BY <2>4
    <3>2. \A i \in 1..len : o[i] = over(d[i])  OBVIOUS
    <3> HIDE DEF o
    <3>3. PICK i \in 1..len : /\ \A j \in 1..(i - 1) : Greater(o[i], o[j])
                              /\ \A j \in (i + 1)..len : ~Greater(o[j], o[i])
      BY <1>1, <3>1, FurthestExists
    <3>4. furthest(i)  BY <3>2, <3>3
    <3> QED  BY <3>4
  <2>6. w \in 1..len /\ furthest(w)  BY <2>5
  <2> HIDE DEF w
  <2>7. d[w] # None
    <3>1. d[w] = [index |-> w - 1, values |-> <<a[w], b[w]>>, err |-> err(a[w], b[w]),
                  tol |-> tolerance(a[w], b[w], check)]
      BY <2>1, <2>6
    <3>2. err(a[w], b[w]) \in Floats /\ tolerance(a[w], b[w], check) \in Floats
      <4>1. d[w].err = err(a[w], b[w]) /\ d[w].tol = tolerance(a[w], b[w], check)  BY <2>1, <2>6
      <4>2. d[w].err \in Nat \cup {NaN} /\ d[w].tol \in Nat \cup {NaN}  BY <2>3, <2>6
      <4> QED  BY <4>1, <4>2 DEF Floats
    <3>3. a[w] \in Floats /\ b[w] \in Floats  BY <2>6 DEF Floats, Numbers
    <3>4. w - 1 \in Int  BY <2>6
    <3>5. d[w] \in Diff  BY <3>1, <3>2, <3>3, <3>4 DEF Diff
    <3> QED  BY <3>5, NoneAssumption
  <2>8. ASSUME Within(d[w]), NEW j \in 1..len PROVE Within(d[j])
    <3>1. ~Greater(over(d[j]), over(d[w]))
      <4>1. CASE j = w
        <5>1. over(d[w]) \in Overs  BY <2>4, <2>6
        <5> QED  BY <4>1, <5>1, GreaterOrders
      <4>2. CASE j < w
        <5>1. Greater(over(d[w]), over(d[j]))  BY <2>6, <4>2
        <5>2. over(d[w]) \in Overs /\ over(d[j]) \in Overs  BY <2>4, <2>6
        <5> QED  BY <5>1, <5>2, GreaterOrders
      <4>3. CASE j > w  BY <2>6, <4>3
      <4> QED  BY <2>6, <4>1, <4>2, <4>3
    <3>2. over(d[w]) # Inf /\ over(d[w]) <= 0  BY <2>3, <2>6, <2>8, OverIs
    <3>3. over(d[w]) \in Overs /\ over(d[j]) \in Overs  BY <2>4, <2>6
    <3>4. over(d[j]) # Inf /\ over(d[j]) <= 0
      <4>1. ~((over(d[j]) = Inf /\ over(d[w]) # Inf)
              \/ (over(d[j]) \in Int /\ over(d[w]) \in Int /\ over(d[j]) > over(d[w])))
        BY <3>1, <3>3, GreaterIs
      <4> DEFINE p == over(d[j])
                 q == over(d[w])
      <4> HIDE DEF p, q
      <4> QED  BY <3>2, <3>3, <4>1 DEF Overs, p, q
    <3> QED  BY <2>3, <3>4, OverIs
  <2>9. worst(a, b, len, check) \in {d[i] : i \in 1..len} BY <2>2, <2>6
  <2> QED  BY <2>2, <2>7, <2>8, <2>9 DEF d
<1> QED  BY <1>0, <1>1

-----------------------------------------------------------------------------
(* What loops add up.                                                      *)

\* The accumulator's values over the first n of t.
Accs(t, n, f) == f = [k \in 0..n |-> IF k = 0 THEN 0 ELSE f[k - 1] + t[k - 1]]

LEMMA AccsAt ==
    ASSUME NEW t, NEW n \in Nat, NEW f, Accs(t, n, f)
    PROVE  /\ f[0] = 0
           /\ \A k \in 0..(n - 1) : f[k + 1] = f[k] + t[k]
<1>1. \A k \in 0..n : f[k] = IF k = 0 THEN 0 ELSE f[k - 1] + t[k - 1]  BY DEF Accs
<1>2. f[0] = 0  BY <1>1
<1>3. ASSUME NEW k \in 0..(n - 1) PROVE f[k + 1] = f[k] + t[k]
  <2>1. \A j : \A i \in 0..n : i # 0 /\ j = i - 1 => f[i] = f[j] + t[j]  BY <1>1
  <2>2. k + 1 \in 0..n /\ k + 1 # 0 /\ k = (k + 1) - 1  OBVIOUS
  <2> QED  BY <2>1, <2>2
<1> QED  BY <1>2, <1>3

LEMMA AccsSame ==
    ASSUME NEW t, NEW n \in Nat, NEW f, Accs(t, n, f),
           NEW u, NEW m \in Nat, NEW g, Accs(u, m, g),
           n <= m, \A k \in 0..(n - 1) : t[k] = u[k]
    PROVE  f[n] = g[n]
<1> DEFINE T == {k \in 0..n : f[k] = g[k]}
<1>1. f[0] = 0 /\ g[0] = 0  BY AccsAt
<1>2. ASSUME NEW k \in 0..(n - 1), f[k] = g[k] PROVE f[k + 1] = g[k + 1]
  <2>1. f[k + 1] = f[k] + t[k]  BY AccsAt
  <2>2. k \in 0..(m - 1)  OBVIOUS
  <2>3. g[k + 1] = g[k] + u[k]  BY <2>2, AccsAt
  <2> QED  BY <1>2, <2>1, <2>3
<1>3. 0 \in T  BY <1>1
<1>4. \A k \in 0..(n - 1) : k \in T => k + 1 \in T  BY <1>2
<1> HIDE DEF T
<1>5. n \in T
  <2>1. \A k \in 0..n : k \in T  BY <1>3, <1>4, CountUp
  <2> QED  BY <2>1
<1> QED  BY <1>5 DEF T

LEMMA AccsMore ==
    ASSUME NEW t, NEW n \in Nat, NEW f, Accs(t, n, f)
    PROVE  \E g : Accs(t, n + 1, g)
<1> DEFINE g == [k \in 0..(n + 1) |-> IF k = n + 1 THEN f[n] + t[n] ELSE f[k]]
           h == [k \in 0..(n + 1) |-> IF k = 0 THEN 0 ELSE g[k - 1] + t[k - 1]]
<1>1. f[0] = 0 /\ \A k \in 0..(n - 1) : f[k + 1] = f[k] + t[k]  BY AccsAt
<1>2. g[n + 1] = f[n] + t[n] /\ \A k \in 0..n : g[k] = f[k]  OBVIOUS
<1>3. h[0] = 0 /\ \A j : \A k \in 0..(n + 1) : k # 0 /\ j = k - 1 => h[k] = g[j] + t[j]
  <2> HIDE DEF g
  <2> QED  OBVIOUS
<1> HIDE DEF g, h
<1>4. ASSUME NEW k \in 0..(n + 1) PROVE g[k] = h[k]
  <2>1. CASE k = 0  BY <1>1, <1>2, <1>3, <2>1
  <2>2. CASE k # 0
    <3> DEFINE j == k - 1
    <3>1. j \in 0..n /\ j = k - 1 /\ k = j + 1  BY <2>2
    <3> HIDE DEF j
    <3>2. h[k] = g[j] + t[j]  BY <1>3, <2>2, <3>1
    <3>3. g[j] = f[j]  BY <1>2, <3>1
    <3>4. CASE j = n  BY <1>2, <3>1, <3>2, <3>3, <3>4
    <3>5. CASE j # n
      <4>1. j \in 0..(n - 1) /\ k \in 0..n  BY <3>1, <3>5
      <4>2. f[k] = f[j] + t[j]  BY <1>1, <3>1, <4>1
      <4> QED  BY <1>2, <3>2, <3>3, <4>1, <4>2
    <3> QED  BY <3>4, <3>5
  <2> QED  BY <2>1, <2>2
<1>5. g = [k \in 0..(n + 1) |-> g[k]] /\ h = [k \in 0..(n + 1) |-> h[k]]  BY DEF g, h
<1>6. g = h  BY <1>4, <1>5
<1>7. Accs(t, n + 1, g)  BY <1>6 DEF Accs, h
<1> QED  BY <1>7

LEMMA AccsExist ==
    ASSUME NEW t, NEW n \in Nat
    PROVE  \E f : Accs(t, n, f)
<1> DEFINE T == {k \in Nat : \E f : Accs(t, k, f)}
<1>1. 0 \in T
  <2>1. Accs(t, 0, [k \in 0..0 |-> 0])  BY DEF Accs
  <2> QED  BY <2>1
<1>2. \A k \in 0..(n - 1) : k \in T => k + 1 \in T  BY AccsMore
<1> HIDE DEF T
<1>3. n \in T
  <2>1. \A k \in 0..n : k \in T  BY <1>1, <1>2, CountUp
  <2> QED  BY <2>1
<1> QED  BY <1>3 DEF T

LEMMA AddedIsThat ==
    ASSUME NEW t, NEW n \in Nat, NEW f, Accs(t, n, f)
    PROVE  Added(t, n) = f[n]
<1> DEFINE g == CHOOSE g : Accs(t, n, g)
<1>1. Accs(t, n, g)  OBVIOUS
<1>2. Added(t, n) = g[n]  BY Zenon DEF Added, Accs
<1> HIDE DEF g
<1>3. f[n] = g[n]  BY <1>1, AccsSame
<1> QED  BY <1>2, <1>3

\* One more of t.
LEMMA AddedOne ==
    ASSUME NEW t, NEW n \in Nat
    PROVE  Added(t, 0) = 0 /\ Added(t, n + 1) = Added(t, n) + t[n]
<1>1. PICK e : Accs(t, 0, e)  BY AccsExist
<1>2. PICK f : Accs(t, n, f)  BY AccsExist
<1>3. PICK g : Accs(t, n + 1, g)  BY AccsExist
<1>4. Added(t, 0) = 0  BY <1>1, AddedIsThat, AccsAt
<1>5. g[n + 1] = g[n] + t[n]
  <2>1. n \in 0..((n + 1) - 1)  OBVIOUS
  <2> QED  BY <1>3, <2>1, AccsAt
<1>6. f[n] = g[n]  BY <1>2, <1>3, AccsSame
<1>7. Added(t, n) = f[n]  BY <1>2, AddedIsThat
<1>8. Added(t, n + 1) = g[n + 1]  BY <1>3, AddedIsThat
<1> QED  BY <1>4, <1>5, <1>6, <1>7, <1>8

LEMMA AddedSame ==
    ASSUME NEW t, NEW u, NEW n \in Nat, \A k \in 0..(n - 1) : t[k] = u[k]
    PROVE  Added(t, n) = Added(u, n)
<1>1. PICK f : Accs(t, n, f)  BY AccsExist
<1>2. PICK g : Accs(u, n, g)  BY AccsExist
<1>3. f[n] = g[n]  BY <1>1, <1>2, AccsSame
<1>4. Added(t, n) = f[n]  BY <1>1, AddedIsThat
<1>5. Added(u, n) = g[n]  BY <1>2, AddedIsThat
<1> QED  BY <1>3, <1>4, <1>5

LEMMA AddedInt ==
    ASSUME NEW t, NEW n \in Nat, \A k \in 0..(n - 1) : t[k] \in Int
    PROVE  \A m \in 0..n : Added(t, m) \in Int
<1> DEFINE T == {m \in 0..n : Added(t, m) \in Int}
<1>1. 0 \in T  BY AddedOne
<1>2. ASSUME NEW k \in 0..(n - 1), k \in T PROVE k + 1 \in T
  <2>1. Added(t, k + 1) = Added(t, k) + t[k]  BY AddedOne
  <2> QED  BY <1>2, <2>1
<1> HIDE DEF T
<1>3. \A m \in 0..n : m \in T  BY <1>1, <1>2, CountUp
<1> QED  BY <1>3 DEF T

\* Nothing is added where t is zero.
LEMMA AddedZeros ==
    ASSUME NEW t, NEW n \in Nat, NEW d \in Nat, \A k \in 0..(n - 1) : t[k] \in Int,
           \A k \in n..(n + d - 1) : t[k] = 0
    PROVE  Added(t, n + d) = Added(t, n)
<1> DEFINE T == {m \in 0..d : Added(t, n + m) = Added(t, n)}
<1>0. Added(t, n) \in Int
  <2>1. \A m \in 0..n : Added(t, m) \in Int  BY AddedInt
  <2>2. n \in 0..n  OBVIOUS
  <2> QED  BY <2>1, <2>2
<1>1. 0 \in T  BY DEF T
<1>2. ASSUME NEW k \in 0..(d - 1), k \in T PROVE k + 1 \in T
  <2>1. n + k \in Nat /\ n + (k + 1) = (n + k) + 1 /\ n + k \in n..(n + d - 1)  OBVIOUS
  <2>2. Added(t, (n + k) + 1) = Added(t, n + k) + t[n + k]  BY <2>1, AddedOne
  <2>3. t[n + k] = 0  BY <2>1
  <2>4. Added(t, n + k) = Added(t, n)  BY <1>2
  <2> QED  BY <1>0, <2>1, <2>2, <2>3, <2>4
<1> HIDE DEF T
<1>3. \A m \in 0..d : m \in T  BY <1>1, <1>2, CountUp
<1>4. d \in T  BY <1>3
<1> QED  BY <1>4 DEF T

\* A sum starts where another ends.
LEMMA AddedOn ==
    ASSUME NEW t, NEW o \in Nat, NEW n \in Nat, \A k \in 0..(o + n - 1) : t[k] \in Int,
           NEW u, \A k \in 0..(n - 1) : u[k] = t[o + k]
    PROVE  Added(t, o) + Added(u, n) = Added(t, o + n)
<1> DEFINE T == {m \in 0..n : Added(t, o) + Added(u, m) = Added(t, o + m)}
<1>0. \A m \in 0..(o + n) : Added(t, m) \in Int  BY AddedInt
<1>01. \A k \in 0..(n - 1) : u[k] \in Int
  <2> SUFFICES ASSUME NEW k \in 0..(n - 1) PROVE u[k] \in Int  OBVIOUS
  <2>1. o + k \in 0..(o + n - 1)  OBVIOUS
  <2> QED  BY <2>1
<1>02. \A m \in 0..n : Added(u, m) \in Int  BY <1>01, AddedInt
<1>03. Added(t, o) \in Int  BY <1>0
<1>1. 0 \in T
  <2>1. Added(u, 0) = 0  BY AddedOne
  <2> QED  BY <1>03, <2>1
<1>2. ASSUME NEW k \in 0..(n - 1), k \in T PROVE k + 1 \in T
  <2>1. o + k \in Nat /\ o + (k + 1) = (o + k) + 1 /\ k \in Nat /\ k \in 0..n /\ k + 1 \in 0..n  OBVIOUS
  <2>2. Added(t, (o + k) + 1) = Added(t, o + k) + t[o + k]  BY <2>1, AddedOne
  <2>3. Added(u, k + 1) = Added(u, k) + u[k]  BY <2>1, AddedOne
  <2>4. Added(t, o) + Added(u, k) = Added(t, o + k)  BY <1>2
  <2>5. u[k] = t[o + k] /\ u[k] \in Int /\ Added(u, k) \in Int  BY <1>01, <1>02, <2>1
  <2>6. Added(t, o) + Added(u, k + 1) = Added(t, o + (k + 1))
    BY <1>03, <2>1, <2>2, <2>3, <2>4, <2>5
  <2> QED  BY <2>1, <2>6
<1> HIDE DEF T
<1>3. \A m \in 0..n : m \in T  BY <1>1, <1>2, CountUp
<1>4. n \in T  BY <1>3
<1> QED  BY <1>4 DEF T

Block(t, b, z) == [k \in 0..(z - 1) |-> t[b * z + k]]

\* u's are the sums of t's blocks of z.
BlockSums(u, t, q, z) ==
    /\ \A k \in 0..(q * z - 1) : t[k] \in Int
    /\ \A b \in 0..(q - 1) : u[b] = Added(Block(t, b, z), z)

\* Blocks of z, each added up first.
LEMMA AddedBlocks ==
    ASSUME NEW t, NEW q \in Nat, NEW z \in Nat, NEW u, BlockSums(u, t, q, z)
    PROVE  Added(u, q) = Added(t, q * z)
<1> DEFINE T == {m \in 0..q : Added(u, m) = Added(t, m * z)}
<1>1. 0 \in T
  <2>1. Added(u, 0) = 0 /\ Added(t, 0) = 0 /\ 0 * z = 0  BY AddedOne
  <2> QED  BY <2>1
<1>2. ASSUME NEW b \in 0..(q - 1), b \in T PROVE b + 1 \in T
  <2>1. b * z \in Nat /\ (b + 1) * z = b * z + z /\ b * z + z <= q * z  BY SMT
  <2>2. Added(u, b + 1) = Added(u, b) + u[b]  BY AddedOne
  <2>3. u[b] = Added(Block(t, b, z), z)  BY DEF BlockSums
  <2>4. \A k \in 0..(z - 1) : Block(t, b, z)[k] = t[b * z + k]  BY DEF Block
  <2>5. \A k \in 0..(b * z + z - 1) : t[k] \in Int
    <3> DEFINE p == b * z
               r == q * z
    <3>1. p \in Nat /\ r \in Int /\ p + z <= r  BY <2>1
    <3>2. \A k \in 0..(r - 1) : t[k] \in Int  BY DEF BlockSums
    <3> SUFFICES ASSUME NEW k \in 0..(p + z - 1) PROVE k \in 0..(r - 1)  BY <3>2
    <3> HIDE DEF p, r
    <3> QED  BY <3>1
  <2> DEFINE v == Block(t, b, z)
             p == b * z
  <2>6. Added(t, p) + Added(v, z) = Added(t, p + z)
    <3> HIDE DEF v, p
    <3>1. p \in Nat /\ (\A k \in 0..(z - 1) : v[k] = t[p + k]) /\ \A k \in 0..(p + z - 1) : t[k] \in Int
      BY <2>1, <2>4, <2>5 DEF p, v
    <3> QED  BY <3>1, AddedOn
  <2>7. Added(u, b) = Added(t, p)  BY <1>2
  <2> QED  BY <2>1, <2>2, <2>3, <2>6, <2>7
<1> HIDE DEF T
<1>3. \A m \in 0..q : m \in T  BY <1>1, <1>2, CountUp
<1>4. q \in T  BY <1>3
<1> QED  BY <1>4 DEF T

-----------------------------------------------------------------------------
(* A workgroup's tree.                                                     *)

\* What one barrier closes.
Halved(b) ==
    [scratch |-> [i \in DOMAIN b.scratch |->
                    IF i < b.stride THEN b.scratch[i] + b.scratch[i + b.stride] ELSE b.scratch[i]],
     stride |-> b.stride \div 2]

Barriers(s, n, stride, f) ==
    f = [k \in 0..n |-> IF k = 0 THEN [scratch |-> s, stride |-> stride] ELSE Halved(f[k - 1])]

BarrierByBarrier(s, n, stride, f) ==
    /\ f[0] = [scratch |-> s, stride |-> stride]
    /\ \A k \in 0..(n - 1) : f[k + 1] = Halved(f[k])

LEMMA BarriersAt ==
    ASSUME NEW s, NEW n \in Nat, NEW stride, NEW f, Barriers(s, n, stride, f)
    PROVE  BarrierByBarrier(s, n, stride, f)
<1>1. \A k \in 0..n : f[k] = IF k = 0 THEN [scratch |-> s, stride |-> stride] ELSE Halved(f[k - 1])
  BY DEF Barriers
<1>2. f[0] = [scratch |-> s, stride |-> stride]  BY <1>1
<1>3. ASSUME NEW k \in 0..(n - 1) PROVE f[k + 1] = Halved(f[k])
  <2>1. \A j : \A i \in 0..n : i # 0 /\ j = i - 1 => f[i] = Halved(f[j])  BY <1>1
  <2>2. k + 1 \in 0..n /\ k + 1 # 0 /\ k = (k + 1) - 1  OBVIOUS
  <2> QED  BY <2>1, <2>2
<1> QED  BY <1>2, <1>3 DEF BarrierByBarrier

LEMMA BarriersMore ==
    ASSUME NEW s, NEW n \in Nat, NEW stride, NEW f, Barriers(s, n, stride, f)
    PROVE  \E g : Barriers(s, n + 1, stride, g)
<1> DEFINE z == [scratch |-> s, stride |-> stride]
           g == [k \in 0..(n + 1) |-> IF k = n + 1 THEN Halved(f[n]) ELSE f[k]]
           h == [k \in 0..(n + 1) |-> IF k = 0 THEN z ELSE Halved(g[k - 1])]
<1>1. f[0] = z /\ \A k \in 0..(n - 1) : f[k + 1] = Halved(f[k])
  BY BarriersAt DEF BarrierByBarrier
<1>2. g[n + 1] = Halved(f[n]) /\ \A k \in 0..n : g[k] = f[k]  OBVIOUS
<1>3. h[0] = z /\ \A j : \A k \in 0..(n + 1) : k # 0 /\ j = k - 1 => h[k] = Halved(g[j])
  <2> HIDE DEF g, z
  <2> QED  OBVIOUS
<1> HIDE DEF g, h, z
<1>4. ASSUME NEW k \in 0..(n + 1) PROVE g[k] = h[k]
  <2>1. CASE k = 0  BY <1>1, <1>2, <1>3, <2>1
  <2>2. CASE k # 0
    <3> DEFINE j == k - 1
    <3>1. j \in 0..n /\ j = k - 1 /\ k = j + 1  BY <2>2
    <3> HIDE DEF j
    <3>2. h[k] = Halved(g[j])  BY <1>3, <2>2, <3>1
    <3>3. g[j] = f[j]  BY <1>2, <3>1
    <3>4. CASE j = n  BY <1>2, <3>1, <3>2, <3>3, <3>4
    <3>5. CASE j # n
      <4>1. j \in 0..(n - 1) /\ k \in 0..n  BY <3>1, <3>5
      <4>2. f[k] = Halved(f[j])  BY <1>1, <3>1, <4>1
      <4> QED  BY <1>2, <3>2, <3>3, <4>1, <4>2
    <3> QED  BY <3>4, <3>5
  <2> QED  BY <2>1, <2>2
<1>5. g = [k \in 0..(n + 1) |-> g[k]] /\ h = [k \in 0..(n + 1) |-> h[k]]  BY DEF g, h
<1>6. g = h  BY <1>4, <1>5
<1>7. Barriers(s, n + 1, stride, g)  BY <1>6 DEF Barriers, h, z
<1> QED  BY <1>7

LEMMA BarriersExist ==
    ASSUME NEW s, NEW n \in Nat, NEW stride
    PROVE  \E f : Barriers(s, n, stride, f)
<1> DEFINE T == {k \in Nat : \E f : Barriers(s, k, stride, f)}
<1>1. 0 \in T
  <2>1. Barriers(s, 0, stride, [k \in 0..0 |-> [scratch |-> s, stride |-> stride]])  BY DEF Barriers
  <2> QED  BY <2>1
<1>2. \A k \in 0..(n - 1) : k \in T => k + 1 \in T  BY BarriersMore
<1> HIDE DEF T
<1>3. n \in T
  <2>1. \A k \in 0..n : k \in T  BY <1>1, <1>2, CountUp
  <2> QED  BY <2>1
<1> QED  BY <1>3 DEF T

\* The tree keeps the sum of what is left to add: the first 2 * stride, then scratch[0].
Left(b, sum) ==
    /\ b.scratch = [i \in 0..(Group - 1) |-> b.scratch[i]]
    /\ \A i \in 0..(Group - 1) : b.scratch[i] \in Int
    /\ b.stride \in Nat
    /\ IF b.stride = 0 THEN b.scratch[0] = sum
       ELSE /\ \E e \in 1..Group : Group = (2 * b.stride) * e
            /\ Added(b.scratch, 2 * b.stride) = sum

\* An even factor's half is a factor too.
LEMMA Factors ==
    ASSUME NEW g \in Nat \ {0}, NEW d \in Nat \ {0}, NEW e \in 1..g, g = d * e
    PROVE  d \in 1..g /\ d <= g
BY SMT

LEMMA LeftIs ==
    ASSUME NEW b, NEW sum, NEW r, NEW t, b.scratch = r, b.stride = t,
           r = [i \in 0..(Group - 1) |-> r[i]], \A i \in 0..(Group - 1) : r[i] \in Int, t \in Nat,
           IF t = 0 THEN r[0] = sum
           ELSE (\E e \in 1..Group : Group = (2 * t) * e) /\ Added(r, 2 * t) = sum
    PROVE  Left(b, sum)
BY DEF Left

LEMMA LeftDone ==
    ASSUME NEW b, NEW sum, NEW r, b.scratch = r, b.stride = 0, r[0] = sum,
           r = [i \in 0..(Group - 1) |-> r[i]], \A i \in 0..(Group - 1) : r[i] \in Int
    PROVE  Left(b, sum)
BY DEF Left

LEMMA HalvedKeeps ==
    ASSUME NEW b, NEW sum, Left(b, sum)
    PROVE  Left(Halved(b), sum)
<1> DEFINE s == b.scratch
           st == b.stride
           r == [i \in 0..(Group - 1) |-> IF i < st THEN s[i] + s[i + st] ELSE s[i]]
<1>0. Group \in Nat \ {0}  BY SizesAre
<1>1. s = [i \in 0..(Group - 1) |-> s[i]] /\ (\A i \in 0..(Group - 1) : s[i] \in Int) /\ st \in Nat
  BY DEF Left
<1>2. Halved(b).scratch = r /\ Halved(b).stride = st \div 2
  <2>1. DOMAIN b.scratch = 0..(Group - 1)  BY DEF Left
  <2> QED  BY <2>1 DEF Halved
<1>3. CASE st = 0
  <2>1. b.scratch[0] = sum  BY <1>3 DEF Left
  <2>2. \A i \in 0..(Group - 1) : r[i] = s[i]  BY <1>3
  <2>3. st \div 2 = 0  BY <1>3
  <2>4. r = [i \in 0..(Group - 1) |-> r[i]]  OBVIOUS
  <2>5. 0 \in 0..(Group - 1)  BY <1>0
  <2>6. \A i \in 0..(Group - 1) : r[i] \in Int  BY <1>1, <2>2
  <2>7. r[0] = sum  BY <2>1, <2>2, <2>5
  <2> DEFINE b2 == Halved(b)
  <2>8. b2.scratch = r /\ b2.stride = 0  BY <1>2, <2>3
  <2> HIDE DEF r, b2
  <2>9. Left(b2, sum)  BY <2>4, <2>6, <2>7, <2>8, LeftDone
  <2> QED  BY <2>9 DEF b2
<1>4. CASE st # 0
  <2>1. PICK e \in 1..Group : Group = (2 * st) * e  BY <1>4 DEF Left
  <2>2. Added(s, 2 * st) = sum  BY <1>4 DEF Left
  <2>3. 2 * st \in Nat \ {0}  BY <1>1, <1>4
  <2>4. 2 * st <= Group  BY <1>0, <2>1, <2>3, Factors
  <2>5. \A i \in 0..(Group - 1) : r[i] \in Int
    <3> SUFFICES ASSUME NEW i \in 0..(Group - 1) PROVE r[i] \in Int  OBVIOUS
    <3>1. CASE i < st
      <4>1. i + st \in 0..(Group - 1)  BY <1>0, <1>1, <2>4, <3>1
      <4>2. s[i] \in Int /\ s[i + st] \in Int  BY <1>1, <4>1
      <4>3. r[i] = s[i] + s[i + st]  BY <3>1
      <4> HIDE DEF r, s
      <4> QED  BY <4>2, <4>3
    <3>2. CASE ~(i < st)  BY <1>1, <3>2
    <3> QED  BY <3>1, <3>2
  \* The first stride of them add up to what the first two strides did.
  <2>6. Added(r, st) = sum
    <3> DEFINE u == [k \in 0..(st - 1) |-> s[st + k]]
               T == {m \in 0..st : Added(r, m) = Added(s, m) + Added(u, m)}
    <3>1. \A k \in 0..(st - 1) : /\ k \in 0..(Group - 1) /\ s[k] \in Int /\ u[k] \in Int
                                 /\ r[k] = s[k] + u[k] /\ u[k] = s[st + k]
      <4> SUFFICES ASSUME NEW k \in 0..(st - 1)
                   PROVE  /\ k \in 0..(Group - 1) /\ s[k] \in Int /\ u[k] \in Int
                          /\ r[k] = s[k] + u[k] /\ u[k] = s[st + k]
        OBVIOUS
      <4>1. k \in 0..(Group - 1) /\ st + k \in 0..(Group - 1) /\ k < st /\ k + st = st + k
        BY <1>0, <1>1, <2>4
      <4>2. s[k] \in Int /\ s[st + k] \in Int  BY <1>1, <4>1
      <4>3. u[k] = s[st + k]  OBVIOUS
      <4>4. r[k] = s[k] + s[k + st]  BY <4>1
      <4> HIDE DEF r, s, u
      <4> QED  BY <4>1, <4>2, <4>3, <4>4
    <3>2. st \in Nat  BY <1>1
    <3>3. \A m \in 0..st : Added(s, m) \in Int /\ Added(u, m) \in Int
      <4> HIDE DEF s, u, st, r
      <4>1. \A m \in 0..st : Added(s, m) \in Int  BY <3>1, <3>2, AddedInt
      <4>2. \A m \in 0..st : Added(u, m) \in Int  BY <3>1, <3>2, AddedInt
      <4> QED  BY <4>1, <4>2
    <3>4. 0 \in T
      <4>1. Added(r, 0) = 0 /\ Added(s, 0) = 0 /\ Added(u, 0) = 0  BY AddedOne
      <4> HIDE DEF s, u, st, r
      <4> QED  BY <3>2, <4>1
    <3>5. ASSUME NEW k \in 0..(st - 1), k \in T PROVE k + 1 \in T
      <4> HIDE DEF s, u, st, r
      <4>0. k \in Nat /\ k \in 0..st /\ k + 1 \in 0..st  BY <3>2
      <4>1. Added(r, k + 1) = Added(r, k) + r[k]  BY <4>0, AddedOne
      <4>2. Added(s, k + 1) = Added(s, k) + s[k]  BY <4>0, AddedOne
      <4>3. Added(u, k + 1) = Added(u, k) + u[k]  BY <4>0, AddedOne
      <4>4. Added(r, k) = Added(s, k) + Added(u, k)  BY <3>5
      <4>5. Added(s, k) \in Int /\ Added(u, k) \in Int /\ s[k] \in Int /\ u[k] \in Int /\ r[k] = s[k] + u[k]
        BY <3>1, <3>3, <4>0
      <4>6. Added(r, k + 1) = Added(s, k + 1) + Added(u, k + 1)
        BY <4>1, <4>2, <4>3, <4>4, <4>5
      <4> QED  BY <4>0, <4>6
    <3>6. Added(r, st) = Added(s, st) + Added(u, st)
      <4> HIDE DEF T, st
      <4>1. \A m \in 0..st : m \in T  BY <3>2, <3>4, <3>5, CountUp
      <4>2. st \in 0..st  BY <3>2
      <4>3. st \in T  BY <4>1, <4>2
      <4> QED  BY <4>3 DEF T
    <3>7. Added(s, st) + Added(u, st) = Added(s, st + st)
      <4>1. \A k \in 0..(st + st - 1) : s[k] \in Int
        <5>1. \A k \in 0..(st + st - 1) : k \in 0..(Group - 1)  BY <1>0, <1>1, <2>4
        <5> HIDE DEF s, st
        <5> QED  BY <1>1, <5>1
      <4>2. \A k \in 0..(st - 1) : u[k] = s[st + k]  BY <3>1
      <4> HIDE DEF s, st, u, r
      <4> QED  BY <3>2, <4>1, <4>2, AddedOn
    <3>8. st + st = 2 * st  BY <1>1
    <3> HIDE DEF s, st, u, r
    <3> QED  BY <2>2, <3>6, <3>7, <3>8
  <2>7. r = [i \in 0..(Group - 1) |-> r[i]]  OBVIOUS
  <2>8. CASE st = 1
    <3>1. st \div 2 = 0  BY <2>8
    <3>2. Added(r, 1) = r[0]
      <4>1. Added(r, 0) = 0 /\ Added(r, 0 + 1) = Added(r, 0) + r[0]  BY AddedOne
      <4>2. r[0] \in Int  BY <1>0, <2>5
      <4> HIDE DEF r
      <4> QED  BY <4>1, <4>2
    <3>3. r[0] = sum  BY <2>6, <2>8, <3>2
    <3> DEFINE b2 == Halved(b)
    <3>4. b2.scratch = r /\ b2.stride = 0  BY <1>2, <3>1
    <3> HIDE DEF r, b2
    <3>5. Left(b2, sum)  BY <2>5, <2>7, <3>3, <3>4, LeftDone
    <3> QED  BY <3>5 DEF b2
  <2>9. CASE st # 1
    <3>1. Group = st * (2 * e) /\ 2 * e \in 1..Group
      <4>1. st >= 2  BY <1>1, <1>4, <2>9
      <4>2. Group = st * (2 * e)  BY <1>1, <2>1
      <4>3. 2 * e <= st * (2 * e)
        <5>1. e \in Nat  BY <1>0
        <5> QED  BY <1>1, <4>1, <5>1, SMT
      <4> QED  BY <1>0, <4>2, <4>3
    <3>2. st \in 1..Group  BY <1>0, <1>1, <1>4, <2>4
    <3>3. st % 2 = 0  BY <2>9, <3>1, <3>2, TreeAssumption
    <3>4. st \div 2 \in Nat /\ st = 2 * (st \div 2) /\ st \div 2 # 0  BY <1>1, <1>4, <3>3
    <3> DEFINE b2 == Halved(b)
               t == st \div 2
    <3>5. b2.scratch = r /\ b2.stride = t  BY <1>2
    <3>6. t \in Nat /\ t # 0 /\ Added(r, 2 * t) = sum /\ Group = (2 * t) * (2 * e)
      <4>1. 2 * t = st  BY <3>4
      <4> HIDE DEF r, t, s, st
      <4> QED  BY <2>6, <3>1, <3>4, <4>1 DEF t
    <3> HIDE DEF r, b2, t
    <3>7. Left(b2, sum)  BY <2>5, <2>7, <3>1, <3>5, <3>6, LeftIs
    <3> QED  BY <3>7 DEF b2
  <2> QED  BY <2>8, <2>9
<1> QED  BY <1>3, <1>4

LEMMA StridesShrink ==
    ASSUME NEW s, NEW n \in Nat, NEW f, Barriers(s, n, n, f)
    PROVE  f[n].stride = 0
<1> DEFINE T == {k \in 0..n : f[k].stride \in Nat /\ f[k].stride <= n - k}
<1>1. f[0] = [scratch |-> s, stride |-> n] /\ \A k \in 0..(n - 1) : f[k + 1] = Halved(f[k])
  <2>1. BarrierByBarrier(s, n, n, f)  BY BarriersAt
  <2> QED  BY <2>1 DEF BarrierByBarrier
<1>2. 0 \in T  BY <1>1
<1>3. ASSUME NEW k \in 0..(n - 1), k \in T PROVE k + 1 \in T
  <2>1. f[k + 1].stride = f[k].stride \div 2
    <3>1. f[k + 1] = Halved(f[k])  BY <1>1
    <3> QED  BY <3>1 DEF Halved
  <2>2. f[k].stride \in Nat /\ f[k].stride <= n - k  BY <1>3
  <2> DEFINE p == f[k].stride
  <2> HIDE DEF p
  <2>3. p \div 2 \in Nat /\ p \div 2 <= n - (k + 1)  BY <2>2 DEF p
  <2> QED  BY <2>1, <2>3 DEF p
<1> HIDE DEF T
<1>4. n \in T
  <2>1. \A k \in 0..n : k \in T  BY <1>2, <1>3, CountUp
  <2> QED  BY <2>1
<1>5. f[n].stride \in Nat /\ f[n].stride <= n - n  BY <1>4 DEF T
<1> QED  BY <1>5

LEMMA TreeKeeps ==
    ASSUME NEW s, NEW n \in Nat, NEW f, Barriers(s, n, n, f), NEW sum,
           Left([scratch |-> s, stride |-> n], sum)
    PROVE  f[n].scratch[0] = sum
<1> DEFINE T == {k \in 0..n : Left(f[k], sum)}
<1>1. f[0] = [scratch |-> s, stride |-> n] /\ \A k \in 0..(n - 1) : f[k + 1] = Halved(f[k])
  <2>1. BarrierByBarrier(s, n, n, f)  BY BarriersAt
  <2> QED  BY <2>1 DEF BarrierByBarrier
<1>2. 0 \in T  BY <1>1
<1>3. ASSUME NEW k \in 0..(n - 1), k \in T PROVE k + 1 \in T
  <2>1. Left(f[k + 1], sum)  BY <1>1, <1>3, HalvedKeeps
  <2>2. k + 1 \in 0..n  OBVIOUS
  <2> QED  BY <2>1, <2>2
<1> HIDE DEF T
<1>4. n \in T
  <2>1. \A k \in 0..n : k \in T  BY <1>2, <1>3, CountUp
  <2> QED  BY <2>1
<1>5. Left(f[n], sum)  BY <1>4 DEF T
<1>6. f[n].stride = 0  BY StridesShrink
<1> QED  BY <1>5, <1>6 DEF Left

Scratch(s) == s = [i \in 0..(Group - 1) |-> s[i]] /\ \A i \in 0..(Group - 1) : s[i] \in Int

LEMMA TreeStarts ==
    ASSUME NEW s, Scratch(s)
    PROVE  Left([scratch |-> s, stride |-> Group \div 2], Added(s, Group))
<1> DEFINE n == Group \div 2
           sum == Added(s, Group)
           b == [scratch |-> s, stride |-> n]
<1>0. Group \in Nat \ {0} /\ n \in Nat  BY SizesAre
<1>1. b.scratch = s /\ b.stride = n  OBVIOUS
<1>2. CASE n = 0
  <2>1. Group = 1  BY <1>0, <1>2
  <2>2. Added(s, 0) = 0 /\ Added(s, 0 + 1) = Added(s, 0) + s[0]  BY AddedOne
  <2>3. s[0] \in Int /\ 0 + 1 = 1  BY <2>1 DEF Scratch
  <2>4. sum = s[0]  BY <2>1, <2>2, <2>3
  <2> HIDE DEF sum, b, n
  <2>5. Left(b, sum)  BY <1>1, <1>2, <2>4, LeftDone DEF Scratch
  <2> QED  BY <2>5 DEF b, sum, n
<1>3. CASE n # 0
  <2>1. Group \in 1..Group /\ 1 \in 1..Group /\ Group = Group * 1 /\ Group # 1  BY <1>0, <1>3
  <2>2. Group % 2 = 0  BY <2>1, TreeAssumption
  <2>3. Group = 2 * n  BY <1>0, <2>2
  <2>4. \E e \in 1..Group : Group = (2 * n) * e
    <3>1. Group = (2 * n) * 1
      <4> HIDE DEF n
      <4> QED  BY <1>0, <2>3
    <3> HIDE DEF n
    <3> QED  BY <2>1, <3>1
  <2>5. Added(s, 2 * n) = sum  BY <2>3
  <2> HIDE DEF sum, b, n
  <2>6. Left(b, sum)  BY <1>0, <1>1, <1>3, <2>4, <2>5, LeftIs DEF Scratch
  <2> QED  BY <2>6 DEF b, sum, n
<1> QED  BY <1>2, <1>3

\* A workgroup's partial is the sum of what its threads brought.
LEMMA ReducedIs ==
    ASSUME NEW s, Scratch(s)
    PROVE  Reduced(s, Group \div 2) = Added(s, Group)
<1> DEFINE n == Group \div 2
           g == CHOOSE f : Barriers(s, n, n, f)
<1>0. n \in Nat  BY SizesAre
<1>1. Left([scratch |-> s, stride |-> n], Added(s, Group))  BY TreeStarts
<1> HIDE DEF n
<1>2. Barriers(s, n, n, g)  BY <1>0, BarriersExist
<1>3. Reduced(s, n) = g[n].scratch[0]  BY Zenon DEF Reduced, Barriers, Halved
<1> HIDE DEF g
<1>4. g[n].scratch[0] = Added(s, Group)  BY <1>0, <1>1, <1>2, TreeKeeps
<1> QED  BY <1>3, <1>4 DEF n

-----------------------------------------------------------------------------
(* What a run of a builtin writes.                                         *)

\* Numbers, each somewhere in a slot's first len, and everywhere there.
WritesAll(writes, len) ==
    /\ \A w \in writes : w.at \in 0..(len - 1) /\ w.to \in Int
    /\ \A i \in 0..(len - 1) : \E w \in writes : w.at = i

\* A slot's first len elements are numbers.
Numeric(r, len) == \A i \in 1..len : r[i] \in Int

LEMMA WrittenIs ==
    ASSUME NEW r, NEW n \in Nat, Filled(r, n), NEW len \in 0..n, NEW writes, WritesAll(writes, len)
    PROVE  /\ Numeric(Written(r, writes), len)
           /\ \A i \in 1..n : i \notin 1..len => Written(r, writes)[i] = r[i]
<1> DEFINE z == Written(r, writes)
<1>1. DOMAIN r = 1..n  BY DEF Filled
<1>2. \A i \in 1..n : z[i] = IF \E w \in writes : w.at + 1 = i
                             THEN (CHOOSE w \in writes : w.at + 1 = i).to ELSE r[i]
  BY <1>1 DEF Written
<1>3. ASSUME NEW i \in 1..len PROVE z[i] \in Int
  <2>1. i - 1 \in 0..(len - 1) /\ i \in 1..n  OBVIOUS
  <2>2. PICK w \in writes : w.at = i - 1  BY <2>1 DEF WritesAll
  <2>3. w.at + 1 = i  BY <2>2
  <2> DEFINE c == CHOOSE v \in writes : v.at + 1 = i
  <2>4. c \in writes  BY <2>3
  <2>5. z[i] = c.to  BY <1>2, <2>1, <2>3
  <2> HIDE DEF c
  <2> QED  BY <2>4, <2>5 DEF WritesAll
<1>4. ASSUME NEW i \in 1..n, i \notin 1..len PROVE z[i] = r[i]
  <2>1. ~ \E w \in writes : w.at + 1 = i  BY <1>4 DEF WritesAll
  <2> QED  BY <1>2, <2>1
<1> QED  BY <1>3, <1>4 DEF Numeric

LEMMA IndexIn ==
    ASSUME NEW a \in Nat, NEW b \in Nat, NEW i \in 0..(a - 1), NEW j \in 0..(b - 1)
    PROVE  i * b + j \in 0..(a * b - 1) /\ i * b + j \in Nat /\ i * b + j + 1 \in 1..(a * b)
<1>1. i * b \in Nat /\ (i + 1) * b = i * b + b /\ (i + 1) * b <= a * b /\ a * b \in Nat  BY SMT
<1> DEFINE p == i * b
           q == a * b
<1>2. p \in Nat /\ q \in Nat /\ p + b <= q  BY <1>1
<1> HIDE DEF p, q
<1>3. p + j \in 0..(q - 1) /\ p + j \in Nat /\ p + j + 1 \in 1..q  BY <1>2
<1> QED  BY <1>3 DEF p, q

LEMMA IndexOf ==
    ASSUME NEW a \in Nat, NEW b \in Nat, NEW k \in 0..(a * b - 1)
    PROVE  \E i \in 0..(a - 1), j \in 0..(b - 1) : k = i * b + j
<1>1. b # 0 /\ a * b \in Nat  BY SMT
<1> DEFINE i == k \div b
           j == k % b
<1>2. k = i * b + j /\ i \in Nat /\ j \in Nat /\ j < b  BY <1>1, Division
<1> HIDE DEF i, j
<1>3. i < a
  <2> SUFFICES ASSUME i >= a PROVE FALSE  BY <1>2
  <2>1. i * b >= a * b  BY <1>2, SMT
  <2> DEFINE p == i * b
             q == a * b
  <2>2. p \in Nat /\ q \in Nat /\ p >= q /\ k = p + j /\ k \in 0..(q - 1)  BY <1>1, <1>2, <2>1
  <2> HIDE DEF p, q
  <2> QED  BY <1>2, <2>2
<1>4. i \in 0..(a - 1) /\ j \in 0..(b - 1)  BY <1>2, <1>3
<1> QED  BY <1>2, <1>4

LEMMA NumTilesCover ==
    ASSUME NEW n \in Nat
    PROVE  num_tiles(n) \in Nat /\ num_tiles(n) * Tile \in Nat /\ n <= num_tiles(n) * Tile
<1> DEFINE k == n + Tile - 1
           q == k \div Tile
<1>1. k \in Nat /\ Tile \in Nat \ {0}  BY SizesAre
<1>2. k = q * Tile + (k % Tile) /\ q \in Nat /\ k % Tile \in Nat /\ k % Tile < Tile
  <2> HIDE DEF k
  <2> QED  BY <1>1, Division
<1>3. num_tiles(n) = q  BY DEF num_tiles
<1> DEFINE p == q * Tile
<1>4. p \in Nat
  <2> HIDE DEF q
  <2> QED  BY <1>1, <1>2
<1>5. n <= p
  <2> HIDE DEF p, q
  <2> QED  BY <1>1, <1>2, <1>4 DEF p
<1> QED  BY <1>2, <1>3, <1>4, <1>5

Tiled(v, t, n, q, z) ==
    \A b \in 0..(q - 1), k \in 0..(z - 1) : v[b][k] = IF b * z + k < n THEN t[b * z + k] ELSE 0

TileSums(u, v, q, z) == \A b \in 0..(q - 1) : u[b] = Added(v[b], z)

AreInts(t, n) == \A k \in 0..(n - 1) : t[k] \in Int

\* Blocks with zeros past the end add up to what is before it.
LEMMA TilesAdd ==
    ASSUME NEW n \in Nat, NEW t, AreInts(t, n),
           NEW q \in Nat, NEW z \in Nat, n <= q * z, NEW v, Tiled(v, t, n, q, z),
           NEW u, TileSums(u, v, q, z)
    PROVE  Added(u, q) = Added(t, n)
<1> DEFINE N == q * z
           e == [k \in 0..(N - 1) |-> IF k < n THEN t[k] ELSE 0]
<1>1. N \in Nat /\ n <= N  BY SMT
<1>2. \A k \in 0..(N - 1) : e[k] = (IF k < n THEN t[k] ELSE 0) /\ e[k] \in Int
  <2> HIDE DEF N
  <2> QED  BY <1>1 DEF AreInts
<1>3. ASSUME NEW b \in 0..(q - 1) PROVE u[b] = Added(Block(e, b, z), z)
  <2>1. ASSUME NEW k \in 0..(z - 1) PROVE v[b][k] = Block(e, b, z)[k]
    <3>1. b * z + k \in 0..(N - 1)  BY IndexIn
    <3>2. Block(e, b, z)[k] = e[b * z + k]  BY DEF Block
    <3>3. v[b][k] = IF b * z + k < n THEN t[b * z + k] ELSE 0  BY DEF Tiled
    <3> DEFINE j == b * z + k
    <3> HIDE DEF e, N, j
    <3>4. e[j] = IF j < n THEN t[j] ELSE 0  BY <1>2, <3>1 DEF j
    <3> QED  BY <3>2, <3>3, <3>4 DEF j
  <2>2. Added(v[b], z) = Added(Block(e, b, z), z)
    <3> DEFINE x == v[b]
               y == Block(e, b, z)
    <3>1. \A k \in 0..(z - 1) : x[k] = y[k]  BY <2>1
    <3> HIDE DEF x, y
    <3>2. Added(x, z) = Added(y, z)  BY <3>1, AddedSame
    <3> QED  BY <3>2 DEF x, y
  <2> QED  BY <2>2 DEF TileSums
<1>4. Added(u, q) = Added(e, N)
  <2>1. BlockSums(u, e, q, z)  BY <1>2, <1>3 DEF BlockSums
  <2> HIDE DEF e
  <2> QED  BY <2>1, AddedBlocks
<1> DEFINE d == N - n
<1>5. d \in Nat /\ N = n + d  BY <1>1
<1>6. Added(e, n + d) = Added(e, n)
  <2>1. \A k \in 0..(n - 1) : e[k] \in Int
    <3> HIDE DEF e, N
    <3> QED  BY <1>1, <1>2
  <2>2. \A k \in n..(n + d - 1) : e[k] = 0
    <3> HIDE DEF e, N, d
    <3> QED  BY <1>1, <1>2, <1>5
  <2> HIDE DEF e, d
  <2> QED  BY <1>5, <2>1, <2>2, AddedZeros
<1>7. Added(e, n) = Added(t, n)
  <2>1. \A k \in 0..(n - 1) : e[k] = t[k]
    <3> HIDE DEF e, N
    <3> QED  BY <1>1, <1>2
  <2> HIDE DEF e
  <2> QED  BY <2>1, AddedSame
<1> HIDE DEF e, d, N
<1> QED  BY <1>4, <1>5, <1>6, <1>7

\* Where element k of a column is.
ColumnAt(name, m, col, k) == (IF name = "matmul_trp" THEN col * m[3] + k ELSE k * m[2] + col) + 1

NativeDot(name, m, s, row, col) ==
    Sum(m[3], LAMBDA k : s[1][row * m[3] + k + 1] *
                         s[2][(IF name = "matmul_trp" THEN col * m[3] + k ELSE k * m[2] + col) + 1])

TiledDot(name, m, s, row, col) ==
    Sum(num_tiles(m[3]), LAMBDA t :
        Sum(Tile, LAMBDA k : tile_A(m, s, row, t, k) * tile_B(name, m, s, col, t, k)))

\* A row of the one times a column of the other, tile by tile or not.
LEMMA DotsAgree ==
    ASSUME NEW name, NEW m, m[1] \in Nat, m[2] \in Nat, m[3] \in Nat,
           NEW s, Numeric(s[1], m[1] * m[3]), Numeric(s[2], m[3] * m[2]),
           NEW row \in 0..(m[1] - 1), NEW col \in 0..(m[2] - 1)
    PROVE  /\ NativeDot(name, m, s, row, col) \in Int
           /\ TiledDot(name, m, s, row, col) = NativeDot(name, m, s, row, col)
<1> DEFINE n == m[3]
           q == num_tiles(n)
           t == [k \in 0..(n - 1) |-> s[1][row * n + k + 1] * s[2][ColumnAt(name, m, col, k)]]
           v == [b \in 0..(q - 1) |-> [k \in 0..(Tile - 1) |->
                    tile_A(m, s, row, b, k) * tile_B(name, m, s, col, b, k)]]
           u == [b \in 0..(q - 1) |-> Added([k \in 0..(Tile - 1) |->
                    tile_A(m, s, row, b, k) * tile_B(name, m, s, col, b, k)], Tile)]
<1>1. NativeDot(name, m, s, row, col) = Added(t, n)  BY DEF NativeDot, Sum, ColumnAt
<1>2. TiledDot(name, m, s, row, col) = Added(u, q)  BY DEF TiledDot, Sum
<1>3. q \in Nat /\ q * Tile \in Nat /\ n <= q * Tile /\ Tile \in Nat  BY NumTilesCover, SizesAre
<1>4. ASSUME NEW k \in 0..(n - 1)
      PROVE  /\ t[k] = s[1][row * n + k + 1] * s[2][ColumnAt(name, m, col, k)]
             /\ t[k] \in Int
  <2>1. row * n + k + 1 \in 1..(m[1] * n)  BY IndexIn
  <2>2. ColumnAt(name, m, col, k) \in 1..(n * m[2])
    <3>1. CASE name = "matmul_trp"
      <4>1. col * n + k + 1 \in 1..(m[2] * n)  BY IndexIn
      <4>2. m[2] * n = n * m[2]  OBVIOUS
      <4> QED  BY <3>1, <4>1, <4>2 DEF ColumnAt
    <3>2. CASE name # "matmul_trp"
      <4>1. k * m[2] + col + 1 \in 1..(n * m[2])  BY IndexIn
      <4> QED  BY <3>2, <4>1 DEF ColumnAt
    <3> QED  BY <3>1, <3>2
  <2>3. s[1][row * n + k + 1] \in Int /\ s[2][ColumnAt(name, m, col, k)] \in Int
    BY <2>1, <2>2 DEF Numeric
  <2>4. t[k] = s[1][row * n + k + 1] * s[2][ColumnAt(name, m, col, k)]  OBVIOUS
  <2> HIDE DEF t, n
  <2> QED  BY <2>3, <2>4
<1>5. Tiled(v, t, n, q, Tile)
  <2> SUFFICES ASSUME NEW b \in 0..(q - 1), NEW k \in 0..(Tile - 1)
               PROVE  v[b][k] = IF b * Tile + k < n THEN t[b * Tile + k] ELSE 0
    BY DEF Tiled
  <2>1. v[b][k] = tile_A(m, s, row, b, k) * tile_B(name, m, s, col, b, k)  OBVIOUS
  <2> DEFINE j == b * Tile + k
  <2>2. j \in Nat  BY <1>3, IndexIn
  <2> HIDE DEF t, v
  <2>3. CASE j < n
    <3>1. j \in 0..(n - 1)  BY <2>2, <2>3
    <3>2. t[j] = s[1][row * n + j + 1] * s[2][ColumnAt(name, m, col, j)]  BY <1>4, <3>1
    <3>3. tile_A(m, s, row, b, k) = s[1][row * n + j + 1]
      <4>1. row * n + b * Tile + k + 1 = row * n + j + 1  BY <1>3
      <4> QED  BY <2>3, <4>1 DEF tile_A
    <3>4. tile_B(name, m, s, col, b, k) = s[2][ColumnAt(name, m, col, j)]
      <4>1. col * n + b * Tile + k + 1 = col * n + j + 1  BY <1>3
      <4> QED  BY <2>3, <4>1 DEF tile_B, ColumnAt
    <3> QED  BY <2>1, <2>3, <3>2, <3>3, <3>4
  <2>4. CASE ~(j < n)
    <3>1. tile_A(m, s, row, b, k) = 0 /\ tile_B(name, m, s, col, b, k) = 0
      BY <2>4 DEF tile_A, tile_B
    <3> QED  BY <2>1, <2>4, <3>1
  <2> QED  BY <2>3, <2>4
<1>6. TileSums(u, v, q, Tile)
  <2> SUFFICES ASSUME NEW b \in 0..(q - 1) PROVE u[b] = Added(v[b], Tile)  BY DEF TileSums
  <2>1. v[b] = [k \in 0..(Tile - 1) |-> tile_A(m, s, row, b, k) * tile_B(name, m, s, col, b, k)]
    BY Zenon
  <2>2. u[b] = Added([k \in 0..(Tile - 1) |->
                    tile_A(m, s, row, b, k) * tile_B(name, m, s, col, b, k)], Tile)  BY Zenon
  <2> HIDE DEF u, v
  <2> QED  BY Zenon, <2>1, <2>2
<1>7. \A k \in 0..(n - 1) : t[k] \in Int  BY <1>4
<1> HIDE DEF t, u, v
<1>8. Added(u, q) = Added(t, n)
  <2>1. AreInts(t, n)  BY <1>7 DEF AreInts
  <2> QED  BY <1>3, <1>5, <1>6, <2>1, TilesAdd
<1>9. Added(t, n) \in Int
  <2>1. n \in 0..n  OBVIOUS
  <2> QED  BY <1>7, <2>1, AddedInt
<1> QED  BY <1>1, <1>2, <1>8, <1>9

\* The grid covers every element of a matrix.
LEMMA GridCovers ==
    ASSUME NEW m, m[1] \in Nat, m[2] \in Nat,
           NEW wg, wg[1] = tiles(m[2], Tile), wg[2] = tiles(m[1], Tile)
    PROVE  [row : 0..(m[1] - 1), col : 0..(m[2] - 1)]
              = {g \in Grid(wg) : g.row < m[1] /\ g.col < m[2]}
<1> DEFINE C == [row : 0..(m[1] - 1), col : 0..(m[2] - 1)]
           G == {g \in Grid(wg) : g.row < m[1] /\ g.col < m[2]}
<1>1. m[1] <= wg[2] * Tile /\ m[2] <= wg[1] * Tile
      /\ wg[1] \in Nat /\ wg[2] \in Nat /\ Tile \in Nat
  BY TilesCover, SizesAre
<1> DEFINE p == wg[2] * Tile
           r == wg[1] * Tile
<1>2. p \in Nat /\ r \in Nat  BY <1>1
<1>3. Grid(wg) = [row : 0..(p - 1), col : 0..(r - 1)]  BY DEF Grid
<1> HIDE DEF p, r
<1>4. 0..(m[1] - 1) \subseteq 0..(p - 1) /\ 0..(m[2] - 1) \subseteq 0..(r - 1)
  BY <1>1, <1>2 DEF p, r
<1>5. \A c \in C : c \in G  BY <1>3, <1>4
<1>6. \A c \in G : c \in C  BY <1>2, <1>3
<1> QED  BY <1>5, <1>6

\* Native and WGSL code of a matmul write the same numbers in the same places.
LEMMA MatmulAgrees ==
    ASSUME NEW name \in Matmuls, NEW m, m[1] \in Nat, m[2] \in Nat, m[3] \in Nat,
           NEW s, Numeric(s[1], m[1] * m[3]), Numeric(s[2], m[3] * m[2]),
           name = "matmul_add" => Numeric(s[3], m[1] * m[2]),
           NEW wg, wg[1] = tiles(m[2], Tile), wg[2] = tiles(m[1], Tile)
    PROVE  /\ native_matmul(name, m, s) = wgsl_matmul(name, m, wg, s)
           /\ WritesAll(native_matmul(name, m, s), m[1] * m[2])
<1> DEFINE C == [row : 0..(m[1] - 1), col : 0..(m[2] - 1)]
           G == {g \in Grid(wg) : g.row < m[1] /\ g.col < m[2]}
           at(c) == c.row * m[2] + c.col
           to(c) == Onto(name, s[3], at(c), NativeDot(name, m, s, c.row, c.col))
           tiled(c) == Onto(name, s[3], at(c), TiledDot(name, m, s, c.row, c.col))
<1>1. native_matmul(name, m, s) = {[at |-> at(c), to |-> to(c)] : c \in C}
  BY DEF native_matmul, NativeDot
<1>2. wgsl_matmul(name, m, wg, s) = {[at |-> at(c), to |-> tiled(c)] : c \in G}
  BY DEF wgsl_matmul, TiledDot
<1>3. C = G  BY GridCovers
<1>4. ASSUME NEW c \in C
      PROVE  at(c) \in 0..(m[1] * m[2] - 1) /\ to(c) \in Int /\ tiled(c) = to(c)
  <2>1. c.row \in 0..(m[1] - 1) /\ c.col \in 0..(m[2] - 1)  OBVIOUS
  <2>2. at(c) \in 0..(m[1] * m[2] - 1) /\ at(c) + 1 \in 1..(m[1] * m[2])  BY <2>1, IndexIn
  <2>3. NativeDot(name, m, s, c.row, c.col) \in Int
        /\ TiledDot(name, m, s, c.row, c.col) = NativeDot(name, m, s, c.row, c.col)
    BY <2>1, DotsAgree
  <2>4. name = "matmul_add" => s[3][at(c) + 1] \in Int  BY <2>2 DEF Numeric
  <2>5. name # "gemv_add"  BY DEF Matmuls
  <2> DEFINE x == NativeDot(name, m, s, c.row, c.col)
             i == at(c)
  <2> HIDE DEF x, i
  <2>6. Onto(name, s[3], i, x) \in Int  BY <2>3, <2>4, <2>5 DEF Onto, x, i
  <2> QED  BY <2>2, <2>3, <2>6 DEF x, i
<1>5. ASSUME NEW k \in 0..(m[1] * m[2] - 1) PROVE \E c \in C : at(c) = k
  <2>1. PICK i \in 0..(m[1] - 1), j \in 0..(m[2] - 1) : k = i * m[2] + j  BY IndexOf
  <2>2. [row |-> i, col |-> j] \in C  OBVIOUS
  <2> QED  BY <2>1, <2>2
<1> HIDE DEF C, G, at, to, tiled
<1>6. native_matmul(name, m, s) = wgsl_matmul(name, m, wg, s)  BY <1>1, <1>2, <1>3, <1>4
<1>7. WritesAll(native_matmul(name, m, s), m[1] * m[2])
  <2> DEFINE len == m[1] * m[2]
  <2> HIDE DEF len
  <2>1. \A c \in C : at(c) \in 0..(len - 1) /\ to(c) \in Int  BY <1>4 DEF len
  <2>2. \A k \in 0..(len - 1) : \E c \in C : at(c) = k  BY <1>5 DEF len
  <2> DEFINE W == {[at |-> at(c), to |-> to(c)] : c \in C}
  <2>3. ASSUME NEW w \in W PROVE w.at \in 0..(len - 1) /\ w.to \in Int
    <3>1. PICK c \in C : w = [at |-> at(c), to |-> to(c)]  OBVIOUS
    <3>2. w.at = at(c) /\ w.to = to(c)  BY <3>1
    <3> QED  BY <2>1, <3>2
  <2>4. ASSUME NEW k \in 0..(len - 1) PROVE \E w \in W : w.at = k
    <3>1. PICK c \in C : at(c) = k  BY <2>2
    <3>2. [at |-> at(c), to |-> to(c)] \in W  OBVIOUS
    <3> QED  BY <3>1, <3>2
  <2>5. WritesAll(W, len)  BY <2>3, <2>4 DEF WritesAll
  <2> QED  BY <1>1, <2>5 DEF len
<1> QED  BY <1>6, <1>7

GemvDot(m, s, col) == Sum(m[3], LAMBDA k : s[1][k + 1] * s[2][k * m[2] + col + 1])

\* Native and WGSL code of a gemv write the same numbers in the same places.
LEMMA GemvAgrees ==
    ASSUME NEW name \in Gemvs, NEW m, m[2] \in Nat, m[3] \in Nat,
           NEW s, Numeric(s[1], m[3]), Numeric(s[2], m[3] * m[2]),
           name = "gemv_add" => Numeric(s[3], m[2]),
           NEW wg, wg[1] = tiles(m[2], Group)
    PROVE  /\ native_gemv(name, m, s) = wgsl_gemv(name, m, wg, s)
           /\ WritesAll(native_gemv(name, m, s), m[2])
<1> DEFINE n == m[2]
           C == 0..(n - 1)
           G == {i \in 0..(wg[1] * Group - 1) : i < n}
           to(c) == Onto(name, s[3], c, GemvDot(m, s, c))
<1>1. native_gemv(name, m, s) = {[at |-> c, to |-> to(c)] : c \in C}
  BY DEF native_gemv, GemvDot
<1>2. wgsl_gemv(name, m, wg, s) = {[at |-> c, to |-> to(c)] : c \in G}
  BY DEF wgsl_gemv, GemvDot
<1>3. C = G
  <2> DEFINE p == wg[1] * Group
  <2>1. n <= p /\ wg[1] \in Nat /\ Group \in Nat  BY TilesCover, SizesAre
  <2>2. p \in Nat  BY <2>1
  <2> HIDE DEF p
  <2> QED  BY <2>1, <2>2 DEF p
<1>4. ASSUME NEW c \in C PROVE to(c) \in Int
  <2> DEFINE t == [k \in 0..(m[3] - 1) |-> s[1][k + 1] * s[2][k * m[2] + c + 1]]
  <2>1. GemvDot(m, s, c) = Added(t, m[3])  BY DEF GemvDot, Sum
  <2>2. ASSUME NEW k \in 0..(m[3] - 1) PROVE t[k] \in Int
    <3>1. k * m[2] + c + 1 \in 1..(m[3] * m[2])  BY IndexIn
    <3>2. k + 1 \in 1..m[3]  OBVIOUS
    <3>3. s[1][k + 1] \in Int /\ s[2][k * m[2] + c + 1] \in Int  BY <3>1, <3>2 DEF Numeric
    <3>4. t[k] = s[1][k + 1] * s[2][k * m[2] + c + 1]  OBVIOUS
    <3> HIDE DEF t
    <3> QED  BY <3>3, <3>4
  <2> HIDE DEF t
  <2>3. Added(t, m[3]) \in Int
    <3>1. m[3] \in 0..m[3]  OBVIOUS
    <3> QED  BY <2>2, <3>1, AddedInt
  <2>4. name = "gemv_add" => s[3][c + 1] \in Int  BY DEF Numeric
  <2>5. name # "matmul_add"  BY DEF Gemvs
  <2> QED  BY <2>1, <2>3, <2>4, <2>5 DEF Onto
<1> HIDE DEF to
<1>5. native_gemv(name, m, s) = wgsl_gemv(name, m, wg, s)  BY <1>1, <1>2, <1>3
<1>6. WritesAll({[at |-> c, to |-> to(c)] : c \in C}, n)
  <2> DEFINE W == {[at |-> c, to |-> to(c)] : c \in C}
  <2>1. ASSUME NEW w \in W PROVE w.at \in 0..(n - 1) /\ w.to \in Int
    <3>1. PICK c \in C : w = [at |-> c, to |-> to(c)]  OBVIOUS
    <3>2. w.at = c /\ w.to = to(c)  BY <3>1
    <3> QED  BY <1>4, <3>2
  <2>2. ASSUME NEW k \in 0..(n - 1) PROVE \E w \in W : w.at = k
    <3>1. [at |-> k, to |-> to(k)] \in W  OBVIOUS
    <3> QED  BY <3>1
  <2> QED  BY <2>1, <2>2 DEF WritesAll
<1> QED  BY <1>1, <1>5, <1>6

\* So does a transpose.
LEMMA TransposeAgrees ==
    ASSUME NEW m, m[1] \in Nat, m[2] \in Nat, NEW s, Numeric(s[1], m[1] * m[2]),
           NEW wg, wg[1] = tiles(m[2], Tile), wg[2] = tiles(m[1], Tile)
    PROVE  /\ native_transpose(m, s) = wgsl_transpose(m, wg, s)
           /\ WritesAll(native_transpose(m, s), m[1] * m[2])
<1> DEFINE C == [row : 0..(m[1] - 1), col : 0..(m[2] - 1)]
           G == {g \in Grid(wg) : g.row < m[1] /\ g.col < m[2]}
           at(c) == c.col * m[1] + c.row
           to(c) == s[1][c.row * m[2] + c.col + 1]
           len == m[1] * m[2]
<1>1. native_transpose(m, s) = {[at |-> at(c), to |-> to(c)] : c \in C}
  BY DEF native_transpose
<1>2. wgsl_transpose(m, wg, s) = {[at |-> at(c), to |-> to(c)] : c \in G}
  BY DEF wgsl_transpose
<1>3. C = G  BY GridCovers
<1>4. ASSUME NEW c \in C PROVE at(c) \in 0..(len - 1) /\ to(c) \in Int
  <2>1. c.row \in 0..(m[1] - 1) /\ c.col \in 0..(m[2] - 1)  OBVIOUS
  <2>2. c.row * m[2] + c.col + 1 \in 1..(m[1] * m[2])  BY <2>1, IndexIn
  <2>3. c.col * m[1] + c.row \in 0..(m[2] * m[1] - 1)  BY <2>1, IndexIn
  <2>4. m[2] * m[1] = len  OBVIOUS
  <2>5. to(c) \in Int  BY <2>2 DEF Numeric
  <2> HIDE DEF C, to, len
  <2> QED  BY <2>3, <2>4, <2>5
<1>5. ASSUME NEW k \in 0..(len - 1) PROVE \E c \in C : at(c) = k
  <2>1. m[2] * m[1] = len  OBVIOUS
  <2>2. k \in 0..(m[2] * m[1] - 1)  BY <2>1
  <2>3. PICK i \in 0..(m[2] - 1), j \in 0..(m[1] - 1) : k = i * m[1] + j  BY <2>2, IndexOf
  <2>4. [row |-> j, col |-> i] \in C  OBVIOUS
  <2> QED  BY <2>3, <2>4
<1> HIDE DEF C, G, at, to, len
<1>6. native_transpose(m, s) = wgsl_transpose(m, wg, s)  BY <1>1, <1>2, <1>3
<1>7. WritesAll({[at |-> at(c), to |-> to(c)] : c \in C}, len)
  <2> DEFINE W == {[at |-> at(c), to |-> to(c)] : c \in C}
  <2>1. ASSUME NEW w \in W PROVE w.at \in 0..(len - 1) /\ w.to \in Int
    <3>1. PICK c \in C : w = [at |-> at(c), to |-> to(c)]  OBVIOUS
    <3>2. w.at = at(c) /\ w.to = to(c)  BY <3>1
    <3> QED  BY <1>4, <3>2
  <2>2. ASSUME NEW k \in 0..(len - 1) PROVE \E w \in W : w.at = k
    <3>1. PICK c \in C : at(c) = k  BY <1>5
    <3>2. [at |-> at(c), to |-> to(c)] \in W  OBVIOUS
    <3> QED  BY <3>1, <3>2
  <2> QED  BY <2>1, <2>2 DEF WritesAll
<1> QED  BY <1>1, <1>6, <1>7 DEF len

\* What an elementwise builtin needs to write numbers.
EachNumeric(name, m, s) ==
    /\ name \in {"add", "mul", "max", "min", "scale", "clamp"} => Numeric(s[1], m[1])
    /\ name \in {"add", "mul", "max", "min"} => Numeric(s[2], m[1])
    /\ name \in {"scale", "clamp", "fill_constant"} => m[2] \in Int
    /\ name = "clamp" => m[3] \in Int
    /\ name = "fill_random" => \A i \in 0..(m[1] - 1) : Hash(i, m[2]) \in Int

LEMMA EachIs ==
    ASSUME NEW name \in Elementwise, NEW m, m[1] \in Nat, NEW s, EachNumeric(name, m, s),
           NEW i \in 0..(m[1] - 1)
    PROVE  each(name, m, s, i, s[1][i + 1]) \in Int
<1> DEFINE x == s[1][i + 1]
           y == s[2][i + 1]
           e == each(name, m, s, i, s[1][i + 1])
<1>1. i + 1 \in 1..m[1]  OBVIOUS
<1>2. /\ name \in {"add", "mul", "max", "min", "scale", "clamp"} => x \in Int
      /\ name \in {"add", "mul", "max", "min"} => y \in Int
  BY <1>1 DEF EachNumeric, Numeric
<1>3. /\ name \in {"scale", "clamp", "fill_constant"} => m[2] \in Int
      /\ name = "clamp" => m[3] \in Int
      /\ name = "fill_random" => Hash(i, m[2]) \in Int
  BY DEF EachNumeric
<1>4. /\ name = "add" => e = x + y
      /\ name = "mul" => e = x * y
      /\ name = "max" => e = IF x >= y THEN x ELSE y
      /\ name = "min" => e = IF x <= y THEN x ELSE y
      /\ name = "scale" => e = x * m[2]
      /\ name = "clamp" => e = IF x < m[2] THEN m[2] ELSE IF x > m[3] THEN m[3] ELSE x
      /\ name = "zero_tensor" => e = 0
      /\ name = "fill_constant" => e = m[2]
      /\ name = "fill_random" => e = Hash(i, m[2])
  BY DEF each
<1> HIDE DEF x, y, e
<1>5. CASE name = "mul"
  <2>1. x \in Int /\ y \in Int  BY <1>2, <1>5
  <2>2. x * y \in Int  BY <2>1
  <2> QED  BY <1>4, <1>5, <2>2 DEF e
<1>6. CASE name = "scale"
  <2>1. x \in Int /\ m[2] \in Int  BY <1>2, <1>3, <1>6
  <2>2. x * m[2] \in Int  BY <2>1
  <2> QED  BY <1>4, <1>6, <2>2 DEF e
<1>7. CASE name \notin {"mul", "scale"}
  <2>1. e \in Int  BY <1>2, <1>3, <1>4, <1>7 DEF Elementwise
  <2> QED  BY <2>1 DEF e
<1> QED  BY <1>5, <1>6, <1>7

\* Native and WGSL code of an elementwise builtin write the same numbers.
LEMMA ElementwiseAgrees ==
    ASSUME NEW name \in Elementwise, NEW m, m[1] \in Nat, NEW s, EachNumeric(name, m, s),
           Len(s[1]) \in Nat, m[1] <= Len(s[1]),
           Len(s) = 2 => Len(s[2]) \in Nat /\ m[1] <= Len(s[2]),
           NEW wg, wg[1] = tiles(m[1], Group), wg[2] = 1
    PROVE  /\ native_elementwise(name, m, s) = wgsl_elementwise(name, m, wg, s)
           /\ WritesAll(native_elementwise(name, m, s), m[1])
<1> DEFINE n == m[1]
           C == 0..(n - 1)
           to(i) == each(name, m, s, i, s[1][i + 1])
           W == {[at |-> i, to |-> to(i)] : i \in C}
           k == IF Len(s) = 2 /\ Len(s[2]) < n THEN Len(s[2]) ELSE n
           N == {j \in 0..(k - 1) : j < Len(s[1])}
           G == {i \in Linear(wg) : i < n}
<1>1. native_elementwise(name, m, s) = {[at |-> i, to |-> to(i)] : i \in N}
  BY DEF native_elementwise
<1>2. wgsl_elementwise(name, m, wg, s) = {[at |-> i, to |-> to(i)] : i \in G}
  BY DEF wgsl_elementwise
<1>3. N = C
  <2>1. k = n  OBVIOUS
  <2> HIDE DEF k
  <2> QED  BY <2>1
<1>4. G = C
  <2> DEFINE p == wg[1] * Group
  <2>1. n <= p /\ wg[1] \in Nat /\ Group \in Nat  BY TilesCover, SizesAre
  <2>2. p \in Nat  BY <2>1
  <2>3. wg[1] * wg[2] * Group = p  BY <2>1
  <2>4. Linear(wg) = 0..(p - 1)  BY <2>3 DEF Linear
  <2> HIDE DEF p
  <2> QED  BY <2>1, <2>2, <2>4 DEF p
<1>5. \A i \in C : to(i) \in Int  BY EachIs
<1> HIDE DEF to, N, G
<1>6. WritesAll(W, n)
  <2>1. ASSUME NEW w \in W PROVE w.at \in 0..(n - 1) /\ w.to \in Int
    <3>1. PICK c \in C : w = [at |-> c, to |-> to(c)]  OBVIOUS
    <3>2. w.at = c /\ w.to = to(c)  BY <3>1
    <3> QED  BY <1>5, <3>2
  <2>2. ASSUME NEW i \in 0..(n - 1) PROVE \E w \in W : w.at = i
    <3>1. [at |-> i, to |-> to(i)] \in W  OBVIOUS
    <3> QED  BY <3>1
  <2> QED  BY <2>1, <2>2 DEF WritesAll
<1> QED  BY <1>1, <1>2, <1>3, <1>4, <1>6

-----------------------------------------------------------------------------
(* Reductions: one sum, or a partial for each workgroup.                   *)

Element(name, s, i) == IF name = "sum" THEN s[1][i + 1] ELSE s[1][i + 1] * s[2][i + 1]

Whole(name, m, s) == Added([k \in 0..(m[1] - 1) |-> Element(name, s, k)], m[1])

LEMMA NativeReduction ==
    ASSUME NEW name \in Reductions, NEW m, NEW s
    PROVE  native_reduction(name, m, s) = {[at |-> 0, to |-> Whole(name, m, s)]}
<1>1. CASE name = "sum"  BY <1>1 DEF native_reduction, Whole, Element, Sum
<1>2. CASE name = "dot"  BY <1>2 DEF native_reduction, Whole, Element, Sum
<1> QED  BY <1>1, <1>2 DEF Reductions

Padded(name, m, s, i) == IF i >= m[1] THEN 0 ELSE Element(name, s, i)

Partial(name, m, s, w) ==
    Reduced([i \in 0..(Group - 1) |-> Padded(name, m, s, w * Group + i)], Group \div 2)

LEMMA WgslReduction ==
    ASSUME NEW name, NEW m, NEW wg, NEW s
    PROVE  wgsl_reduction(name, m, wg, s)
              = {[at |-> w, to |-> Partial(name, m, s, w)] : w \in 0..(wg[1] * wg[2] - 1)}
BY DEF wgsl_reduction, Partial, Padded, Element

\* The partials are numbers and add up to the whole.
LEMMA PartialsAdd ==
    ASSUME NEW name \in Reductions, NEW m, m[1] \in Nat,
           NEW s, Numeric(s[1], m[1]), name = "dot" => Numeric(s[2], m[1]),
           NEW q \in Nat, m[1] <= q * Group
    PROVE  /\ Whole(name, m, s) \in Int
           /\ \A w \in 0..(q - 1) : Partial(name, m, s, w) \in Int
           /\ Added([w \in 0..(q - 1) |-> Partial(name, m, s, w)], q) = Whole(name, m, s)
<1> DEFINE n == m[1]
           t == [k \in 0..(n - 1) |-> Element(name, s, k)]
           v == [w \in 0..(q - 1) |-> [i \in 0..(Group - 1) |-> Padded(name, m, s, w * Group + i)]]
           u == [w \in 0..(q - 1) |-> Partial(name, m, s, w)]
<1>1. \A k \in 0..(n - 1) : t[k] = Element(name, s, k) /\ t[k] \in Int
  <2> SUFFICES ASSUME NEW k \in 0..(n - 1) PROVE t[k] = Element(name, s, k) /\ t[k] \in Int
    OBVIOUS
  <2>1. k + 1 \in 1..n  OBVIOUS
  <2>2. s[1][k + 1] \in Int /\ (name = "dot" => s[2][k + 1] \in Int)  BY <2>1 DEF Numeric
  <2>3. name = "sum" \/ name = "dot"  BY DEF Reductions
  <2>4. Element(name, s, k) \in Int  BY <2>2, <2>3 DEF Element
  <2>5. t[k] = Element(name, s, k)  OBVIOUS
  <2> QED  BY <2>4, <2>5
<1>2. ASSUME NEW w \in 0..(q - 1), NEW i \in 0..(Group - 1)
      PROVE  /\ v[w][i] = IF w * Group + i < n THEN t[w * Group + i] ELSE 0
             /\ v[w][i] \in Int
  <2> DEFINE j == w * Group + i
  <2>1. j \in Nat  BY IndexIn, SizesAre
  <2>2. v[w][i] = Padded(name, m, s, j)  OBVIOUS
  <2> HIDE DEF j, t, v
  <2>3. CASE j < n
    <3>1. j \in 0..(n - 1)  BY <2>1, <2>3
    <3>2. Padded(name, m, s, j) = Element(name, s, j)  BY <2>1, <2>3 DEF Padded
    <3> QED  BY <1>1, <2>2, <2>3, <3>1, <3>2 DEF j
  <2>4. CASE ~(j < n)
    <3>1. Padded(name, m, s, j) = 0  BY <2>1, <2>4 DEF Padded
    <3> QED  BY <2>2, <2>4, <3>1 DEF j
  <2> QED  BY <2>3, <2>4
<1>3. ASSUME NEW w \in 0..(q - 1) PROVE u[w] = Added(v[w], Group) /\ u[w] \in Int
  <2>1. v[w] = [i \in 0..(Group - 1) |-> Padded(name, m, s, w * Group + i)]  BY Zenon
  <2>2. u[w] = Reduced(v[w], Group \div 2)  BY <2>1 DEF Partial
  <2>3. Scratch(v[w])
    <3>1. v[w] = [i \in 0..(Group - 1) |-> v[w][i]]  BY <2>1
    <3> HIDE DEF v
    <3> QED  BY <1>2, <3>1 DEF Scratch
  <2> HIDE DEF u, v
  <2>4. Reduced(v[w], Group \div 2) = Added(v[w], Group)  BY <2>3, ReducedIs
  <2>5. Added(v[w], Group) \in Int
    <3> DEFINE x == v[w]
    <3>1. \A i \in 0..(Group - 1) : x[i] \in Int  BY <1>2
    <3> HIDE DEF x
    <3>2. Group \in 0..Group /\ Group \in Nat  BY SizesAre
    <3>3. Added(x, Group) \in Int  BY <3>1, <3>2, AddedInt
    <3> QED  BY <3>3 DEF x
  <2> QED  BY <2>2, <2>4, <2>5
<1>4. \A w \in 0..(q - 1) : u[w] = Partial(name, m, s, w)  OBVIOUS
<1>5. Whole(name, m, s) = Added(t, n)  BY DEF Whole
<1> HIDE DEF t, u, v
<1>6. Tiled(v, t, n, q, Group)  BY <1>2 DEF Tiled
<1>7. TileSums(u, v, q, Group)  BY <1>3 DEF TileSums
<1>8. AreInts(t, n)  BY <1>1 DEF AreInts
<1>9. Added(u, q) = Added(t, n)
  <2>1. Group \in Nat  BY SizesAre
  <2> QED  BY <1>6, <1>7, <1>8, <2>1, TilesAdd
<1>10. Added(t, n) \in Int
  <2>1. n \in 0..n  OBVIOUS
  <2> QED  BY <1>1, <2>1, AddedInt
<1>11. \A w \in 0..(q - 1) : Partial(name, m, s, w) \in Int  BY <1>3, <1>4
<1> QED  BY <1>5, <1>9, <1>10, <1>11 DEF u

\* Numbers add up to a number.
LEMMA SumOfIs ==
    ASSUME NEW r, NEW len \in Nat, Numeric(r, len), NEW t, \A k \in 0..(len - 1) : t[k] = r[k + 1]
    PROVE  SumOf(r, len) = Added(t, len) /\ SumOf(r, len) \in Int
<1> DEFINE u == [k \in 0..(len - 1) |-> r[k + 1]]
<1>1. \A i \in 1..len : r[i] \in Int  BY DEF Numeric
<1>2. ~ \E i \in 1..len : r[i] = NaN  BY <1>1, FloatsAssumption
<1>3. ~ \E i \in 1..len : r[i] = Inf  BY <1>1, FloatsAssumption
<1>4. SumOf(r, len) = Added(u, len)  BY <1>2, <1>3 DEF SumOf, Sum
<1>5. \A k \in 0..(len - 1) : u[k] = t[k] /\ u[k] \in Int
  <2> SUFFICES ASSUME NEW k \in 0..(len - 1) PROVE u[k] = t[k] /\ u[k] \in Int  OBVIOUS
  <2>1. k + 1 \in 1..len  OBVIOUS
  <2>2. u[k] = r[k + 1]  OBVIOUS
  <2> HIDE DEF u
  <2> QED  BY <1>1, <2>1, <2>2
<1> HIDE DEF u
<1>6. Added(u, len) = Added(t, len)  BY <1>5, AddedSame
<1>7. Added(u, len) \in Int
  <2>1. len \in 0..len  OBVIOUS
  <2> QED  BY <1>5, <2>1, AddedInt
<1> QED  BY <1>4, <1>6, <1>7

\* A slot of zeros that is written the whole at its start.
LEMMA OneWritten ==
    ASSUME NEW r, NEW z \in Nat, Filled(r, z), NEW q \in 1..z, \A i \in 1..q : r[i] = 0,
           NEW x \in Int
    PROVE  /\ Numeric(Written(r, {[at |-> 0, to |-> x]}), q)
           /\ SumOf(Written(r, {[at |-> 0, to |-> x]}), q) = x
           /\ \A i \in 1..z : i \notin 1..q => Written(r, {[at |-> 0, to |-> x]})[i] = r[i]
<1> DEFINE W == {[at |-> 0, to |-> x]}
           a == Written(r, W)
           t == [k \in 0..(q - 1) |-> a[k + 1]]
<1>1. DOMAIN r = 1..z  BY DEF Filled
<1>2. \A i \in 1..z : a[i] = IF i = 1 THEN x ELSE r[i]
  <2> SUFFICES ASSUME NEW i \in 1..z PROVE a[i] = IF i = 1 THEN x ELSE r[i]  OBVIOUS
  <2>1. a[i] = IF \E w \in W : w.at + 1 = i THEN (CHOOSE w \in W : w.at + 1 = i).to ELSE r[i]
    BY <1>1 DEF Written
  <2>2. CASE i = 1
    <3>1. [at |-> 0, to |-> x].at + 1 = i  BY <2>2
    <3>2. \E w \in W : w.at + 1 = i  BY <3>1
    <3> DEFINE c == CHOOSE w \in W : w.at + 1 = i
    <3>3. c \in W  BY <3>2
    <3>4. a[i] = c.to  BY <2>1, <3>2
    <3> HIDE DEF c, a
    <3>5. c.to = x  BY <3>3
    <3> QED  BY <2>2, <3>4, <3>5
  <2>3. CASE i # 1
    <3>1. ~ \E w \in W : w.at + 1 = i  BY <2>3
    <3> HIDE DEF W, a
    <3> QED  BY <2>1, <2>3, <3>1
  <2> QED  BY <2>2, <2>3
<1> HIDE DEF W, a
<1>3. Numeric(a, q)  BY <1>2 DEF Numeric
<1>4. \A k \in 0..(q - 1) : t[k] = a[k + 1]  OBVIOUS
<1>5. t[0] = x /\ \A k \in 1..(q - 1) : t[k] = 0
  <2>1. \A k \in 0..(q - 1) : k + 1 \in 1..z /\ k + 1 \in 1..q  OBVIOUS
  <2>2. 0 \in 0..(q - 1) /\ \A k \in 1..(q - 1) : k \in 0..(q - 1) /\ k + 1 # 1  OBVIOUS
  <2> HIDE DEF t
  <2>3. t[0] = a[1]  BY <1>4, <2>2
  <2>4. a[1] = x  BY <1>2
  <2>5. \A k \in 1..(q - 1) : t[k] = 0
    <3> TAKE k \in 1..(q - 1)
    <3>1. t[k] = a[k + 1]  BY <1>4, <2>2
    <3>2. a[k + 1] = r[k + 1]  BY <1>2, <2>1, <2>2
    <3>3. r[k + 1] = 0  BY <2>1, <2>2
    <3> QED  BY <3>1, <3>2, <3>3
  <2> QED  BY <2>3, <2>4, <2>5
<1> HIDE DEF t
<1> DEFINE d == q - 1
<1>6. d \in Nat /\ q = 1 + d  OBVIOUS
<1>7. Added(t, 1 + d) = Added(t, 1)
  <2>1. \A k \in 0..(1 - 1) : t[k] \in Int  BY <1>5
  <2>2. \A k \in 1..(1 + d - 1) : t[k] = 0  BY <1>5
  <2> HIDE DEF d
  <2> QED  BY <1>6, <2>1, <2>2, AddedZeros
<1>8. Added(t, 1) = x
  <2>1. Added(t, 0) = 0 /\ Added(t, 0 + 1) = Added(t, 0) + t[0]  BY AddedOne
  <2> QED  BY <1>5, <2>1
<1>9. SumOf(a, q) = Added(t, q)  BY <1>3, <1>4, SumOfIs
<1>10. SumOf(a, q) = x
  <2> HIDE DEF d
  <2> QED  BY <1>6, <1>7, <1>8, <1>9
<1>11. \A i \in 1..z : i \notin 1..q => a[i] = r[i]  BY <1>2
<1> QED  BY <1>3, <1>10, <1>11 DEF a, W

\* What is written where each is at its own number.
LEMMA EachWritten ==
    ASSUME NEW r, NEW z \in Nat, Filled(r, z), NEW q \in 0..z,
           NEW p, \A w \in 0..(q - 1) : p[w] \in Int,
           NEW W, W = {[at |-> w, to |-> p[w]] : w \in 0..(q - 1)}
    PROVE  /\ WritesAll(W, q)
           /\ \A w \in 0..(q - 1) : Written(r, W)[w + 1] = p[w]
<1>1. WritesAll(W, q)
  <2>1. ASSUME NEW w \in W PROVE w.at \in 0..(q - 1) /\ w.to \in Int
    <3>1. PICK c \in 0..(q - 1) : w = [at |-> c, to |-> p[c]]  OBVIOUS
    <3>2. w.at = c /\ w.to = p[c]  BY <3>1
    <3> QED  BY <3>2
  <2>2. ASSUME NEW k \in 0..(q - 1) PROVE \E w \in W : w.at = k
    <3>1. [at |-> k, to |-> p[k]] \in W  OBVIOUS
    <3> QED  BY <3>1
  <2> QED  BY <2>1, <2>2 DEF WritesAll
<1>2. ASSUME NEW w \in 0..(q - 1) PROVE Written(r, W)[w + 1] = p[w]
  <2> DEFINE i == w + 1
             c == CHOOSE v \in W : v.at + 1 = i
  <2>1. i \in DOMAIN r  BY DEF Filled
  <2>2. Written(r, W)[i] = IF \E v \in W : v.at + 1 = i THEN c.to ELSE r[i]
    BY <2>1 DEF Written
  <2>3. [at |-> w, to |-> p[w]] \in W /\ [at |-> w, to |-> p[w]].at + 1 = i  OBVIOUS
  <2>4. c \in W /\ c.at + 1 = i  BY <2>3
  <2>5. PICK x \in 0..(q - 1) : c = [at |-> x, to |-> p[x]]
    <3> HIDE DEF c
    <3> QED  BY <2>4
  <2> HIDE DEF c
  <2>6. x = w /\ c.to = p[x]  BY <2>4, <2>5
  <2> QED  BY <2>2, <2>3, <2>6
<1> QED  BY <1>1, <1>2

\* Of a reduction, a side leaves numbers that add up to the whole.
LEMMA ReductionAgrees ==
    ASSUME NEW name \in Reductions, NEW m, m[1] \in Nat,
           NEW s, Numeric(s[1], m[1]), name = "dot" => Numeric(s[2], m[1]),
           NEW r, NEW z \in Nat, Filled(r, z), NEW q \in 1..z, \A i \in 1..q : r[i] = 0,
           NEW wg, wg[1] * wg[2] = q, m[1] <= q * Group,
           NEW W, W \in {native_reduction(name, m, s), wgsl_reduction(name, m, wg, s)}
    PROVE  /\ Whole(name, m, s) \in Int
           /\ Numeric(Written(r, W), q)
           /\ SumOf(Written(r, W), q) = Whole(name, m, s)
           /\ \A i \in 1..z : i \notin 1..q => Written(r, W)[i] = r[i]
<1> DEFINE p == [w \in 0..(q - 1) |-> Partial(name, m, s, w)]
<1>1. /\ Whole(name, m, s) \in Int
      /\ \A w \in 0..(q - 1) : Partial(name, m, s, w) \in Int
      /\ Added(p, q) = Whole(name, m, s)
  <2>1. q \in Nat  OBVIOUS
  <2>2. /\ Whole(name, m, s) \in Int
        /\ \A w \in 0..(q - 1) : Partial(name, m, s, w) \in Int
        /\ Added([w \in 0..(q - 1) |-> Partial(name, m, s, w)], q) = Whole(name, m, s)
    BY <2>1, PartialsAdd
  <2> QED  BY <2>2
<1>2. CASE W = native_reduction(name, m, s)
  <2>1. W = {[at |-> 0, to |-> Whole(name, m, s)]}  BY <1>2, NativeReduction
  <2> DEFINE x == Whole(name, m, s)
  <2> HIDE DEF x, p
  <2> QED  BY <1>1, <2>1, OneWritten DEF x
<1>3. CASE W = wgsl_reduction(name, m, wg, s)
  <2>1. W = {[at |-> w, to |-> Partial(name, m, s, w)] : w \in 0..(q - 1)}  BY <1>3, WgslReduction
  <2>2. \A w \in 0..(q - 1) : p[w] = Partial(name, m, s, w)  OBVIOUS
  <2> HIDE DEF p
  <2>3. W = {[at |-> w, to |-> p[w]] : w \in 0..(q - 1)}  BY <2>1, <2>2
  <2>4. \A w \in 0..(q - 1) : p[w] \in Int  BY <1>1, <2>2
  <2>5. q \in 0..z /\ q \in Nat  OBVIOUS
  <2>6. WritesAll(W, q) /\ \A w \in 0..(q - 1) : Written(r, W)[w + 1] = p[w]
    BY <2>3, <2>4, <2>5, EachWritten
  <2>7. /\ Numeric(Written(r, W), q)
        /\ \A i \in 1..z : i \notin 1..q => Written(r, W)[i] = r[i]
    BY <2>5, <2>6, WrittenIs
  <2>8. SumOf(Written(r, W), q) = Added(p, q)
    <3> DEFINE b == Written(r, W)
    <3>1. \A k \in 0..(q - 1) : p[k] = b[k + 1]  BY <2>6
    <3>2. Numeric(b, q)  BY <2>7
    <3> HIDE DEF b
    <3>3. SumOf(b, q) = Added(p, q)  BY <2>5, <3>1, <3>2, SumOfIs
    <3> QED  BY <3>3 DEF b
  <2> QED  BY <1>1, <2>7, <2>8
<1> QED  BY <1>2, <1>3

-----------------------------------------------------------------------------
(* A builtin's own case: its slots, its checks and its data.               *)

Roles == {"Input", "Output", "Accumulate", "InOut"}

LEMMA LayoutIs ==
    ASSUME NEW name \in Builtins
    PROVE  /\ layout(name) \in Seq(Roles) /\ Len(layout(name)) \in 1..3
           /\ DOMAIN layout(name) = 1..Len(layout(name))
           /\ OutSlot(name) \in DOMAIN layout(name)
           /\ \A slot \in DOMAIN layout(name) : slot # OutSlot(name) => layout(name)[slot] = "Input"
<1>1. CASE name \in {"matmul", "matmul_trp", "gemv", "dot"}
  <2>1. layout(name) = <<"Input", "Input", "Output">>  BY <1>1 DEF layout
  <2>2. OutSlot(name) = 3  BY <1>1, <2>1 DEF OutSlot, Elementwise
  <2> QED  BY <2>1, <2>2 DEF Roles
<1>2. CASE name \in {"matmul_add", "gemv_add"}
  <2>1. layout(name) = <<"Input", "Input", "Accumulate">>  BY <1>2 DEF layout
  <2>2. OutSlot(name) = 3  BY <1>2, <2>1 DEF OutSlot, Elementwise
  <2> QED  BY <2>1, <2>2 DEF Roles
<1>3. CASE name \in {"transpose", "sum"}
  <2>1. layout(name) = <<"Input", "Output">>  BY <1>3 DEF layout
  <2>2. OutSlot(name) = 2  BY <1>3, <2>1 DEF OutSlot, Elementwise
  <2> QED  BY <2>1, <2>2 DEF Roles
<1>4. CASE name = "add"
  <2>1. layout(name) = <<"Accumulate", "Input">>  BY <1>4 DEF layout
  <2>2. OutSlot(name) = 1  BY <1>4 DEF OutSlot, Elementwise
  <2> QED  BY <2>1, <2>2 DEF Roles
<1>5. CASE name \in {"mul", "max", "min"}
  <2>1. layout(name) = <<"InOut", "Input">>  BY <1>5 DEF layout
  <2>2. OutSlot(name) = 1  BY <1>5 DEF OutSlot, Elementwise
  <2> QED  BY <2>1, <2>2 DEF Roles
<1>6. CASE name \in {"scale", "clamp"}
  <2>1. layout(name) = <<"InOut">>  BY <1>6 DEF layout
  <2>2. OutSlot(name) = 1  BY <1>6 DEF OutSlot, Elementwise
  <2> QED  BY <2>1, <2>2 DEF Roles
<1>7. CASE name \in {"zero_tensor", "fill_constant", "fill_random"}
  <2>1. layout(name) = <<"Output">>  BY <1>7 DEF layout
  <2>2. OutSlot(name) = 1  BY <1>7 DEF OutSlot, Elementwise
  <2> QED  BY <2>1, <2>2 DEF Roles
<1> QED  BY <1>1, <1>2, <1>3, <1>4, <1>5, <1>6, <1>7
         DEF Builtins, Elementwise, Matmuls, Gemvs, Reductions

\* The checks are one for each slot: none but the last word is compared.
LEMMA ChecksAre ==
    ASSUME NEW name \in Builtins, NEW c \in cases(name)
    PROVE  /\ DOMAIN c.checks = DOMAIN layout(name)
           /\ \A slot \in DOMAIN layout(name) : c.checks[slot] \in Tolerances
           /\ \A slot \in DOMAIN layout(name) :
                 slot # OutSlot(name) => c.checks[slot].check = "Ignore"
           /\ c.checks[OutSlot(name)].check = IF name \in Reductions THEN "Total" ELSE "Close"
<1>0. /\ ignore \in Tolerances /\ products \in Tolerances /\ EXACT \in Tolerances /\ total \in Tolerances
      /\ ignore.check = "Ignore" /\ products.check = "Close" /\ EXACT.check = "Close"
      /\ total.check = "Total"
  BY DEF ignore, products, EXACT, total, close, Tolerances
<1>1. CASE name \in Matmuls \cup Gemvs
  <2>1. c.checks = <<ignore, ignore, products>>
    <3>1. CASE name \in Matmuls
      <4>1. PICK a, b, k \in Nat :
              c = [meta |-> <<a, b, k>>, workgroups |-> <<tiles(b, Tile), tiles(a, Tile)>>,
                   checks |-> <<ignore, ignore, products>>]
        BY <3>1, MatmulCases
      <4> QED  BY Zenon, <4>1, Fields
    <3>2. CASE name \in Gemvs
      <4>1. PICK n, k \in Nat :
              c = [meta |-> <<1>> \o <<n, k>>, workgroups |-> <<tiles(n, Group), 1>>,
                   checks |-> <<ignore, ignore, products>>]
        BY <3>2, GemvCases
      <4> QED  BY Zenon, <4>1, Fields
    <3> QED  BY <1>1, <3>1, <3>2
  <2>2. DOMAIN layout(name) = 1..3 /\ OutSlot(name) = 3
    BY <1>1 DEF layout, OutSlot, Elementwise, Matmuls, Gemvs
  <2>3. name \notin Reductions  BY <1>1 DEF Reductions, Matmuls, Gemvs
  <2> QED  BY <1>0, <2>1, <2>2, <2>3
<1>2. CASE name = "transpose"
  <2>1. c.checks = <<ignore, EXACT>>
    <3>1. PICK a, b \in Nat :
              c = [meta |-> <<a, b>>, workgroups |-> <<tiles(b, Tile), tiles(a, Tile)>>,
                   checks |-> <<ignore, EXACT>>]
      BY <1>2, TransposeCases
    <3> QED  BY Zenon, <3>1, Fields
  <2>2. DOMAIN layout(name) = 1..2 /\ OutSlot(name) = 2
    BY <1>2 DEF layout, OutSlot, Elementwise
  <2>3. name \notin Reductions  BY <1>2 DEF Reductions
  <2> QED  BY <1>0, <2>1, <2>2, <2>3
<1>3. CASE name \in Elementwise \cup Reductions
  <2>1. c.checks = ChecksOf(name)
    <3>1. PICK n \in Lengths :
              c = [meta |-> <<n>> \o rest(name, n), workgroups |-> <<tiles(n, Group), 1>>,
                   checks |-> ChecksOf(name)]
      BY <1>3, LengthCases
    <3> QED  BY Zenon, <3>1, Fields
  <2>2. CASE name = "dot"
    <3>1. c.checks = <<ignore, ignore, total>>  BY <2>1, <2>2 DEF ChecksOf
    <3>2. DOMAIN layout(name) = 1..3 /\ OutSlot(name) = 3
      BY <2>2 DEF layout, OutSlot, Elementwise
    <3> QED  BY <1>0, <2>2, <3>1, <3>2 DEF Reductions
  <2>3. CASE name = "sum"
    <3>1. c.checks = <<ignore, total>>  BY <2>1, <2>3 DEF ChecksOf
    <3>2. DOMAIN layout(name) = 1..2 /\ OutSlot(name) = 2
      BY <2>3 DEF layout, OutSlot, Elementwise
    <3> QED  BY <1>0, <2>3, <3>1, <3>2 DEF Reductions
  <2>4. CASE name \in {"add", "mul", "max", "min"}
    <3>1. c.checks = <<EXACT, ignore>>  BY <2>1, <2>4 DEF ChecksOf
    <3>2. DOMAIN layout(name) = 1..2 /\ OutSlot(name) = 1
      BY <2>4 DEF layout, OutSlot, Elementwise
    <3>3. name \notin Reductions  BY <2>4 DEF Reductions
    <3> QED  BY <1>0, <3>1, <3>2, <3>3
  <2>5. CASE name \in {"scale", "clamp", "zero_tensor", "fill_constant", "fill_random"}
    <3>1. c.checks = <<EXACT>>  BY <2>1, <2>5 DEF ChecksOf
    <3>2. DOMAIN layout(name) = 1..1 /\ OutSlot(name) = 1
      BY <2>5 DEF layout, OutSlot, Elementwise
    <3>3. name \notin Reductions  BY <2>5 DEF Reductions
    <3> QED  BY <1>0, <3>1, <3>2, <3>3
  <2> QED  BY <1>3, <2>2, <2>3, <2>4, <2>5 DEF Elementwise, Reductions
<1> QED  BY <1>1, <1>2, <1>3 DEF Builtins

\* What each slot needs, and what it holds before a run.
Sizes(name, c) == min_lens(name, c.meta, c.workgroups)

Began(name, c, s) == s = start_data(name, c, Sizes(name, c))

LEMMA BeganIs ==
    ASSUME NEW name \in Shaders, NEW c \in cases(name), NEW s, Began(name, c, s)
    PROVE  /\ DOMAIN s = DOMAIN layout(name) /\ Len(s) = Len(layout(name))
           /\ \A slot \in DOMAIN layout(name) :
                 /\ Sizes(name, c)[slot] \in Nat /\ pad_len(name) \in Nat
                 /\ Filled(s[slot], Sizes(name, c)[slot] + pad_len(name))
                 /\ \A i \in 1..(Sizes(name, c)[slot] + pad_len(name)) :
                       i \notin 1..Sizes(name, c)[slot] => s[slot][i] = PAD
                 /\ layout(name)[slot] # "Output" => Numeric(s[slot], Sizes(name, c)[slot])
                 /\ layout(name)[slot] = "Output" /\ c.checks[slot].check = "Total" =>
                       \A i \in 1..Sizes(name, c)[slot] : s[slot][i] = 0
<1>1. name \in Builtins  BY ShadersAssumption
<1> DEFINE lens == Sizes(name, c)
           pad == pad_len(name)
           of(slot, i) == IF i <= lens[slot]
                          THEN first(layout(name)[slot], c.checks[slot], slot, i - 1) ELSE PAD
<1>2. DOMAIN lens = DOMAIN layout(name) /\ \A slot \in DOMAIN layout(name) : lens[slot] \in Nat
  BY <1>1, LensTyped DEF Sizes
<1>3. pad \in Nat  BY PadIs
<1>4. s = [slot \in DOMAIN layout(name) |-> [i \in 1..(lens[slot] + pad) |-> of(slot, i)]]
  BY <1>2 DEF Began, start_data
<1>5. DOMAIN s = DOMAIN layout(name) /\ Len(s) = Len(layout(name))
  <2>1. DOMAIN s = 1..Len(layout(name)) /\ Len(layout(name)) \in Nat /\ DOMAIN s = DOMAIN layout(name)
    <3> HIDE DEF of, lens, pad
    <3> QED  BY <1>1, <1>4, LayoutIs
  <2> DEFINE k == Len(layout(name))
  <2>2. s = [slot \in 1..k |-> s[slot]]
    <3> HIDE DEF of, lens, pad
    <3> QED  BY <1>4, <2>1
  <2> HIDE DEF k
  <2>3. k \in Nat /\ DOMAIN s = 1..k  BY <2>1 DEF k
  <2>4. Len(s) = k  BY <2>2, <2>3, FilledIs DEF Filled
  <2> QED  BY <2>1, <2>4 DEF k
<1>6. ASSUME NEW slot \in DOMAIN layout(name)
      PROVE  /\ Filled(s[slot], lens[slot] + pad)
             /\ \A i \in 1..(lens[slot] + pad) : s[slot][i] = of(slot, i)
  <2>1. s[slot] = [i \in 1..(lens[slot] + pad) |-> of(slot, i)]  BY <1>4
  <2> HIDE DEF of, lens, pad
  <2> QED  BY <2>1 DEF Filled
<1>7. ASSUME NEW slot \in DOMAIN layout(name), NEW i \in 1..lens[slot]
      PROVE  /\ s[slot][i] = first(layout(name)[slot], c.checks[slot], slot, i - 1)
             /\ Random(slot, i - 1) \in Int
  <2>1. i \in 1..(lens[slot] + pad) /\ i <= lens[slot]  BY <1>2, <1>3
  <2>2. of(slot, i) = first(layout(name)[slot], c.checks[slot], slot, i - 1)  BY <2>1
  <2>3. i - 1 \in 0..(lens[slot] - 1)  BY <1>2
  <2>4. Random(slot, i - 1) \in Int  BY <2>3, SeedsAssumption DEF Sizes
  <2> QED  BY <1>6, <2>1, <2>2, <2>4
<1>8. ASSUME NEW slot \in DOMAIN layout(name), NEW i \in 1..(lens[slot] + pad), i \notin 1..lens[slot]
      PROVE  s[slot][i] = PAD
  <2>1. ~(i <= lens[slot])  BY <1>2, <1>3, <1>8
  <2> QED  BY <1>6, <2>1
<1> HIDE DEF lens, of, pad
<1>9. ASSUME NEW slot \in DOMAIN layout(name), layout(name)[slot] # "Output"
      PROVE  Numeric(s[slot], lens[slot])
  BY <1>7, <1>9 DEF Numeric, first
<1>10. ASSUME NEW slot \in DOMAIN layout(name), layout(name)[slot] = "Output",
              c.checks[slot].check = "Total"
       PROVE  \A i \in 1..lens[slot] : s[slot][i] = 0
  BY <1>7, <1>10 DEF first
<1> QED  BY <1>2, <1>3, <1>5, <1>6, <1>8, <1>9, <1>10 DEF lens, pad

Right(name, c, s) ==
    /\ native_writes(name, c.meta, s) = wgsl_writes(name, c.meta, c.workgroups, s)
    /\ WritesAll(native_writes(name, c.meta, s), Sizes(name, c)[OutSlot(name)])

LEMMA MatmulRight ==
    ASSUME NEW name \in Matmuls, name \in Shaders, NEW c \in cases(name), NEW s, Began(name, c, s)
    PROVE  Right(name, c, s)
<1>1. PICK a, b, k \in Nat :
        c = [meta |-> <<a, b, k>>, workgroups |-> <<tiles(b, Tile), tiles(a, Tile)>>,
             checks |-> <<ignore, ignore, products>>]
  BY MatmulCases
<1> DEFINE m == c.meta
           wg == c.workgroups
<1>2. m = <<a, b, k>> /\ wg = <<tiles(b, Tile), tiles(a, Tile)>>  BY Zenon, <1>1, Fields
<1>3. m[1] \in Nat /\ m[2] \in Nat /\ m[3] \in Nat
      /\ wg[1] = tiles(m[2], Tile) /\ wg[2] = tiles(m[1], Tile)
  BY <1>2
<1>4. Sizes(name, c) = <<m[1] * m[3], m[3] * m[2], m[1] * m[2]>>
  BY DEF Sizes, min_lens, Matmuls, Gemvs, Reductions
<1>5. /\ DOMAIN layout(name) = 1..3 /\ OutSlot(name) = 3
      /\ layout(name)[1] = "Input" /\ layout(name)[2] = "Input"
      /\ name = "matmul_add" => layout(name)[3] = "Accumulate"
  BY DEF layout, OutSlot, Elementwise, Matmuls
<1>6. \A slot \in DOMAIN layout(name) :
         layout(name)[slot] # "Output" => Numeric(s[slot], Sizes(name, c)[slot])
  BY BeganIs
<1> HIDE DEF m, wg
<1>7. Numeric(s[1], m[1] * m[3]) /\ Numeric(s[2], m[3] * m[2])
      /\ (name = "matmul_add" => Numeric(s[3], m[1] * m[2]))
  BY <1>4, <1>5, <1>6
<1>8. /\ native_writes(name, m, s) = native_matmul(name, m, s)
      /\ wgsl_writes(name, m, wg, s) = wgsl_matmul(name, m, wg, s)
  BY DEF native_writes, wgsl_writes, Matmuls, Gemvs, Reductions
<1>9. /\ native_matmul(name, m, s) = wgsl_matmul(name, m, wg, s)
      /\ WritesAll(native_matmul(name, m, s), m[1] * m[2])
  BY <1>3, <1>7, MatmulAgrees
<1>10. Sizes(name, c)[OutSlot(name)] = m[1] * m[2]  BY <1>4, <1>5
<1> QED  BY <1>8, <1>9, <1>10 DEF Right, m, wg

LEMMA GemvRight ==
    ASSUME NEW name \in Gemvs, name \in Shaders, NEW c \in cases(name), NEW s, Began(name, c, s)
    PROVE  Right(name, c, s)
<1>1. PICK n, k \in Nat :
        c = [meta |-> <<1>> \o <<n, k>>, workgroups |-> <<tiles(n, Group), 1>>,
             checks |-> <<ignore, ignore, products>>]
  BY GemvCases
<1> DEFINE m == c.meta
           wg == c.workgroups
<1>2. m = <<1>> \o <<n, k>> /\ wg = <<tiles(n, Group), 1>>  BY Zenon, <1>1, Fields
<1>3. m[2] \in Nat /\ m[3] \in Nat /\ wg[1] = tiles(m[2], Group)
  BY <1>2
<1>4. Sizes(name, c) = <<m[3], m[3] * m[2], m[2]>>
  BY DEF Sizes, min_lens, Matmuls, Gemvs, Reductions
<1>5. /\ DOMAIN layout(name) = 1..3 /\ OutSlot(name) = 3
      /\ layout(name)[1] = "Input" /\ layout(name)[2] = "Input"
      /\ name = "gemv_add" => layout(name)[3] = "Accumulate"
  BY DEF layout, OutSlot, Elementwise, Gemvs
<1>6. \A slot \in DOMAIN layout(name) :
         layout(name)[slot] # "Output" => Numeric(s[slot], Sizes(name, c)[slot])
  BY BeganIs
<1> HIDE DEF m, wg
<1>7. Numeric(s[1], m[3]) /\ Numeric(s[2], m[3] * m[2])
      /\ (name = "gemv_add" => Numeric(s[3], m[2]))
  BY <1>4, <1>5, <1>6
<1>8. /\ native_writes(name, m, s) = native_gemv(name, m, s)
      /\ wgsl_writes(name, m, wg, s) = wgsl_gemv(name, m, wg, s)
  BY DEF native_writes, wgsl_writes, Matmuls, Gemvs, Reductions
<1>9. /\ native_gemv(name, m, s) = wgsl_gemv(name, m, wg, s)
      /\ WritesAll(native_gemv(name, m, s), m[2])
  BY <1>3, <1>7, GemvAgrees
<1>10. Sizes(name, c)[OutSlot(name)] = m[2]  BY <1>4, <1>5
<1> QED  BY <1>8, <1>9, <1>10 DEF Right, m, wg

LEMMA TransposeRight ==
    ASSUME NEW name, name = "transpose", name \in Shaders, NEW c \in cases(name),
           NEW s, Began(name, c, s)
    PROVE  Right(name, c, s)
<1>1. PICK a, b \in Nat :
        c = [meta |-> <<a, b>>, workgroups |-> <<tiles(b, Tile), tiles(a, Tile)>>,
             checks |-> <<ignore, EXACT>>]
  BY TransposeCases
<1> DEFINE m == c.meta
           wg == c.workgroups
<1>2. m = <<a, b>> /\ wg = <<tiles(b, Tile), tiles(a, Tile)>>  BY Zenon, <1>1, Fields
<1>3. m[1] \in Nat /\ m[2] \in Nat
      /\ wg[1] = tiles(m[2], Tile) /\ wg[2] = tiles(m[1], Tile)
  BY <1>2
<1>4. Sizes(name, c) = <<m[1] * m[2], m[1] * m[2]>>
  BY DEF Sizes, min_lens, Matmuls, Gemvs, Reductions
<1>5. DOMAIN layout(name) = 1..2 /\ OutSlot(name) = 2 /\ layout(name)[1] = "Input"
  BY DEF layout, OutSlot, Elementwise
<1>6. \A slot \in DOMAIN layout(name) :
         layout(name)[slot] # "Output" => Numeric(s[slot], Sizes(name, c)[slot])
  BY BeganIs
<1> HIDE DEF m, wg
<1>7. Numeric(s[1], m[1] * m[2])  BY <1>4, <1>5, <1>6
<1>8. /\ native_writes(name, m, s) = native_transpose(m, s)
      /\ wgsl_writes(name, m, wg, s) = wgsl_transpose(m, wg, s)
  BY DEF native_writes, wgsl_writes, Matmuls, Gemvs, Reductions
<1>9. /\ native_transpose(m, s) = wgsl_transpose(m, wg, s)
      /\ WritesAll(native_transpose(m, s), m[1] * m[2])
  BY <1>3, <1>7, TransposeAgrees
<1>10. Sizes(name, c)[OutSlot(name)] = m[1] * m[2]  BY <1>4, <1>5
<1> QED  BY <1>8, <1>9, <1>10 DEF Right, m, wg

LEMMA ElementwiseRight ==
    ASSUME NEW name \in Elementwise, name \in Shaders, NEW c \in cases(name),
           NEW s, Began(name, c, s)
    PROVE  Right(name, c, s)
<1>1. PICK n \in Lengths :
        c = [meta |-> <<n>> \o rest(name, n), workgroups |-> <<tiles(n, Group), 1>>,
             checks |-> ChecksOf(name)]
  BY LengthCases
<1> DEFINE m == c.meta
           wg == c.workgroups
<1>2. m = <<n>> \o rest(name, n) /\ wg = <<tiles(n, Group), 1>>  BY Zenon, <1>1, Fields
<1>0. n \in Nat /\ n \in 0..(2 * Group + 1)  BY LengthsNat, SizesAre DEF Lengths
<1>3. /\ m[1] = n
      /\ name = "scale" => m[2] = -2
      /\ name = "clamp" => m[2] = -1 /\ m[3] = 1
      /\ name = "fill_constant" => m[2] = 3
      /\ name = "fill_random" => m[2] = n
  <2> DEFINE r == <<n>> \o rest(name, n)
  <2>1. /\ r[1] = n
        /\ name = "scale" => r[2] = -2
        /\ name = "clamp" => r[2] = -1 /\ r[3] = 1
        /\ name = "fill_constant" => r[2] = 3
        /\ name = "fill_random" => r[2] = n
    BY <1>0, RestIs
  <2>2. m = r  BY <1>2
  <2> HIDE DEF m, r
  <2> QED  BY <2>1, <2>2
<1>4. wg[1] = tiles(m[1], Group) /\ wg[2] = 1  BY <1>2, <1>3
<1>5. name \notin Matmuls /\ name \notin Gemvs /\ name # "transpose" /\ name \notin Reductions
  BY DEF Elementwise, Matmuls, Gemvs, Reductions
<1>6. Sizes(name, c) = [slot \in DOMAIN layout(name) |-> n]
  BY <1>3, <1>5 DEF Sizes, min_lens
<1>7. /\ OutSlot(name) = 1 /\ 1 \in DOMAIN layout(name)
      /\ name \in {"add", "mul", "max", "min", "scale", "clamp"} => layout(name)[1] # "Output"
      /\ name \in {"add", "mul", "max", "min"} => 2 \in DOMAIN layout(name) /\ layout(name)[2] # "Output"
      /\ Len(layout(name)) = 2 => 2 \in DOMAIN layout(name)
  BY DEF layout, OutSlot, Elementwise
<1>8. /\ Len(s) = Len(layout(name))
      /\ \A slot \in DOMAIN layout(name) :
            /\ Sizes(name, c)[slot] \in Nat /\ pad_len(name) \in Nat
            /\ Filled(s[slot], Sizes(name, c)[slot] + pad_len(name))
            /\ layout(name)[slot] # "Output" => Numeric(s[slot], Sizes(name, c)[slot])
  BY BeganIs
<1> HIDE DEF m, wg
<1>9. \A slot \in DOMAIN layout(name) :
            /\ pad_len(name) \in Nat /\ Filled(s[slot], n + pad_len(name))
            /\ layout(name)[slot] # "Output" => Numeric(s[slot], n)
  BY <1>6, <1>8
<1>10. \A slot \in DOMAIN layout(name) : Len(s[slot]) \in Nat /\ n <= Len(s[slot])
  <2> TAKE slot \in DOMAIN layout(name)
  <2> DEFINE z == n + pad_len(name)
  <2>1. z \in Nat /\ n <= z /\ Filled(s[slot], z)  BY <1>0, <1>9
  <2> HIDE DEF z
  <2>2. Len(s[slot]) = z  BY <2>1, FilledIs
  <2> QED  BY <2>1, <2>2
<1>11. name = "fill_random" => \A i \in 0..(m[1] - 1) : Hash(i, m[2]) \in Int
  <2>1. \A i \in 0..(n - 1) : i \in 0..n  BY <1>0
  <2> QED  BY <1>0, <1>3, <2>1, SeedsAssumption
<1>12. EachNumeric(name, m, s)
  <2>1. /\ name \in {"add", "mul", "max", "min", "scale", "clamp"} => Numeric(s[1], m[1])
        /\ name \in {"add", "mul", "max", "min"} => Numeric(s[2], m[1])
    BY <1>3, <1>7, <1>9
  <2>2. -2 \in Int /\ -1 \in Int /\ 1 \in Int /\ 3 \in Int  OBVIOUS
  <2> QED  BY <1>3, <1>11, <2>1, <2>2 DEF EachNumeric
<1>13. /\ native_elementwise(name, m, s) = wgsl_elementwise(name, m, wg, s)
       /\ WritesAll(native_elementwise(name, m, s), m[1])
  <2>1. m[1] \in Nat /\ Len(s[1]) \in Nat /\ m[1] <= Len(s[1])
        /\ (Len(s) = 2 => Len(s[2]) \in Nat /\ m[1] <= Len(s[2]))
    BY <1>0, <1>3, <1>7, <1>8, <1>10
  <2> QED  BY <1>4, <1>12, <2>1, ElementwiseAgrees
<1>14. /\ native_writes(name, m, s) = native_elementwise(name, m, s)
       /\ wgsl_writes(name, m, wg, s) = wgsl_elementwise(name, m, wg, s)
  BY <1>5 DEF native_writes, wgsl_writes
<1>15. Sizes(name, c)[OutSlot(name)] = m[1]  BY <1>3, <1>6, <1>7
<1> QED  BY <1>13, <1>14, <1>15 DEF Right, m, wg

LEMMA WritesRight ==
    ASSUME NEW name \in Shaders, name \notin Reductions, NEW c \in cases(name),
           NEW s, Began(name, c, s)
    PROVE  Right(name, c, s)
<1>1. name \in Builtins  BY ShadersAssumption
<1>2. CASE name \in Matmuls  BY <1>2, MatmulRight
<1>3. CASE name \in Gemvs  BY <1>3, GemvRight
<1>4. CASE name = "transpose"  BY <1>4, TransposeRight
<1>5. CASE name \in Elementwise  BY <1>5, ElementwiseRight
<1> QED  BY <1>1, <1>2, <1>3, <1>4, <1>5 DEF Builtins

LEMMA ReductionRight ==
    ASSUME NEW name \in Reductions, name \in Shaders, NEW c \in cases(name), NEW s, Began(name, c, s),
           NEW n, n = Sizes(name, c)[OutSlot(name)], NEW r, r = s[OutSlot(name)],
           NEW W, W \in {native_writes(name, c.meta, s), wgsl_writes(name, c.meta, c.workgroups, s)}
    PROVE  /\ Numeric(Written(r, W), n)
           /\ SumOf(Written(r, W), n) = Whole(name, c.meta, s)
           /\ \A i \in 1..(n + pad_len(name)) : i \notin 1..n => Written(r, W)[i] = r[i]
<1>1. PICK l \in Lengths :
        c = [meta |-> <<l>> \o rest(name, l), workgroups |-> <<tiles(l, Group), 1>>,
             checks |-> ChecksOf(name)]
  BY LengthCases
<1> DEFINE m == c.meta
           wg == c.workgroups
           q == tiles(l, Group)
           o == OutSlot(name)
           z == n + pad_len(name)
<1>2. m = <<l>> \o rest(name, l) /\ wg = <<q, 1>>  BY Zenon, <1>1, Fields
<1>3. l \in Nat  BY LengthsNat
<1>4. m[1] = l
  <2> DEFINE x == <<l>> \o rest(name, l)
  <2>1. x[1] = l  BY <1>3, RestIs
  <2>2. m = x  BY <1>2
  <2> HIDE DEF m, x
  <2> QED  BY <2>1, <2>2
<1>5. q \in Nat \ {0} /\ l <= q * Group  BY <1>3, TilesCover, SizesAre
<1>6. wg[1] * wg[2] = q  BY <1>2, <1>5
<1>7. name = "dot" \/ name = "sum"  BY DEF Reductions
<1>8. name \notin Matmuls /\ name \notin Gemvs /\ name # "transpose"
  BY <1>7 DEF Matmuls, Gemvs
<1>9. /\ o \in DOMAIN layout(name) /\ o = Len(layout(name)) /\ layout(name)[o] = "Output"
      /\ 1 \in DOMAIN layout(name) /\ 1 # o /\ layout(name)[1] = "Input"
      /\ name = "dot" => 2 \in DOMAIN layout(name) /\ 2 # o /\ layout(name)[2] = "Input"
  BY <1>7 DEF layout, OutSlot, Elementwise
<1>10. c.checks[o].check = "Total"
  <2>1. name \in Builtins  BY ShadersAssumption
  <2> QED  BY <2>1, ChecksAre
<1> HIDE DEF m, wg
<1>11. Sizes(name, c) = [slot \in DOMAIN layout(name) |->
                           IF slot # Len(layout(name)) THEN l ELSE IF q = 0 THEN 1 ELSE q]
  <2> HIDE DEF q
  <2> QED  BY <1>4, <1>6, <1>8 DEF Sizes, min_lens, m, wg
<1> HIDE DEF q
<1>12. n = q /\ Sizes(name, c)[1] = l /\ (name = "dot" => Sizes(name, c)[2] = l)
  BY <1>5, <1>9, <1>11
<1>13. /\ Filled(s[o], z) /\ z \in Nat /\ q \in 1..z
       /\ \A i \in 1..q : s[o][i] = 0
       /\ Numeric(s[1], m[1]) /\ (name = "dot" => Numeric(s[2], m[1]))
  <2>1. \A slot \in DOMAIN layout(name) :
                 /\ Sizes(name, c)[slot] \in Nat /\ pad_len(name) \in Nat
                 /\ Filled(s[slot], Sizes(name, c)[slot] + pad_len(name))
                 /\ layout(name)[slot] # "Output" => Numeric(s[slot], Sizes(name, c)[slot])
                 /\ layout(name)[slot] = "Output" /\ c.checks[slot].check = "Total" =>
                       \A i \in 1..Sizes(name, c)[slot] : s[slot][i] = 0
    BY BeganIs
  <2>2. Filled(s[o], z) /\ pad_len(name) \in Nat  BY <1>9, <2>1
  <2>3. \A i \in 1..q : s[o][i] = 0  BY <1>9, <1>10, <1>12, <2>1
  <2>4. Numeric(s[1], m[1]) /\ (name = "dot" => Numeric(s[2], m[1]))
    BY <1>4, <1>9, <1>12, <2>1
  <2>5. z \in Nat /\ q \in 1..z  BY <1>5, <1>12, <2>2
  <2> QED  BY <2>2, <2>3, <2>4, <2>5
<1>14. W \in {native_reduction(name, m, s), wgsl_reduction(name, m, wg, s)}
  <2>1. /\ native_writes(name, m, s) = native_reduction(name, m, s)
        /\ wgsl_writes(name, m, wg, s) = wgsl_reduction(name, m, wg, s)
    BY <1>8 DEF native_writes, wgsl_writes
  <2> QED  BY <2>1 DEF m, wg
<1>15. r = s[o]  OBVIOUS
<1> HIDE DEF o, z
<1>16. /\ Numeric(Written(r, W), q)
       /\ SumOf(Written(r, W), q) = Whole(name, m, s)
       /\ \A i \in 1..z : i \notin 1..q => Written(r, W)[i] = r[i]
  BY <1>3, <1>4, <1>5, <1>6, <1>13, <1>14, <1>15, ReductionAgrees
<1> QED  BY <1>12, <1>16 DEF m, z

\* What a side that does no wrong leaves of a builtin's own case.
LEMMA SideIs ==
    ASSUME NEW name \in Shaders, NEW c \in cases(name), NEW s, Began(name, c, s), NEW format,
           NEW e, e = entry(format, name, c.meta, c.workgroups, s),
           NEW o, o = OutSlot(name), NEW n, n = Sizes(name, c)[o]
    PROVE  /\ \A slot \in DOMAIN layout(name) : slot # o => e[slot] = s[slot]
           /\ Numeric(e[o], n)
           /\ \A i \in 1..(n + pad_len(name)) : i \notin 1..n => e[o][i] = PAD
           /\ IF name \in Reductions THEN SumOf(e[o], n) = Whole(name, c.meta, s)
              ELSE e[o] = Written(s[o], native_writes(name, c.meta, s))
<1> DEFINE W == IF format = "native" THEN native_writes(name, c.meta, s)
                ELSE wgsl_writes(name, c.meta, c.workgroups, s)
<1>1. name \in Builtins  BY ShadersAssumption
<1>2. o \in DOMAIN layout(name)  BY <1>1, LayoutIs
<1>3. /\ DOMAIN s = DOMAIN layout(name)
      /\ n \in Nat /\ pad_len(name) \in Nat /\ Filled(s[o], n + pad_len(name))
      /\ \A i \in 1..(n + pad_len(name)) : i \notin 1..n => s[o][i] = PAD
  BY <1>2, BeganIs
<1>4. e = [s EXCEPT ![o] = Written(@, W)]  BY DEF entry
<1>5. W \in {native_writes(name, c.meta, s), wgsl_writes(name, c.meta, c.workgroups, s)}  OBVIOUS
<1> HIDE DEF W
<1>6. e[o] = Written(s[o], W) /\ \A slot \in DOMAIN layout(name) : slot # o => e[slot] = s[slot]
  BY <1>2, <1>3, <1>4
<1>7. CASE name \in Reductions
  <2>1. /\ Numeric(Written(s[o], W), n)
        /\ SumOf(Written(s[o], W), n) = Whole(name, c.meta, s)
        /\ \A i \in 1..(n + pad_len(name)) : i \notin 1..n => Written(s[o], W)[i] = s[o][i]
    BY <1>5, <1>7, ReductionRight
  <2> QED  BY <1>3, <1>6, <1>7, <2>1
<1>8. CASE name \notin Reductions
  <2>1. Right(name, c, s)  BY <1>8, WritesRight
  <2>2. W = native_writes(name, c.meta, s) /\ WritesAll(W, n)  BY <1>5, <2>1 DEF Right
  <2> DEFINE z == n + pad_len(name)
  <2>3. z \in Nat /\ n \in 0..z /\ Filled(s[o], z)  BY <1>3
  <2> HIDE DEF z
  <2>4. Numeric(Written(s[o], W), n) /\ \A i \in 1..z : i \notin 1..n => Written(s[o], W)[i] = s[o][i]
    BY <2>2, <2>3, WrittenIs
  <2> QED  BY <1>3, <1>6, <1>8, <2>2, <2>4 DEF z
<1> QED  BY <1>7, <1>8

\* A number equals itself within any tolerance.
LEMMA EqualWithin ==
    ASSUME NEW x \in Int, NEW check \in Tolerances, NEW d,
           d.err = err(x, x), d.tol = tolerance(x, x, check)
    PROVE  Within(d)
<1>1. x \in Numbers  BY DEF Numbers
<1>2. d.err = 0 /\ d.tol \in Nat  BY <1>1, DiffsAre
<1> QED  BY <1>2, OverIs, FloatsAssumption

\* A slot passes whose sides are numbers, with nothing past them, and the same.
LEMMA SlotPasses ==
    ASSUME NEW role, NEW check \in Tolerances, NEW len \in Nat, NEW n \in Nat,
           NEW a, Filled(a, n), NEW b, Filled(b, n),
           \A i \in 1..n : i \notin 1..len => a[i] = PAD /\ b[i] = PAD,
           \/ role = "Input" /\ check.check = "Ignore"
           \/ /\ Numeric(a, len) /\ Numeric(b, len)
              /\ \/ check.check = "Close" /\ a = b
                 \/ check.check = "Total" /\ SumOf(a, len) = SumOf(b, len)
    PROVE  slot_passed(SlotReport(role, check, len, a, b))
<1> DEFINE r == SlotReport(role, check, len, a, b)
<1>1. /\ r.unwritten = <<unwritten(role, check, len, a), unwritten(role, check, len, b)>>
      /\ r.overrun = <<overrun(len, a), overrun(len, b)>>
      /\ r.diff = CASE check.check = "Close" -> worst(a, b, len, check)
                    [] check.check = "Total" -> totals(a, b, len, check)
                    [] OTHER -> None
  BY DEF SlotReport
<1> HIDE DEF r
<1>2. DOMAIN a = 1..n /\ DOMAIN b = 1..n  BY DEF Filled
<1>3. overrun(len, a) = None /\ overrun(len, b) = None  BY <1>2, NoOverrun
<1>4. role = "Output" => (\A i \in 1..len : a[i] # NaN) /\ (\A i \in 1..len : b[i] # NaN)
  BY FloatsAssumption DEF Numeric
<1>5. unwritten(role, check, len, a) = None /\ unwritten(role, check, len, b) = None
  BY <1>4, NoneUnwritten
<1>6. r.diff # None => Within(r.diff)
  <2>1. CASE check.check = "Ignore"  BY <1>1, <2>1
  <2>2. CASE check.check = "Close"
    <3>1. a = b /\ Numeric(a, len)  BY <2>2
    <3>2. \A i \in 1..len : a[i] \in Numbers /\ b[i] \in Numbers  BY <3>1 DEF Numeric, Numbers
    <3>3. CASE len = 0
      <4>1. worst(a, b, len, check) = None  BY <3>3 DEF worst
      <4> QED  BY <1>1, <2>2, <4>1
    <3>4. CASE len # 0
      <4>1. PICK i \in 1..len : worst(a, b, len, check) = Diffs(a, b, len, check)[i]
        BY <3>2, <3>4, WorstIsFurthest
      <4> DEFINE d == Diffs(a, b, len, check)[i]
      <4>2. d.err = err(a[i], b[i]) /\ d.tol = tolerance(a[i], b[i], check)  BY DEF Diffs
      <4>3. a[i] = b[i] /\ a[i] \in Int  BY <3>1 DEF Numeric
      <4> HIDE DEF d
      <4>4. Within(d)  BY <4>2, <4>3, EqualWithin
      <4> QED  BY <1>1, <2>2, <4>1, <4>4 DEF d
    <3> QED  BY <3>3, <3>4
  <2>3. CASE check.check = "Total"
    <3>1. SumOf(a, len) = SumOf(b, len) /\ Numeric(a, len)  BY <2>3
    <3>2. SumOf(a, len) \in Int
      <4> DEFINE t == [k \in 0..(len - 1) |-> a[k + 1]]
      <4>1. \A k \in 0..(len - 1) : t[k] = a[k + 1]  OBVIOUS
      <4> HIDE DEF t
      <4> QED  BY <3>1, <4>1, SumOfIs
    <3> DEFINE d == totals(a, b, len, check)
               x == SumOf(a, len)
    <3>3. d.err = err(x, x) /\ d.tol = tolerance(x, x, check)
      <4> HIDE DEF x
      <4>1. d = [index |-> None, values |-> <<x, x>>, err |-> err(x, x), tol |-> tolerance(x, x, check)]
        BY <3>1 DEF totals, x
      <4> HIDE DEF d
      <4> QED  BY <4>1
    <3> HIDE DEF d, x
    <3>4. Within(d)  BY <3>2, <3>3, EqualWithin DEF x
    <3> QED  BY <1>1, <2>3, <3>4 DEF d
  <2> QED  BY <2>1, <2>2, <2>3
<1> QED  BY <1>1, <1>3, <1>5, <1>6 DEF slot_passed, r

\* Every builtin's native and WGSL code pass every one of its own cases
\* (codes/native, codes/wgsl, parity/builtins.rs).
THEOREM BuiltinsDoAgree == Spec => []BuiltinsAgree
<1>1. CompareInv => BuiltinsAgree
  <2> SUFFICES ASSUME CompareInv, phase = "compared", faults = 0, case \in cases(shaders[1])
               PROVE  passed
    BY DEF BuiltinsAgree
  <2> DEFINE name == shaders[1]
             c == case
             o == OutSlot(name)
             m == c.meta
  <2>1. name \in Shaders /\ name \in Builtins  BY ShadersAssumption DEF CompareInv, AskedInv
  <2>2. Began(name, c, start)  BY DEF CompareInv, StartedInv, Began, Lens, Sizes
  <2>3. Lens = Sizes(name, c)  BY DEF Lens, Sizes
  <2>4. out[1] = entry(Side(1), name, m, c.workgroups, start)
        /\ out[2] = entry(Side(2), name, m, c.workgroups, start)
    <3>1. DOMAIN out = 1..2  BY DEF CompareInv, OutInv, ReportInv
    <3> QED  BY <3>1 DEF CompareInv, OutInv
  <2>5. /\ DOMAIN report = DOMAIN layout(name)
        /\ \A slot \in DOMAIN layout(name) :
              /\ report[slot] = SlotReport(layout(name)[slot], c.checks[slot], Lens[slot],
                                           out[1][slot], out[2][slot])
              /\ Filled(out[1][slot], Size(slot)) /\ Filled(out[2][slot], Size(slot))
              /\ Lens[slot] \in Nat /\ Size(slot) \in Nat
    BY Reported DEF Slots
  <2> HIDE DEF name, c, m
  <2> SUFFICES ASSUME NEW slot \in DOMAIN layout(name) PROVE slot_passed(report[slot])
    BY <2>5 DEF passed
  <2> DEFINE a == out[1][slot]
             b == out[2][slot]
             len == Lens[slot]
             z == len + pad_len(name)
             check == c.checks[slot]
             role == layout(name)[slot]
  <2>6. Size(slot) = z  BY DEF Size, name
  <2>7. Filled(a, z) /\ Filled(b, z) /\ len \in Nat /\ z \in Nat
        /\ report[slot] = SlotReport(role, check, len, a, b)
    BY <2>5, <2>6
  <2>8. check \in Tolerances  BY <2>1, ChecksAre DEF name, c
  <2>9. o \in DOMAIN layout(name)  BY <2>1, LayoutIs
  <2>10. \A side \in 1..2 :
          /\ \A x \in DOMAIN layout(name) : x # o => out[side][x] = start[x]
          /\ Numeric(out[side][o], Lens[o])
          /\ \A i \in 1..(Lens[o] + pad_len(name)) : i \notin 1..Lens[o] => out[side][o][i] = PAD
          /\ IF name \in Reductions THEN SumOf(out[side][o], Lens[o]) = Whole(name, m, start)
             ELSE out[side][o] = Written(start[o], native_writes(name, m, start))
    <3> DEFINE n == Lens[o]
    <3>1. n = Sizes(name, c)[o]  BY <2>3
    <3>2. c \in cases(name)  BY DEF c, name
    <3> HIDE DEF n, o
    <3>3. ASSUME NEW format, NEW e, e = entry(format, name, m, c.workgroups, start)
          PROVE  /\ \A x \in DOMAIN layout(name) : x # o => e[x] = start[x]
                 /\ Numeric(e[o], n)
                 /\ \A i \in 1..(n + pad_len(name)) : i \notin 1..n => e[o][i] = PAD
                 /\ IF name \in Reductions THEN SumOf(e[o], n) = Whole(name, m, start)
                    ELSE e[o] = Written(start[o], native_writes(name, m, start))
      BY <2>1, <2>2, <3>1, <3>2, <3>3, SideIs DEF m, o
    <3> QED  BY <2>4, <3>3 DEF n
  <2>11. CASE slot # o
    <3>1. role = "Input" /\ check.check = "Ignore"  BY <2>1, <2>11, LayoutIs, ChecksAre DEF name, c
    <3>2. a = start[slot] /\ b = start[slot]  BY <2>10, <2>11
    <3>3. \A i \in 1..z : i \notin 1..len => start[slot][i] = PAD
      <4>1. c \in cases(name)  BY DEF c, name
      <4> QED  BY <2>1, <2>2, <2>3, <4>1, BeganIs
    <3> HIDE DEF a, b, len, z, check, role
    <3> QED  BY <2>7, <2>8, <3>1, <3>2, <3>3, SlotPasses
  <2>12. CASE slot = o
    <3>1. Numeric(a, len) /\ Numeric(b, len)  BY <2>10, <2>12
    <3>2. \A i \in 1..z : i \notin 1..len => a[i] = PAD /\ b[i] = PAD  BY <2>10, <2>12
    <3>3. check.check = IF name \in Reductions THEN "Total" ELSE "Close"
      BY <2>1, <2>12, ChecksAre DEF name, c
    <3>4. IF name \in Reductions THEN SumOf(a, len) = SumOf(b, len) ELSE a = b  BY <2>10, <2>12
    <3> HIDE DEF a, b, len, z, check, role
    <3> QED  BY <2>7, <2>8, <3>1, <3>2, <3>3, <3>4, SlotPasses
  <2> QED  BY <2>11, <2>12
<1> QED  BY <1>1, CompareHolds, PTL

-----------------------------------------------------------------------------
(* What is compared within a tolerance is a number, or what a shader got   *)
(* wrong.                                                                  *)

ValuesInv ==
    case \in cases(shaders[1]) =>
        \A k \in DOMAIN out : \A i \in 1..Lens[OutSlot(shaders[1])] :
            out[k][OutSlot(shaders[1])][i] \in Int \cup WrongValues

LEMMA ValuesKept ==
    ASSUME ValuesInv, shaders' = shaders, case' = case, out' = out
    PROVE  ValuesInv'
BY LensKept DEF ValuesInv

LEMMA ValuesStep ==
    ASSUME CompareInv, ValuesInv, Next \/ UNCHANGED vars
    PROVE  ValuesInv'
<1> DEFINE o == OutSlot(shaders[1])
<1>1. shaders' = shaders /\ case' = case  BY CaseKept
<1>2. CASE out' = out  BY <1>1, <1>2, ValuesKept
<1>3. Lens' = Lens /\ o' = o  BY <1>1, LensKept
<1>4. shaders[1] \in Shaders /\ shaders[1] \in Builtins
  BY ShadersAssumption DEF CompareInv, AskedInv
<1>5. o \in Slots  BY <1>4, LayoutIs DEF Slots
<1>6. out \in Seq({out[k] : k \in DOMAIN out})  BY DEF CompareInv, OutInv
<1> SUFFICES ASSUME out' # out, case \in cases(shaders[1]),
                    NEW k \in DOMAIN out', NEW i \in 1..Lens[o]
             PROVE  out'[k][o][i] \in Int \cup WrongValues
  BY <1>1, <1>2, <1>3 DEF ValuesInv
<1>7. \A j \in DOMAIN out : out[j][o][i] \in Int \cup WrongValues  BY DEF ValuesInv
<1>8. CASE run
  <2> DEFINE format == IF Len(out) = 0 THEN "native" ELSE "wgsl"
             e == entry(format, shaders[1], case.meta, case.workgroups, start)
             n == Len(out)
  <2>1. out' = Append(out, e) /\ phase = "started"  BY <1>8 DEF run
  <2>2. Began(shaders[1], case, start)
    BY <2>1 DEF CompareInv, StartedInv, Began, Lens, Sizes
  <2>3. Lens = Sizes(shaders[1], case)  BY DEF Lens, Sizes
  <2> HIDE DEF format
  <2>4. Numeric(e[o], Lens[o])  BY <1>4, <2>2, <2>3, SideIs
  <2> HIDE DEF e, o
  <2>5. n \in Nat /\ DOMAIN out = 1..n /\ DOMAIN out' = 1..(n + 1) /\ out'[n + 1] = e
        /\ \A j \in 1..n : out'[j] = out[j]
    BY <1>6, <2>1
  <2> HIDE DEF n
  <2>6. k \in 1..n \/ k = n + 1  BY <2>5
  <2> QED  BY <1>7, <2>4, <2>5, <2>6 DEF Numeric
<1>9. CASE CompareNext
  <2>1. PICK slot \in DOMAIN start, v \in WrongValues :
            \E x \in DOMAIN start[slot] : Misbehave(slot, x, v)
    BY <1>9 DEF CompareNext
  <2>2. PICK x \in DOMAIN start[slot] : Misbehave(slot, x, v)  BY <2>1
  <2> DEFINE n == Len(out)
  <2>3. out' = [out EXCEPT ![n][slot][x] = v] /\ out # <<>>  BY <2>2 DEF Misbehave
  <2>4. n \in Nat /\ DOMAIN out = 1..n /\ n \in DOMAIN out  BY <1>6, <2>3
  <2> HIDE DEF n, o
  <2>5. DOMAIN out' = DOMAIN out  BY <2>3
  <2>6. CASE k # n
    <3>1. out'[k] = out[k]  BY <2>3, <2>5, <2>6
    <3> QED  BY <1>7, <2>5, <3>1
  <2>7. CASE k = n
    <3>1. SlotsHeld(out[n])  BY <2>4 DEF CompareInv, OutInv
    <3> DEFINE r == out[n]
    <3>2. out'[k] = [r EXCEPT ![slot][x] = v]  BY <2>3, <2>4, <2>7
    <3>3. o \in DOMAIN r  BY <1>5, <3>1 DEF SlotsHeld
    <3>4. r[o][i] \in Int \cup WrongValues  BY <1>7, <2>4
    <3> HIDE DEF r
    <3>5. CASE slot # o
      <4>1. out'[k][o] = r[o]  BY <3>2, <3>3, <3>5
      <4> QED  BY <3>4, <4>1
    <3>6. CASE slot = o
      <4>1. out'[k][o] = [r[o] EXCEPT ![x] = v]  BY <3>2, <3>3, <3>6
      <4> DEFINE q == r[o]
      <4> HIDE DEF q
      <4>2. out'[k][o][i] = v \/ out'[k][o][i] = q[i]
        <5>1. out'[k][o] = [q EXCEPT ![x] = v]  BY <4>1 DEF q
        <5>2. CASE i \in DOMAIN q  BY <5>1, <5>2
        <5>3. i \in DOMAIN q
          <6>1. Filled(q, Size(o)) /\ Size(o) \in Nat /\ Size(o) >= Lens[o] /\ Lens[o] \in Nat
            BY <1>5, <3>1, LensAre DEF CompareInv, SlotsHeld, q, r
          <6>2. DOMAIN q = 1..Size(o)  BY <6>1 DEF Filled
          <6> QED  BY <6>1, <6>2
        <5> QED  BY <5>2, <5>3
      <4> QED  BY <3>4, <4>2 DEF q
    <3> QED  BY <3>5, <3>6
  <2> QED  BY <2>6, <2>7
<1>10. run \/ CompareNext
  BY DEF Next, CompareNext, vars, Refuse, Start, Compare
<1> QED  BY <1>8, <1>9, <1>10

LEMMA ValuesHold == Spec => []ValuesInv
<1>1. Init => ValuesInv
  <2>1. DOMAIN <<>> = {}  OBVIOUS
  <2> QED  BY <2>1 DEF Init, ValuesInv
<1>2. CompareInv /\ ValuesInv /\ [Next]_vars => ValuesInv'  BY ValuesStep
<1> QED  BY <1>1, <1>2, CompareHolds, PTL DEF Spec

\* Only a builtin's own cases ask for closeness, and only of what is written.
LEMMA OnlyOwnAreClose ==
    ASSUME CompareInv, phase = "compared", NEW slot \in Slots, case.checks[slot].check = "Close"
    PROVE  /\ case \in cases(shaders[1])
           /\ slot = OutSlot(shaders[1]) /\ case.checks[slot] \in Tolerances
<1> DEFINE name == shaders[1]
           c == case
<1>1. name \in Builtins  BY ShadersAssumption DEF CompareInv, AskedInv
<1>2. Len(c.checks) = Len(layout(name)) /\ slot \in DOMAIN layout(name)
  BY DEF CompareInv, StartedInv, Slots
<1>3. c \in cases(name) \cup OwnCases(name)  BY DEF CompareInv, AskedInv
<1>4. c.checks[slot].check = "Close"  OBVIOUS
<1> HIDE DEF name, c
<1>5. c \in cases(name)
  <2> SUFFICES ASSUME c \in OwnCases(name) PROVE FALSE  BY <1>3
  <2>1. PICK d \in cases(name) : \/ c = [d EXCEPT !.checks = [k \in DOMAIN @ |-> ignore]]
                                 \/ c = [d EXCEPT !.checks = <<>>]
    BY DEF OwnCases
  <2>2. d = [meta |-> d.meta, workgroups |-> d.workgroups, checks |-> d.checks]
    BY <1>1, CasesAre
  <2>3. CASE c = [d EXCEPT !.checks = [k \in DOMAIN @ |-> ignore]]
    <3>1. c.checks = [k \in DOMAIN d.checks |-> ignore]  BY <2>2, <2>3
    <3>2. DOMAIN d.checks = DOMAIN layout(name)  BY <1>1, ChecksAre
    <3>3. c.checks[slot] = ignore  BY <1>2, <3>1, <3>2
    <3> QED  BY <1>4, <3>3 DEF ignore
  <2>4. CASE c = [d EXCEPT !.checks = <<>>]
    <3>1. c.checks = <<>>  BY <2>2, <2>4
    <3>2. Len(c.checks) = 0  BY <3>1
    <3>3. Len(layout(name)) \in 1..3  BY <1>1, LayoutIs
    <3> QED  BY <1>2, <3>2, <3>3
  <2> QED  BY <2>1, <2>3, <2>4
<1>6. slot = OutSlot(name) /\ c.checks[slot] \in Tolerances
  <2>1. slot # OutSlot(name) => c.checks[slot].check = "Ignore"  BY <1>1, <1>2, <1>5, ChecksAre
  <2> QED  BY <1>1, <1>2, <1>4, <1>5, <2>1, ChecksAre
<1> QED  BY <1>5, <1>6 DEF name, c

\* A report passes only if every element of a Close slot is within its tolerance
\* (compare, worst, over), as long as no shader writes an infinity: the run that
\* finds two of them passing is MCParity_hidden.
THEOREM PassedIsClose ==
    ASSUME WrongValues \subseteq Int \cup {NaN}
    PROVE  Spec => []PassedMeansClose
<1>1. CompareInv /\ ValuesInv => PassedMeansClose
  <2> SUFFICES ASSUME CompareInv, ValuesInv, phase = "compared", passed,
                      NEW slot \in DOMAIN report, case.checks[slot].check = "Close",
                      NEW i \in 1..Lens[slot]
               PROVE  Within(Diffs(out[1][slot], out[2][slot], Lens[slot], case.checks[slot])[i])
    BY DEF PassedMeansClose
  <2> DEFINE a == out[1][slot]
             b == out[2][slot]
             len == Lens[slot]
             check == case.checks[slot]
  <2>1. slot \in Slots /\ len \in Nat
        /\ report[slot] = SlotReport(layout(shaders[1])[slot], check, len, a, b)
    BY Reported
  <2>2. case \in cases(shaders[1]) /\ slot = OutSlot(shaders[1]) /\ check \in Tolerances
    BY <2>1, OnlyOwnAreClose
  <2>3. DOMAIN out = 1..2  BY DEF CompareInv, OutInv, ReportInv
  <2>4. \A j \in 1..len : a[j] \in Numbers /\ b[j] \in Numbers
    <3>1. \A k \in 1..2 : \A j \in 1..len : out[k][slot][j] \in Int \cup WrongValues
      BY <2>2, <2>3 DEF ValuesInv
    <3>2. \A k \in 1..2 : \A j \in 1..len : out[k][slot][j] \in Numbers
      BY <3>1 DEF Numbers
    <3>3. 1 \in 1..2 /\ 2 \in 1..2  OBVIOUS
    <3> QED  BY <3>2, <3>3
  <2>5. slot_passed(report[slot])  BY DEF passed
  <2>6. check.check = "Close"  OBVIOUS
  <2> HIDE DEF a, b, len, check
  <2>7. report[slot].diff = worst(a, b, len, check)  BY <2>1, <2>6 DEF SlotReport
  <2>8. worst(a, b, len, check) # None => Within(worst(a, b, len, check))
    BY <2>5, <2>7 DEF slot_passed
  <2>9. \A j \in 1..len : Within(Diffs(a, b, len, check)[j])
    BY <2>1, <2>2, <2>4, <2>8, WorstIsFurthest
  <2> QED  BY <2>9 DEF a, b, len, check
<1> QED  BY <1>1, CompareHolds, ValuesHold, PTL

=============================================================================
