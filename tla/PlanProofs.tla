----------------------------- MODULE PlanProofs -----------------------------
(***************************************************************************)
(* Deferred values have one Resolver and one value, whichever threads read *)
(* them; what a plan does with them is what any threads may do.  Of a plan *)
(* and its runs: no live tensor is in two places, a captured run is as it  *)
(* was recorded, calls keep fitting, apply_dynamics is all or nothing, a   *)
(* run that was built executes, one that was ready is built, and nothing   *)
(* is made of a value that was not read.                                   *)
(***************************************************************************)
EXTENDS Plan, TLAPS, WellFoundedInduction, SequenceTheorems

FrameSet == [cell : Cells, got : Seq(Values), looked : BOOLEAN]
ReadSet == {None} \cup [cell : Cells, value : Values \cup {None}]

Types ==
    /\ value \in [Cells -> Values \cup {None}]
    /\ taken \subseteq DOMAIN Given
    /\ resolvers \in [DOMAIN Given -> Nat]
    /\ stack \in [Threads -> Seq(FrameSet)]
    /\ read \in [Threads -> ReadSet]

\* A cell has a Resolver only between the call that takes it and its use, and no
\* value before.
OneResolver ==
    \A c \in DOMAIN Given :
        /\ resolvers[c] > 0 => resolvers[c] = 1 /\ c \in taken /\ value[c] = None
        /\ c \notin taken => resolvers[c] = 0 /\ value[c] = None

\* From v to w no value changes or goes away.
Stays(v, w) == \A c \in Cells : v[c] # None => w[c] = v[c]

\* What a frame has got are its first inputs' values.
GotRight(f, v) ==
    /\ f.cell \in DOMAIN Inputs
    /\ Len(f.got) <= Len(Inputs[f.cell])
    /\ \A i \in 1..Len(f.got) : f.got[i] = v[Inputs[f.cell][i]]

\* Frame k asked for the input that frame k + 1 reads.
Asked(s, k) ==
    /\ s[k].looked
    /\ Len(s[k].got) < Len(Inputs[s[k].cell])
    /\ s[k + 1].cell = Inputs[s[k].cell][Len(s[k].got) + 1]

Chain(s, v) ==
    \A k \in 1..Len(s) :
        /\ s[k].looked => GotRight(s[k], v)
        /\ ~ s[k].looked => s[k].got = <<>>
        /\ k < Len(s) => Asked(s, k)

Chains == \A t \in Threads : Chain(stack[t], value)

\* A computed value is one for its inputs, which are all there.
Computed(v) ==
    \A c \in DOMAIN Inputs : v[c] # None =>
        /\ \A i \in DOMAIN Inputs[c] : v[Inputs[c][i]] # None
        /\ v[c] \in Computes(c, [i \in DOMAIN Inputs[c] |-> v[Inputs[c][i]]])

ReadRight(r, v) == r = None \/ r.value = None \/ r.value = v[r.cell]

ReadsRight == \A t \in Threads : ReadRight(read[t], value)

DeferredInv == Types /\ OneResolver /\ Chains /\ Computed(value) /\ ReadsRight

-----------------------------------------------------------------------------
\* Frames and chains of them.

\* Sequences, whatever they hold.
LEMMA OneFacts ==
    ASSUME NEW S, NEW f \in S
    PROVE  <<f>> \in Seq(S) /\ Len(<<f>>) = 1 /\ <<f>>[1] = f
OBVIOUS

LEMMA PushFacts ==
    ASSUME NEW S, NEW s \in Seq(S), NEW f \in S
    PROVE  /\ Append(s, f) \in Seq(S) /\ Len(s) \in Nat /\ Len(Append(s, f)) = Len(s) + 1
           /\ Append(s, f)[Len(s) + 1] = f /\ \A k \in 1..Len(s) : Append(s, f)[k] = s[k]
OBVIOUS

LEMMA CutFacts ==
    ASSUME NEW S, NEW s \in Seq(S), NEW n \in Nat, n <= Len(s), NEW f \in S
    PROVE  LET r == Append(SubSeq(s, 1, n), f)
           IN  /\ r \in Seq(S) /\ Len(r) = n + 1 /\ r[n + 1] = f
               /\ \A k \in 1..n : r[k] = s[k]
<1> DEFINE q == SubSeq(s, 1, n)
<1>1. q \in Seq(S) /\ Len(q) = n /\ \A k \in 1..n : q[k] = s[k]  OBVIOUS
<1> HIDE DEF q
<1>2. QED  BY <1>1, PushFacts DEF q

LEMMA InputFacts ==
    ASSUME NEW c \in DOMAIN Inputs
    PROVE  /\ c \in Cells /\ c \notin DOMAIN Given
           /\ Len(Inputs[c]) \in Nat /\ DOMAIN Inputs[c] = 1..Len(Inputs[c])
           /\ \A i \in 1..Len(Inputs[c]) : Inputs[c][i] \in Cells
BY CellsAssumption DEF Cells

LEMMA FrameFacts ==
    ASSUME NEW f \in FrameSet
    PROVE  /\ f.cell \in Cells /\ f.got \in Seq(Values) /\ f.looked \in BOOLEAN
           /\ Len(f.got) \in Nat /\ \A i \in 1..Len(f.got) : f.got[i] \in Values
<1>1. f.cell \in Cells /\ f.got \in Seq(Values) /\ f.looked \in BOOLEAN  BY DEF FrameSet
<1>2. QED  BY <1>1

LEMMA FrameIs ==
    ASSUME NEW c \in Cells
    PROVE  /\ Frame(c) \in FrameSet /\ Frame(c).cell = c
           /\ Frame(c).got = <<>> /\ Frame(c).looked = FALSE
BY DEF Frame, FrameSet

LEMMA LookedFrame ==
    ASSUME NEW f \in FrameSet
    PROVE  LET g == [f EXCEPT !.looked = TRUE]
           IN  g \in FrameSet /\ g.cell = f.cell /\ g.got = f.got /\ g.looked
BY DEF FrameSet

LEMMA FedFrame ==
    ASSUME NEW f \in FrameSet, NEW x \in Values
    PROVE  LET g == [f EXCEPT !.got = Append(@, x)]
           IN  /\ g \in FrameSet /\ g.cell = f.cell /\ g.looked = f.looked
               /\ Len(g.got) = Len(f.got) + 1 /\ g.got[Len(f.got) + 1] = x
               /\ \A i \in 1..Len(f.got) : g.got[i] = f.got[i]
<1> DEFINE g == [f EXCEPT !.got = Append(@, x)]
<1>1. f.got \in Seq(Values)  BY FrameFacts
<1>2. Append(f.got, x) \in Seq(Values)  BY <1>1
<1>3. g \in FrameSet /\ g.cell = f.cell /\ g.looked = f.looked /\ g.got = Append(f.got, x)
  BY <1>2 DEF FrameSet
<1> HIDE DEF g
<1>4. Len(g.got) = Len(f.got) + 1 /\ g.got[Len(f.got) + 1] = x
      /\ \A i \in 1..Len(f.got) : g.got[i] = f.got[i]
  BY <1>1, <1>3
<1>5. QED  BY <1>3, <1>4 DEF g

\* Values that stay leave a chain right: what a frame got is there.
LEMMA ChainStays ==
    ASSUME NEW s \in Seq(FrameSet), NEW v, NEW w, Chain(s, v), Stays(v, w)
    PROVE  Chain(s, w)
<1> SUFFICES ASSUME NEW k \in 1..Len(s), s[k].looked PROVE GotRight(s[k], w)
  BY DEF Chain
<1>1. s[k] \in FrameSet  OBVIOUS
<1>2. GotRight(s[k], v)  BY DEF Chain
<1>3. ASSUME NEW i \in 1..Len(s[k].got) PROVE s[k].got[i] = w[Inputs[s[k].cell][i]]
  <2>1. s[k].got[i] \in Values /\ s[k].got[i] = v[Inputs[s[k].cell][i]] /\ i \in 1..Len(Inputs[s[k].cell])
    BY <1>1, <1>2, FrameFacts, InputFacts DEF GotRight
  <2>2. Inputs[s[k].cell][i] \in Cells /\ v[Inputs[s[k].cell][i]] # None
    BY <1>2, <2>1, InputFacts, CellsAssumption DEF GotRight
  <2>3. QED  BY <2>1, <2>2 DEF Stays
<1>4. QED  BY <1>2, <1>3 DEF GotRight

LEMMA ChainOne ==
    ASSUME NEW c \in Cells, NEW v
    PROVE  <<Frame(c)>> \in Seq(FrameSet) /\ Chain(<<Frame(c)>>, v)
<1> DEFINE s == <<Frame(c)>>
<1>1. s \in Seq(FrameSet) /\ Len(s) = 1 /\ s[1] = Frame(c)  BY FrameIs, OneFacts
<1> HIDE DEF s
<1>2. \A k \in 1..Len(s) : k = 1  BY <1>1
<1>3. ~ s[1].looked /\ s[1].got = <<>>  BY <1>1, FrameIs
<1>4. Chain(s, v)
  <2> SUFFICES ASSUME NEW k \in 1..Len(s)
               PROVE  /\ s[k].looked => GotRight(s[k], v)
                      /\ ~ s[k].looked => s[k].got = <<>>
                      /\ k < Len(s) => Asked(s, k)
    BY DEF Chain
  <2>1. k = 1 /\ ~ (k < Len(s))  BY <1>1
  <2>2. QED  BY <1>3, <2>1
<1>5. QED  BY <1>1, <1>4 DEF s

\* ReadInput.
LEMMA ChainPushed ==
    ASSUME NEW s \in Seq(FrameSet), NEW v, Chain(s, v), s # <<>>,
           NEW c \in Cells,
           s[Len(s)].looked, Len(s[Len(s)].got) < Len(Inputs[s[Len(s)].cell]),
           c = Inputs[s[Len(s)].cell][Len(s[Len(s)].got) + 1]
    PROVE  Append(s, Frame(c)) \in Seq(FrameSet) /\ Chain(Append(s, Frame(c)), v)
<1> DEFINE n == Len(s)
           r == Append(s, Frame(c))
<1>1. /\ r \in Seq(FrameSet) /\ n \in Nat \ {0} /\ Len(r) = n + 1 /\ r[n + 1] = Frame(c)
      /\ \A k \in 1..n : r[k] = s[k]
  <2>1. Frame(c) \in FrameSet  BY FrameIs
  <2>2. n \in Nat \ {0}  OBVIOUS
  <2>3. QED  BY <2>1, <2>2, PushFacts
<1> HIDE DEF r
<1>2. ASSUME NEW k \in 1..Len(r)
      PROVE  /\ r[k].looked => GotRight(r[k], v)
             /\ ~ r[k].looked => r[k].got = <<>>
             /\ k < Len(r) => Asked(r, k)
  <2>1. CASE k \in 1..(n - 1)
    <3>1. r[k] = s[k] /\ r[k + 1] = s[k + 1] /\ k \in 1..Len(s) /\ k < Len(s)  BY <1>1, <2>1
    <3>2. QED  BY <3>1 DEF Chain, Asked
  <2>2. CASE k = n
    <3>1. r[k] = s[n] /\ r[k + 1] = Frame(c) /\ n \in 1..Len(s)  BY <1>1, <2>2
    <3>2. r[k + 1].cell = c  BY <3>1, FrameIs
    <3>3. GotRight(s[n], v)  BY <3>1 DEF Chain
    <3>4. QED  BY <3>1, <3>2, <3>3 DEF Asked
  <2>3. CASE k = n + 1
    <3>1. r[k] = Frame(c) /\ ~ (k < Len(r))  BY <1>1, <2>3
    <3>2. QED  BY <3>1, FrameIs
  <2>4. QED  BY <1>1, <2>1, <2>2, <2>3
<1>3. Chain(r, v)  BY <1>2 DEF Chain
<1>4. QED  BY <1>1, <1>3 DEF r

\* Look, at a cell to compute: the innermost frame has looked, and got nothing yet.
LEMMA ChainLooked ==
    ASSUME NEW s \in Seq(FrameSet), NEW v, Chain(s, v), s # <<>>, ~ s[Len(s)].looked,
           s[Len(s)].cell \in DOMAIN Inputs,
           NEW g \in FrameSet, g.looked, g.cell = s[Len(s)].cell, g.got = s[Len(s)].got
    PROVE  LET r == Append(SubSeq(s, 1, Len(s) - 1), g) IN r \in Seq(FrameSet) /\ Chain(r, v)
<1> DEFINE n == Len(s)
           r == Append(SubSeq(s, 1, Len(s) - 1), g)
<1>1. /\ r \in Seq(FrameSet) /\ n \in Nat \ {0} /\ Len(r) = n /\ r[n] = g
      /\ \A k \in 1..(n - 1) : r[k] = s[k]
  <2>1. n \in Nat \ {0}  OBVIOUS
  <2>2. n - 1 \in Nat /\ n - 1 <= Len(s) /\ (n - 1) + 1 = n  BY <2>1
  <2>3. /\ r \in Seq(FrameSet) /\ Len(r) = (n - 1) + 1 /\ r[(n - 1) + 1] = g
        /\ \A k \in 1..(n - 1) : r[k] = s[k]
    <3> DEFINE m == n - 1
    <3>1. m \in Nat /\ m <= Len(s) /\ r = Append(SubSeq(s, 1, m), g)  BY <2>2
    <3> HIDE DEF m, r, n
    <3>2. QED  BY <3>1, CutFacts DEF m
  <2> HIDE DEF r
  <2>4. QED  BY <2>1, <2>2, <2>3
<1> HIDE DEF r
<1>2. g.got = <<>>  BY <1>1 DEF Chain
<1>3. GotRight(g, v)  BY <1>2, InputFacts DEF GotRight
<1>4. ASSUME NEW k \in 1..Len(r)
      PROVE  /\ r[k].looked => GotRight(r[k], v)
             /\ ~ r[k].looked => r[k].got = <<>>
             /\ k < Len(r) => Asked(r, k)
  <2>1. CASE k \in 1..(n - 1)
    <3>1. r[k] = s[k] /\ r[k + 1].cell = s[k + 1].cell /\ k \in 1..Len(s) /\ k < Len(s)
      BY <1>1, <2>1
    <3>2. QED  BY <3>1 DEF Chain, Asked
  <2>2. CASE k = n
    BY <1>1, <1>3, <2>2
  <2>3. QED  BY <1>1, <2>1, <2>2
<1>5. Chain(r, v)  BY <1>4 DEF Chain
<1>6. QED  BY <1>1, <1>5 DEF r

\* ReturnValue to the closure that asked: it got its next input.
LEMMA ChainReturned ==
    ASSUME NEW s \in Seq(FrameSet), NEW v, Chain(s, v), Len(s) > 1,
           NEW x \in Values, x = v[s[Len(s)].cell]
    PROVE  LET caller == s[Len(s) - 1]
               r == Append(SubSeq(s, 1, Len(s) - 2), [caller EXCEPT !.got = Append(@, x)])
           IN  r \in Seq(FrameSet) /\ Chain(r, v)
<1> DEFINE n == Len(s)
           caller == s[n - 1]
           g == [caller EXCEPT !.got = Append(@, x)]
           r == Append(SubSeq(s, 1, n - 2), g)
<1>1. n \in Nat /\ n > 1 /\ caller \in FrameSet  OBVIOUS
<1>2. /\ g \in FrameSet /\ g.cell = caller.cell /\ g.looked = caller.looked
      /\ Len(g.got) = Len(caller.got) + 1 /\ g.got[Len(caller.got) + 1] = x
      /\ \A i \in 1..Len(caller.got) : g.got[i] = caller.got[i]
  BY <1>1, FedFrame
<1>3. Asked(s, n - 1) /\ GotRight(caller, v) /\ caller.looked
  BY <1>1 DEF Chain, Asked
<1> HIDE DEF g
<1>4. /\ r \in Seq(FrameSet) /\ Len(r) = n - 1 /\ r[n - 1] = g
      /\ \A k \in 1..(n - 2) : r[k] = s[k]
  <2>1. n - 2 \in Nat /\ n - 2 <= Len(s) /\ (n - 2) + 1 = n - 1  BY <1>1
  <2>2. /\ r \in Seq(FrameSet) /\ Len(r) = (n - 2) + 1 /\ r[(n - 2) + 1] = g
        /\ \A k \in 1..(n - 2) : r[k] = s[k]
    <3> DEFINE m == n - 2
    <3>1. m \in Nat /\ m <= Len(s) /\ r = Append(SubSeq(s, 1, m), g)  BY <2>1
    <3> HIDE DEF m, r, n
    <3>2. QED  BY <1>2, <3>1, CutFacts DEF m
  <2> HIDE DEF r
  <2>3. QED  BY <2>1, <2>2
<1> HIDE DEF r
<1>5. s[n].cell = Inputs[caller.cell][Len(caller.got) + 1] /\ Len(caller.got) < Len(Inputs[caller.cell])
  BY <1>1, <1>3 DEF Asked
<1>6. GotRight(g, v)
  <2>1. caller.cell \in DOMAIN Inputs /\ Len(Inputs[caller.cell]) \in Nat /\ Len(caller.got) \in Nat
    BY <1>1, <1>3, FrameFacts, InputFacts DEF GotRight
  <2>2. ASSUME NEW i \in 1..Len(g.got) PROVE g.got[i] = v[Inputs[g.cell][i]]
    <3>1. CASE i \in 1..Len(caller.got)  BY <1>2, <1>3, <3>1 DEF GotRight
    <3>2. CASE i = Len(caller.got) + 1  BY <1>2, <1>5, <3>2
    <3>3. QED  BY <1>2, <2>1, <3>1, <3>2
  <2>3. QED  BY <1>2, <1>5, <2>1, <2>2 DEF GotRight
<1>7. ASSUME NEW k \in 1..Len(r)
      PROVE  /\ r[k].looked => GotRight(r[k], v)
             /\ ~ r[k].looked => r[k].got = <<>>
             /\ k < Len(r) => Asked(r, k)
  <2>1. CASE k \in 1..(n - 2)
    <3>1. r[k] = s[k] /\ k \in 1..Len(s) /\ k < Len(s)  BY <1>1, <1>4, <2>1
    <3>2. r[k + 1].cell = s[k + 1].cell
      <4>1. CASE k + 1 \in 1..(n - 2)  BY <1>4, <4>1
      <4>2. CASE k + 1 = n - 1  BY <1>2, <1>4, <4>2
      <4>3. QED  BY <1>1, <2>1, <4>1, <4>2
    <3>3. QED  BY <3>1, <3>2 DEF Chain, Asked
  <2>2. CASE k = n - 1
    <3>1. r[k] = g /\ ~ (k < Len(r))  BY <1>1, <1>4, <2>2
    <3>2. QED  BY <1>2, <1>3, <1>6, <3>1
  <2>3. QED  BY <1>1, <1>4, <2>1, <2>2
<1>8. Chain(r, v)  BY <1>7 DEF Chain
<1>9. QED  BY <1>4, <1>8 DEF r, g

\* Values that stay leave a computed one right.
LEMMA ComputedStays ==
    ASSUME NEW v \in [Cells -> Values \cup {None}], NEW w, Stays(v, w), Computed(v),
           NEW c \in DOMAIN Inputs, v[c] # None
    PROVE  /\ w[c] = v[c]
           /\ \A i \in DOMAIN Inputs[c] : w[Inputs[c][i]] # None
           /\ w[c] \in Computes(c, [i \in DOMAIN Inputs[c] |-> w[Inputs[c][i]]])
<1>1. w[c] = v[c]  BY InputFacts DEF Stays
<1>2. \A i \in DOMAIN Inputs[c] : v[Inputs[c][i]] # None /\ w[Inputs[c][i]] = v[Inputs[c][i]]
  BY InputFacts DEF Stays, Computed
<1>3. [i \in DOMAIN Inputs[c] |-> w[Inputs[c][i]]] = [i \in DOMAIN Inputs[c] |-> v[Inputs[c][i]]]
  BY <1>2
<1>4. v[c] \in Computes(c, [i \in DOMAIN Inputs[c] |-> v[Inputs[c][i]]])  BY DEF Computed
<1>5. QED  BY <1>1, <1>2, <1>3, <1>4

LEMMA ReadStays ==
    ASSUME NEW r \in ReadSet, NEW v, NEW w, Stays(v, w), ReadRight(r, v)
    PROVE  ReadRight(r, w)
<1> SUFFICES ASSUME r # None, r.value # None PROVE r.value = w[r.cell]
  BY DEF ReadRight
<1>1. r.cell \in Cells  BY DEF ReadSet
<1>2. QED  BY <1>1 DEF ReadRight, Stays

LEMMA ReadIs ==
    ASSUME NEW c \in Cells, NEW x \in Values \cup {None}
    PROVE  LET r == [cell |-> c, value |-> x] IN r \in ReadSet /\ r.cell = c /\ r.value = x
BY DEF ReadSet

-----------------------------------------------------------------------------
\* The steps.

\* A step that only adds values leaves what threads read right.
LEMMA ValuesStay ==
    ASSUME Types, Chains, ReadsRight, Stays(value, value'), UNCHANGED <<stack, read>>
    PROVE  Chains' /\ ReadsRight'
<1>1. ASSUME NEW t \in Threads PROVE Chain(stack[t], value') /\ ReadRight(read[t], value')
  <2>1. stack[t] \in Seq(FrameSet) /\ read[t] \in ReadSet  BY DEF Types
  <2>2. Chain(stack[t], value) /\ ReadRight(read[t], value)  BY DEF Chains, ReadsRight
  <2>3. QED  BY <2>1, <2>2, ChainStays, ReadStays
<1>2. QED  BY <1>1 DEF Chains, ReadsRight

LEMMA ResolverStep ==
    ASSUME DeferredInv, NEW c \in DOMAIN Given, resolver(c)
    PROVE  DeferredInv'
<1>1. Types'  BY DEF DeferredInv, Types, resolver
<1>2. OneResolver'  BY DEF DeferredInv, Types, OneResolver, resolver
<1>3. Chains' /\ Computed(value)' /\ ReadsRight'
  BY DEF DeferredInv, Chains, ReadsRight, resolver, Computed
<1>4. QED  BY <1>1, <1>2, <1>3 DEF DeferredInv

LEMMA DropStep ==
    ASSUME DeferredInv, NEW c \in DOMAIN Given, DropResolver(c)
    PROVE  DeferredInv'
<1>1. Types'  BY DEF DeferredInv, Types, DropResolver
<1>2. OneResolver'  BY DEF DeferredInv, Types, OneResolver, DropResolver
<1>3. Chains' /\ Computed(value)' /\ ReadsRight'
  BY DEF DeferredInv, Chains, ReadsRight, DropResolver, Computed
<1>4. QED  BY <1>1, <1>2, <1>3 DEF DeferredInv

\* resolve finds no value there, and the cell is not a computed one.
LEMMA ResolveStep ==
    ASSUME DeferredInv, NEW c \in DOMAIN Given, NEW x \in Given[c], resolve(c, x)
    PROVE  DeferredInv'
<1>1. value[c] = None /\ resolvers[c] = 1 /\ c \in taken  BY DEF DeferredInv, OneResolver, resolve
<1>2. x \in Values /\ c \in Cells  BY ValuesAssumption DEF Cells
<1>3. value \in [Cells -> Values \cup {None}]  BY DEF DeferredInv, Types
<1>4. value' = [value EXCEPT ![c] = x]  BY <1>1, <1>2, <1>3 DEF resolve
<1>5. Stays(value, value')  BY <1>1, <1>3, <1>4 DEF Stays
<1>6. Types'
  BY <1>1, <1>2, <1>3, <1>4 DEF DeferredInv, Types, resolve
<1>7. OneResolver'
  <2>1. resolvers' = [resolvers EXCEPT ![c] = 0] /\ taken' = taken
    BY <1>1 DEF DeferredInv, Types, resolve
  <2>2. QED  BY <1>1, <1>2, <1>3, <1>4, <2>1 DEF DeferredInv, Types, OneResolver, Cells
<1>8. Chains' /\ ReadsRight'
  BY <1>5, ValuesStay DEF DeferredInv, resolve
<1>9. Computed(value')
  <2> SUFFICES ASSUME NEW d \in DOMAIN Inputs, value'[d] # None
               PROVE  /\ \A i \in DOMAIN Inputs[d] : value'[Inputs[d][i]] # None
                      /\ value'[d] \in Computes(d, [i \in DOMAIN Inputs[d] |-> value'[Inputs[d][i]]])
    BY DEF Computed
  <2>1. d # c /\ d \in Cells  BY InputFacts
  <2>2. value[d] # None  BY <1>3, <1>4, <2>1
  <2>3. Computed(value)  BY DEF DeferredInv
  <2>4. QED  BY <1>3, <1>5, <2>2, <2>3, ComputedStays
<1>10. QED  BY <1>6, <1>7, <1>8, <1>9 DEF DeferredInv, Computed

\* The innermost read returns what its cell holds.
LEMMA ReturnStep ==
    ASSUME NEW t \in Threads, NEW x \in Values, Types, stack[t] # <<>>,
           value'[Top(t).cell] = x,
           \A u \in Threads : Chain(stack[u], value') /\ ReadRight(read[u], value'),
           ReturnValue(t, x)
    PROVE  /\ stack' \in [Threads -> Seq(FrameSet)] /\ read' \in [Threads -> ReadSet]
           /\ Chains' /\ ReadsRight'
<1> DEFINE s == stack[t]
<1>1. s \in Seq(FrameSet) /\ Len(s) \in Nat \ {0} /\ s[Len(s)] \in FrameSet
  BY DEF Types
<1>2. stack \in [Threads -> Seq(FrameSet)] /\ read \in [Threads -> ReadSet]  BY DEF Types
<1>3. CASE Below(t) = <<>>
  <2> DEFINE r == [cell |-> Top(t).cell, value |-> x]
  <2>1. r \in ReadSet /\ r.cell = Top(t).cell /\ r.value = x
    BY <1>1, FrameFacts, ReadIs DEF Top
  <2>2. ReadRight(r, value')  BY <2>1 DEF ReadRight
  <2>3. stack' = [stack EXCEPT ![t] = <<>>] /\ read' = [read EXCEPT ![t] = r]
    BY <1>3 DEF ReturnValue
  <2> HIDE DEF r
  <2>4. \A w : Chain(<<>>, w)  BY DEF Chain
  <2>5. <<>> \in Seq(FrameSet)  OBVIOUS
  <2>6. QED  BY <1>2, <2>1, <2>2, <2>3, <2>4, <2>5 DEF Chains, ReadsRight
<1>4. CASE Below(t) # <<>>
  <2>1. Len(s) > 1  BY <1>1, <1>4 DEF Below
  <2>2. Below(t)[Len(Below(t))] = s[Len(s) - 1]  BY <1>1, <2>1 DEF Below
  <2> DEFINE r == Append(SubSeq(s, 1, Len(s) - 2), [s[Len(s) - 1] EXCEPT !.got = Append(@, x)])
  <2>3. stack' = [stack EXCEPT ![t] = r] /\ read' = read
    BY <1>2, <1>4, <2>2 DEF ReturnValue
  <2>4. r \in Seq(FrameSet) /\ Chain(r, value')
    BY <1>1, <2>1, ChainReturned DEF Top
  <2> HIDE DEF r
  <2>5. QED  BY <1>2, <2>3, <2>4 DEF Chains, ReadsRight
<1>5. QED  BY <1>3, <1>4

LEMMA ForgetStep ==
    ASSUME DeferredInv, NEW t \in Threads, Forget(t)
    PROVE  DeferredInv'
<1>1. Types' /\ OneResolver'
  BY DEF DeferredInv, Types, OneResolver, Forget, cellvars, ReadSet
<1>2. Chains' /\ Computed(value)'
  BY DEF DeferredInv, Chains, Computed, Forget, cellvars
<1>3. ReadsRight'
  BY DEF DeferredInv, Types, ReadsRight, ReadRight, Forget, cellvars
<1>4. QED  BY <1>1, <1>2, <1>3 DEF DeferredInv

LEMMA StartStep ==
    ASSUME DeferredInv, NEW t \in Threads, NEW c \in Cells, StartValue(t, c)
    PROVE  DeferredInv'
<1> DEFINE s == <<Frame(c)>>
<1>1. s \in Seq(FrameSet) /\ Chain(s, value)  BY ChainOne
<1>2. stack' = [stack EXCEPT ![t] = s] /\ read' = [read EXCEPT ![t] = None]
      /\ value' = value /\ taken' = taken /\ resolvers' = resolvers
  BY DEF StartValue, cellvars
<1> HIDE DEF s
<1>3. Types' /\ OneResolver'
  BY <1>1, <1>2 DEF DeferredInv, Types, OneResolver, ReadSet
<1>4. Chains'  BY <1>1, <1>2 DEF DeferredInv, Types, Chains
<1>5. Computed(value)'  BY <1>2 DEF DeferredInv
<1>6. ReadsRight'  BY <1>2 DEF DeferredInv, Types, ReadsRight, ReadRight
<1>7. QED  BY <1>3, <1>4, <1>5, <1>6 DEF DeferredInv

LEMMA LookStep ==
    ASSUME DeferredInv, NEW t \in Threads, Look(t)
    PROVE  DeferredInv'
<1> DEFINE s == stack[t]
           c == Top(t).cell
<1>1. s \in Seq(FrameSet) /\ Len(s) \in Nat \ {0} /\ Top(t) = s[Len(s)] /\ Top(t) \in FrameSet
      /\ c \in Cells /\ ~ Top(t).looked
  <2>1. s \in Seq(FrameSet) /\ s # <<>> /\ ~ Top(t).looked
    BY DEF DeferredInv, Types, Look, Reading
  <2>2. Len(s) \in Nat \ {0} /\ s[Len(s)] \in FrameSet  BY <2>1
  <2>3. QED  BY <2>1, <2>2, FrameFacts DEF Top
<1>2. value' = value /\ taken' = taken /\ resolvers' = resolvers  BY DEF Look, cellvars
<1>3. OneResolver' /\ Computed(value)'  BY <1>2 DEF DeferredInv, OneResolver
<1>4. stack \in [Threads -> Seq(FrameSet)] /\ read \in [Threads -> ReadSet]
      /\ value \in [Cells -> Values \cup {None}]
  BY DEF DeferredInv, Types
<1>5. SUFFICES /\ stack' \in [Threads -> Seq(FrameSet)] /\ read' \in [Threads -> ReadSet]
               /\ Chains' /\ ReadsRight'
  BY <1>2, <1>3 DEF DeferredInv, Types
<1>6. CASE value[c] # None /\ ReturnValue(t, value[c])
  <2>1. value[c] \in Values /\ value'[c] = value[c]  BY <1>1, <1>2, <1>4, <1>6
  <2>2. \A u \in Threads : Chain(stack[u], value') /\ ReadRight(read[u], value')
    BY <1>2 DEF DeferredInv, Chains, ReadsRight
  <2>3. stack[t] # <<>>  BY <1>1
  <2>4. QED  BY <1>6, <2>1, <2>2, <2>3, ReturnStep DEF DeferredInv
<1>7. CASE /\ value[c] = None /\ c \in DOMAIN Given
           /\ stack' = [stack EXCEPT ![t] = <<>>]
           /\ read' = [read EXCEPT ![t] = [cell |-> stack[t][1].cell, value |-> NotGivenYet]]
  <2> DEFINE r == [cell |-> s[1].cell, value |-> None]
  <2>1. s[1] \in FrameSet  BY <1>1
  <2>2. r \in ReadSet /\ r.value = None  BY <2>1, FrameFacts, ReadIs
  <2>3. stack' = [stack EXCEPT ![t] = <<>>] /\ read' = [read EXCEPT ![t] = r]
    BY <1>7 DEF NotGivenYet
  <2> HIDE DEF r
  <2>4. \A w : Chain(<<>>, w) /\ ReadRight(r, w)  BY <2>2 DEF Chain, ReadRight
  <2>5. <<>> \in Seq(FrameSet)  OBVIOUS
  <2>6. QED  BY <1>2, <1>4, <2>2, <2>3, <2>4, <2>5 DEF DeferredInv, Chains, ReadsRight
<1>8. CASE /\ value[c] = None /\ c \notin DOMAIN Given
           /\ SetTop(t, [Top(t) EXCEPT !.looked = TRUE]) /\ UNCHANGED read
  <2> DEFINE g == [Top(t) EXCEPT !.looked = TRUE]
             r == Append(SubSeq(s, 1, Len(s) - 1), g)
  <2>1. g \in FrameSet /\ g.looked /\ g.cell = c /\ g.got = Top(t).got
    BY <1>1, LookedFrame
  <2>2. stack' = [stack EXCEPT ![t] = r]  BY <1>8 DEF SetTop, Below
  <2>3. c \in DOMAIN Inputs  BY <1>1, <1>8 DEF Cells
  <2>4. Chain(s, value)  BY DEF DeferredInv, Chains
  <2> HIDE DEF g
  <2>5. r \in Seq(FrameSet) /\ Chain(r, value)
    BY <1>1, <2>1, <2>3, <2>4, ChainLooked
  <2> HIDE DEF r
  <2>6. QED  BY <1>2, <1>4, <1>8, <2>2, <2>5 DEF DeferredInv, Chains, ReadsRight
<1>9. QED  BY <1>6, <1>7, <1>8 DEF Look

LEMMA ReadInputStep ==
    ASSUME DeferredInv, NEW t \in Threads, ReadInput(t)
    PROVE  DeferredInv'
<1> DEFINE s == stack[t]
           c == Inputs[Top(t).cell][Len(Top(t).got) + 1]
           r == Append(s, Frame(c))
<1>1. s \in Seq(FrameSet) /\ s # <<>> /\ Top(t) = s[Len(s)] /\ Top(t) \in FrameSet /\ Top(t).looked
      /\ Len(s) \in Nat \ {0}
  <2>1. s \in Seq(FrameSet) /\ s # <<>> /\ Top(t).looked
    BY DEF DeferredInv, Types, ReadInput, Reading
  <2>2. Len(s) \in Nat \ {0} /\ s[Len(s)] \in FrameSet  BY <2>1
  <2>3. QED  BY <2>1, <2>2 DEF Top
<1>2. Chain(s, value)  BY DEF DeferredInv, Chains
<1>3. Top(t).cell \in DOMAIN Inputs  BY <1>1, <1>2 DEF Chain, GotRight
<1>4. Len(Top(t).got) < Len(Inputs[Top(t).cell]) /\ stack' = [stack EXCEPT ![t] = r]
      /\ value' = value /\ taken' = taken /\ resolvers' = resolvers /\ read' = read
  BY DEF ReadInput, cellvars
<1>5. c \in Cells  BY <1>1, <1>3, <1>4, FrameFacts, InputFacts
<1>6. r \in Seq(FrameSet) /\ Chain(r, value)
  BY <1>1, <1>2, <1>4, <1>5, ChainPushed
<1> HIDE DEF r
<1>7. Types' /\ OneResolver'  BY <1>4, <1>6 DEF DeferredInv, Types, OneResolver
<1>8. Chains' /\ ReadsRight'  BY <1>4, <1>6 DEF DeferredInv, Types, Chains, ReadsRight
<1>9. Computed(value)'  BY <1>4 DEF DeferredInv
<1>10. QED  BY <1>7, <1>8, <1>9 DEF DeferredInv

\* What the closure got is what its inputs are; it keeps the first result.
LEMMA KeepStep ==
    ASSUME DeferredInv, NEW t \in Threads, Keep(t)
    PROVE  DeferredInv'
<1> DEFINE s == stack[t]
           f == Top(t)
           c == f.cell
           inputs(v) == [i \in DOMAIN Inputs[c] |-> v[Inputs[c][i]]]
<1>1. s \in Seq(FrameSet) /\ s # <<>> /\ f = s[Len(s)] /\ f \in FrameSet /\ f.looked
      /\ Len(s) \in Nat \ {0}
  <2>1. s \in Seq(FrameSet) /\ s # <<>> /\ f.looked
    BY DEF DeferredInv, Types, Keep, Reading
  <2>2. Len(s) \in Nat \ {0} /\ s[Len(s)] \in FrameSet  BY <2>1
  <2>3. QED  BY <2>1, <2>2 DEF Top
<1>2. value \in [Cells -> Values \cup {None}]  BY DEF DeferredInv, Types
<1>3. GotRight(f, value)  BY <1>1 DEF DeferredInv, Chains, Chain
<1>4. c \in DOMAIN Inputs /\ c \in Cells /\ c \notin DOMAIN Given
      /\ DOMAIN Inputs[c] = 1..Len(Inputs[c])
      /\ (\A i \in DOMAIN Inputs[c] : Inputs[c][i] \in Cells)
  BY <1>3, InputFacts DEF GotRight
<1>5. Len(f.got) = Len(Inputs[c])  BY DEF Keep
<1>6. f.got \in [DOMAIN Inputs[c] -> Values] /\ f.got = inputs(value)
  <2>1. f.got \in Seq(Values) /\ (\A i \in 1..Len(f.got) : f.got[i] \in Values)  BY <1>1, FrameFacts
  <2>2. DOMAIN f.got = DOMAIN Inputs[c] /\ f.got = [i \in DOMAIN f.got |-> f.got[i]]
    BY <1>4, <1>5, <2>1
  <2>3. \A i \in DOMAIN Inputs[c] : f.got[i] \in Values /\ f.got[i] = value[Inputs[c][i]]
    BY <1>3, <1>4, <1>5, <2>1 DEF GotRight
  <2>4. QED  BY <2>2, <2>3
<1>7. PICK x \in Computes(c, f.got) :
        /\ value' = [value EXCEPT ![c] = IF value[c] = None THEN x ELSE value[c]]
        /\ ReturnValue(t, IF value[c] = None THEN x ELSE value[c])
  BY DEF Keep
<1>8. taken' = taken /\ resolvers' = resolvers  BY DEF Keep
<1> DEFINE kept == IF value[c] = None THEN x ELSE value[c]
<1>9. x \in Values /\ kept \in Values  BY <1>2, <1>4, <1>6, <1>7, ValuesAssumption
<1>10. value' = [value EXCEPT ![c] = kept] /\ ReturnValue(t, kept)  BY <1>7
<1>11. value' \in [Cells -> Values \cup {None}] /\ value'[c] = kept /\ Stays(value, value')
  BY <1>2, <1>4, <1>9, <1>10 DEF Stays
<1>12. OneResolver'
  BY <1>2, <1>4, <1>8, <1>10 DEF DeferredInv, OneResolver, Cells
<1>13. ASSUME NEW u \in Threads PROVE Chain(stack[u], value') /\ ReadRight(read[u], value')
  <2>1. stack[u] \in Seq(FrameSet) /\ read[u] \in ReadSet  BY DEF DeferredInv, Types
  <2>2. Chain(stack[u], value) /\ ReadRight(read[u], value)  BY DEF DeferredInv, Chains, ReadsRight
  <2>3. QED  BY <1>11, <2>1, <2>2, ChainStays, ReadStays
<1>14. /\ stack' \in [Threads -> Seq(FrameSet)] /\ read' \in [Threads -> ReadSet]
       /\ Chains' /\ ReadsRight'
  BY <1>1, <1>9, <1>10, <1>11, <1>13, ReturnStep DEF DeferredInv
<1>15. Types'  BY <1>8, <1>11, <1>14 DEF DeferredInv, Types
<1>16. Computed(value')
  <2> SUFFICES ASSUME NEW d \in DOMAIN Inputs, value'[d] # None
               PROVE  /\ \A i \in DOMAIN Inputs[d] : value'[Inputs[d][i]] # None
                      /\ value'[d] \in Computes(d, [i \in DOMAIN Inputs[d] |-> value'[Inputs[d][i]]])
    BY DEF Computed
  <2>1. CASE value[d] # None
    BY <1>2, <1>11, <2>1, ComputedStays DEF DeferredInv
  <2>2. CASE value[d] = None
    <3>1. d = c /\ kept = x
      <4>1. d \in Cells  BY InputFacts
      <4>2. d = c  BY <1>2, <1>10, <2>2, <4>1
      <4>3. QED  BY <2>2, <4>2
    <3>2. \A i \in DOMAIN Inputs[c] : value[Inputs[c][i]] # None
      BY <1>6, CellsAssumption
    <3>3. \A i \in DOMAIN Inputs[c] : value'[Inputs[c][i]] = value[Inputs[c][i]]
      BY <1>4, <1>11, <3>2 DEF Stays
    <3>4. inputs(value') = f.got  BY <1>6, <3>3
    <3>5. value'[c] = x /\ x \in Computes(c, f.got)  BY <1>7, <1>11, <3>1
    <3>6. QED  BY <3>1, <3>2, <3>3, <3>4, <3>5
  <2>3. QED  BY <2>1, <2>2
<1>17. QED  BY <1>12, <1>14, <1>15, <1>16 DEF DeferredInv, Computed

LEMMA SetStep ==
    ASSUME DeferredInv, NEW d \in DOMAIN Dynamics, NEW v \in Dynamics[d], set(d, v)
    PROVE  DeferredInv'
BY DEF DeferredInv, Types, OneResolver, Chains, Computed, ReadsRight, set, cellvars

-----------------------------------------------------------------------------

LEMMA InitRight == DeferredInit => DeferredInv
<1> SUFFICES ASSUME DeferredInit PROVE DeferredInv  OBVIOUS
<1>1. \A c \in Cells : value[c] = IF c \in DOMAIN Fixed THEN Fixed[c] ELSE None  BY DEF DeferredInit
<1>2. \A c \in DOMAIN Fixed : c \in DOMAIN Given /\ Fixed[c] \in Values  BY CellsAssumption
<1>3. <<>> \in Seq(FrameSet) /\ \A v : Chain(<<>>, v)  BY DEF Chain
<1>4. Types
  <2>1. value \in [Cells -> Values \cup {None}]  BY <1>2 DEF DeferredInit
  <2>2. QED  BY <1>2, <1>3, <2>1 DEF DeferredInit, Types, ReadSet
<1>5. OneResolver  BY <1>1 DEF DeferredInit, OneResolver, Cells
<1>6. Chains  BY <1>3 DEF DeferredInit, Chains
<1>7. Computed(value)
  <2>1. \A c \in DOMAIN Inputs : value[c] = None  BY <1>1, <1>2, InputFacts
  <2>2. QED  BY <2>1 DEF Computed
<1>8. ReadsRight  BY DEF DeferredInit, ReadsRight, ReadRight
<1>9. QED  BY <1>4, <1>5, <1>6, <1>7, <1>8 DEF DeferredInv

LEMMA NextRight == DeferredInv /\ [DeferredNext]_deferred => DeferredInv'
<1> SUFFICES ASSUME DeferredInv, [DeferredNext]_deferred PROVE DeferredInv'  OBVIOUS
<1>1. CASE CellStep
  <2>1. ASSUME NEW c \in DOMAIN Given, resolver(c) \/ DropResolver(c) \/ \E v \in Given[c] : resolve(c, v)
        PROVE  DeferredInv'
    BY <2>1, ResolverStep, DropStep, ResolveStep
  <2>2. ASSUME NEW d \in DOMAIN Dynamics, NEW v \in Dynamics[d], set(d, v) PROVE DeferredInv'
    BY <2>2, SetStep
  <2>3. ASSUME NEW t \in Threads, ReadStep(t) PROVE DeferredInv'
    BY <2>3, LookStep, ReadInputStep, KeepStep DEF ReadStep
  <2>4. QED  BY <1>1, <2>1, <2>2, <2>3 DEF CellStep
<1>2. CASE \E t \in Threads : Forget(t) \/ \E c \in Cells : StartValue(t, c)
  BY <1>2, ForgetStep, StartStep
<1>3. CASE UNCHANGED deferred
  BY <1>3 DEF DeferredInv, Types, OneResolver, Chains, Computed, ReadsRight, deferred, cellvars
<1>4. QED  BY <1>1, <1>2, <1>3 DEF DeferredNext

\* Of any threads that ask for a cell's Resolver, give its value or drop it, in any
\* order, one at most holds one, and it finds no value: no given value is lost.
THEOREM ResolverAlone == DeferredSpec => []ResolversWork
<1>1. DeferredInv => ResolversWork  BY DEF DeferredInv, OneResolver, ResolversWork
<1>2. QED  BY <1>1, InitRight, NextRight, PTL DEF DeferredSpec

\* Any threads that read one cell get the same value, and a computed one is a result
\* of its closure for the values its inputs have, whichever thread computed what.
THEOREM ReadersGetOne == DeferredSpec => []ReadersAgree
<1>1. ASSUME DeferredInv PROVE ReadersAgree
  <2>1. \A t \in Threads : read[t] # None /\ read[t].value # NotGivenYet => read[t].value = value[read[t].cell]
    BY <1>1 DEF DeferredInv, ReadsRight, ReadRight, NotGivenYet
  <2>2. ASSUME NEW c \in DOMAIN Inputs, value[c] # None
        PROVE  LET inputs == [i \in DOMAIN Inputs[c] |-> value[Inputs[c][i]]]
               IN  /\ \A i \in DOMAIN inputs : inputs[i] # None
                   /\ value[c] \in Computes(c, inputs)
    BY <1>1, <2>2 DEF DeferredInv, Computed
  <2>3. QED  BY <2>1, <2>2 DEF ReadersAgree
<1>2. QED  BY <1>1, InitRight, NextRight, PTL DEF DeferredSpec

-----------------------------------------------------------------------------

\* Every step of the plan is a step of the deferred values, or leaves them alone.
LEMMA PlanStep == [Next]_vars => [DeferredNext]_deferred
<1> SUFFICES ASSUME [Next]_vars PROVE [DeferredNext]_deferred  OBVIOUS
<1>1. CASE UNCHANGED vars  BY <1>1 DEF vars
<1>2. CASE CellStepOfAny  BY <1>2 DEF CellStepOfAny, DeferredNext
<1>3. ASSUME NEW t \in Threads, NEW c \in DOMAIN Inputs, Read(t, c) PROVE DeferredNext
  BY <1>3 DEF Read, DeferredNext, Cells
<1>4. CASE PlannerStep
  <2>1. ASSUME NEW op \in Runs, Start(op) PROVE DeferredNext
    BY <2>1, PlannerAssumption DEF Start, DeferredNext
  <2>2. CASE Ask  BY <2>2, PlannerAssumption DEF Ask, DeferredNext
  <2>3. CASE Take  BY <2>3, PlannerAssumption DEF Take, DeferredNext
  <2>4. CASE finish \/ Build  BY <2>4 DEF finish, Build
  <2>5. ASSUME NEW r \in Runs,
               \/ \E from \in Runs, id \in DOMAIN run[r].tensors : fill_from(r, from, id)
               \/ \E id \in DOMAIN run[r].tensors, new \in EditTensors : EditTensor(r, id, new)
               \/ \E i, j \in DOMAIN run[r].tensors : SwapTensors(r, i, j)
               \/ \E c \in DOMAIN run[r].nodes, new \in EditNodes : EditNode(r, c, new)
        PROVE  UNCHANGED deferred
    BY <2>5 DEF fill_from, EditTensor, SwapTensors, EditNode, edit
  <2>6. ASSUME NEW r \in Runs,
               bind(r) \/ Unbind(r) \/ execute(r) \/ apply_dynamics(r) \/ capture(r) \/ release(r)
        PROVE  UNCHANGED deferred
    BY <2>6 DEF bind, Unbind, execute, apply_dynamics, capture, release
  <2>7. CASE \/ \E f \in Fields : read_dynamic(f)
             \/ \E c \in Calls : set_meta(c)
             \/ ReturnApply
    BY <2>7 DEF read_dynamic, set_meta, ReturnApply
  <2>8. QED  BY <1>4, <2>1, <2>2, <2>3, <2>4, <2>5, <2>6, <2>7 DEF PlannerStep
<1>5. QED  BY <1>1, <1>2, <1>3, <1>4 DEF Next

\* A plan, with any other threads, reads and gives deferred values as Deferred says.
THEOREM PlanReads == Spec => DeferredSpec
<1>1. Init => DeferredInit  BY DEF Init
<1>2. QED  BY <1>1, PlanStep, PTL DEF Spec, DeferredSpec

\* While plans are built too, one thread at most holds a cell's Resolver, and no given
\* value is lost.
THEOREM PlanResolvers == Spec => []ResolversWork
BY PlanReads, ResolverAlone, PTL

\* What building a plan read is what every other thread reads, computed or given.
THEOREM PlanReadersAgree == Spec => []ReadersAgree
BY PlanReads, ReadersGetOne, PTL

-----------------------------------------------------------------------------
\* Where tensors are.

RunFields == {"st", "tensors", "nodes", "bound"}

\* R is a state of the runs.
IsRuns(R) == DOMAIN R = Runs /\ \A r \in Runs : DOMAIN R[r] = RunFields

Named(R, n) ==
    \A r \in Runs : \A i \in DOMAIN R[r].tensors :
        IsLive(R[r].tensors[i]) => R[r].tensors[i].name \in 1..n

Apart(R) ==
    \A r, q \in Runs : \A i \in DOMAIN R[r].tensors, j \in DOMAIN R[q].tensors :
        IsLive(R[r].tensors[i]) /\ R[r].tensors[i].name = R[q].tensors[j].name => r = q /\ i = j

Full(R) == \A r \in Runs : R[r].st # "none" => DOMAIN R[r].tensors = Ids

\* Names are new ones: none above made is in use.
PlaceInv ==
    /\ plan \in Plans /\ made \in Nat
    /\ IsRuns(run) /\ Full(run) /\ Named(run, made) /\ Apart(run)

\* From R to S no tensor changes its place, and no run is new.
SameTensors(R, S) ==
    \A r \in Runs : S[r].tensors = R[r].tensors /\ (S[r].st # "none" => R[r].st # "none")

LEMMA SameStays ==
    ASSUME NEW R, NEW S, NEW n, Full(R), Named(R, n), Apart(R), SameTensors(R, S)
    PROVE  Full(S) /\ Named(S, n) /\ Apart(S)
BY DEF Full, Named, Apart, SameTensors

LEMMA MoveStep ==
    ASSUME PlaceInv, NEW to \in Runs, NEW from \in Runs, NEW id, fill_from(to, from, id),
           id \in DOMAIN run[to].tensors
    PROVE  PlaceInv'
<1> DEFINE hollow == run[to].tensors[id]
           live == run[from].tensors[id]
<1>1. to # from /\ ~ IsLive(hollow) /\ IsLive(live) /\ plan' = plan /\ made' = made
      /\ run[to].st = "open" /\ run[from].st = "open"
      /\ run' = [run EXCEPT ![to].tensors[id] = live, ![from].tensors[id] = hollow]
  BY DEF fill_from, Open
<1>2. IsRuns(run)  BY DEF PlaceInv
<1>3. id \in DOMAIN run[to].tensors /\ id \in DOMAIN run[from].tensors
  BY <1>1 DEF PlaceInv, Full
<1>4. /\ \A i \in DOMAIN run[from].tensors : run[from].tensors[i].name = live.name => i = id
      /\ \A r \in Runs \ {from} : \A i \in DOMAIN run[r].tensors : run[r].tensors[i].name # live.name
      /\ live.name \in 1..made
  BY <1>1, <1>3 DEF PlaceInv, Apart, Named
<1> HIDE DEF hollow, live
<1>5. /\ IsRuns(run')
      /\ \A r \in Runs : run'[r].st = run[r].st
      /\ run'[to].tensors = [run[to].tensors EXCEPT ![id] = live]
      /\ run'[from].tensors = [run[from].tensors EXCEPT ![id] = hollow]
      /\ \A r \in Runs \ {to, from} : run'[r].tensors = run[r].tensors
  BY <1>1, <1>2 DEF IsRuns, RunFields
<1>6. Full(run')  BY <1>5 DEF PlaceInv, Full
<1>7. /\ \A r \in Runs : DOMAIN run'[r].tensors = DOMAIN run[r].tensors
      /\ run'[to].tensors[id] = live /\ run'[from].tensors[id] = hollow
      /\ \A r \in Runs : \A i \in DOMAIN run[r].tensors :
            ~ (r \in {to, from} /\ i = id) => run'[r].tensors[i] = run[r].tensors[i]
  BY <1>3, <1>5
<1>8. Named(run', made)
  <2> SUFFICES ASSUME NEW r \in Runs, NEW i \in DOMAIN run[r].tensors, IsLive(run'[r].tensors[i])
               PROVE  run'[r].tensors[i].name \in 1..made
    BY <1>7 DEF Named
  <2>1. CASE r \in {to, from} /\ i = id  BY <1>1, <1>4, <1>7, <2>1
  <2>2. CASE ~ (r \in {to, from} /\ i = id)  BY <1>7, <2>2 DEF PlaceInv, Named
  <2>3. QED  BY <2>1, <2>2
<1>9. Apart(run')
  <2> SUFFICES ASSUME NEW r \in Runs, NEW q \in Runs,
                      NEW i \in DOMAIN run[r].tensors, NEW j \in DOMAIN run[q].tensors,
                      IsLive(run'[r].tensors[i]), run'[r].tensors[i].name = run'[q].tensors[j].name
               PROVE  r = q /\ i = j
    BY <1>7 DEF Apart
  <2>1. \A p \in Runs : \A k \in DOMAIN run[p].tensors :
           IsLive(run'[p].tensors[k]) =>
              \/ p = to /\ k = id /\ run'[p].tensors[k].name = live.name
              \/ run'[p].tensors[k] = run[p].tensors[k] /\ ~ (p = from /\ k = id)
    <3> SUFFICES ASSUME NEW p \in Runs, NEW k \in DOMAIN run[p].tensors, IsLive(run'[p].tensors[k])
                 PROVE  \/ p = to /\ k = id /\ run'[p].tensors[k].name = live.name
                        \/ run'[p].tensors[k] = run[p].tensors[k] /\ ~ (p = from /\ k = id)
      OBVIOUS
    <3>1. CASE p = from /\ k = id  BY <1>1, <1>7, <3>1
    <3>2. CASE p = to /\ k = id  BY <1>7, <3>2
    <3>3. CASE ~ (p \in {to, from} /\ k = id)  BY <1>7, <3>3
    <3>4. QED  BY <3>1, <3>2, <3>3
  <2>2. IsLive(run'[q].tensors[j])  BY DEF IsLive
  <2>3. QED  BY <1>4, <2>1, <2>2 DEF PlaceInv, Apart
<1>10. QED  BY <1>1, <1>5, <1>6, <1>8, <1>9 DEF PlaceInv, Full, Ids

\* What runs are when Edit::tensor put a new tensor somewhere, or two changed places.
LEMMA EditTensorStep ==
    ASSUME PlaceInv, NEW r \in Runs, NEW id \in DOMAIN run[r].tensors, NEW new, EditTensor(r, id, new)
    PROVE  PlaceInv'
<1> DEFINE t == [name |-> made + 1, kind |-> new.kind, len |-> new.len]
           ts == [run[r].tensors EXCEPT ![id] = t]
<1>1. /\ run' = [run EXCEPT ![r] = [run[r] EXCEPT !.tensors = ts, !.nodes = run[r].nodes]]
      /\ made' = made + 1 /\ plan' = plan /\ t.name = made + 1
  BY DEF EditTensor, edit
<1>2. DOMAIN ts = DOMAIN run[r].tensors /\ ts[id] = t
      /\ \A i \in DOMAIN ts : i # id => ts[i] = run[r].tensors[i]
  OBVIOUS
<1> HIDE DEF t, ts
<1>3. IsRuns(run)  BY DEF PlaceInv
<1>4. /\ IsRuns(run') /\ \A q \in Runs : run'[q].st = run[q].st
      /\ run'[r].tensors = ts /\ \A q \in Runs \ {r} : run'[q].tensors = run[q].tensors
  BY <1>1, <1>3 DEF IsRuns, RunFields
<1>5. Full(run')  BY <1>1, <1>2, <1>4 DEF PlaceInv, Full
<1>6. made \in Nat /\ made' \in Nat /\ made + 1 \notin 1..made /\ 1..made \subseteq 1..made'
      /\ made + 1 \in 1..made'
  BY <1>1 DEF PlaceInv
<1>7. Named(run', made')  BY <1>1, <1>2, <1>4, <1>6 DEF PlaceInv, Named
<1>8. Apart(run')
  <2>1. \A q \in Runs : \A i \in DOMAIN run[q].tensors :
           IsLive(run[q].tensors[i]) => run[q].tensors[i].name # t.name
    BY <1>1, <1>6 DEF PlaceInv, Named
  <2>2. QED  BY <1>2, <1>4, <2>1 DEF PlaceInv, Apart, IsLive
<1>9. QED  BY <1>1, <1>4, <1>5, <1>6, <1>7, <1>8 DEF PlaceInv, Full, Ids

LEMMA SwapStep ==
    ASSUME PlaceInv, NEW r \in Runs, NEW i \in DOMAIN run[r].tensors, NEW j \in DOMAIN run[r].tensors,
           SwapTensors(r, i, j)
    PROVE  PlaceInv'
<1> DEFINE ts == [run[r].tensors EXCEPT ![i] = run[r].tensors[j], ![j] = run[r].tensors[i]]
<1>1. /\ run' = [run EXCEPT ![r] = [run[r] EXCEPT !.tensors = ts, !.nodes = run[r].nodes]]
      /\ made' = made /\ plan' = plan /\ i # j
  BY DEF SwapTensors, edit
<1>2. DOMAIN ts = DOMAIN run[r].tensors /\ ts[i] = run[r].tensors[j] /\ ts[j] = run[r].tensors[i]
      /\ \A k \in DOMAIN ts : k \notin {i, j} => ts[k] = run[r].tensors[k]
  BY <1>1
<1> HIDE DEF ts
<1>3. IsRuns(run)  BY DEF PlaceInv
<1>4. /\ IsRuns(run') /\ \A q \in Runs : run'[q].st = run[q].st
      /\ run'[r].tensors = ts /\ \A q \in Runs \ {r} : run'[q].tensors = run[q].tensors
  BY <1>1, <1>3 DEF IsRuns, RunFields
<1>5. Full(run')  BY <1>1, <1>2, <1>4 DEF PlaceInv, Full
<1>6. Named(run', made')  BY <1>1, <1>2, <1>4 DEF PlaceInv, Named
<1>7. Apart(run')  BY <1>1, <1>2, <1>4 DEF PlaceInv, Apart
<1>8. QED  BY <1>1, <1>4, <1>5, <1>6, <1>7 DEF PlaceInv, Full, Ids

LEMMA BuildStep ==
    ASSUME PlaceInv, work.op \in Runs, Build
    PROVE  PlaceInv'
<1> DEFINE op == work.op
           b == Built(op)
<1>1. CASE \E error \in UploadFails(op) \cup NodeFails \cup LengthFails(b) \cup BackendFails : GiveBack(error)
  BY <1>1 DEF GiveBack, PlaceInv, Full, Ids
<1>2. CASE /\ run' = [run EXCEPT ![op] = b] /\ plan' = plan
           /\ made' = IF op = "build" THEN made + Len(plan.tensors) ELSE made
  <2>1. /\ DOMAIN b = RunFields /\ DOMAIN b.tensors = Ids
        /\ \A id \in Ids : b.tensors[id].name = IF op = "build" THEN made + id ELSE None
    BY DEF Built, BuiltTensor, RunFields
  <2> HIDE DEF b
  <2>2. IsRuns(run') /\ run'[op] = b /\ \A q \in Runs \ {op} : run'[q] = run[q]
    BY <1>2, <2>1 DEF PlaceInv, IsRuns
  <2>3. Full(run')  BY <1>2, <2>1, <2>2 DEF PlaceInv, Full
  <2>4. made \in Nat /\ Len(plan.tensors) \in Nat /\ Ids = 1..Len(plan.tensors)
    <3>1. plan.tensors \in Seq(Range(plan.tensors)) /\ made \in Nat  BY PlansAssumption DEF PlaceInv
    <3>2. QED  BY <3>1 DEF Ids
  <2>5. made' \in Nat /\ 1..made \subseteq 1..made'  BY <1>2, <2>4
  <2>6. \A id \in Ids : IsLive(b.tensors[id]) =>
           op = "build" /\ b.tensors[id].name = made + id /\ made + id \in (1..made') \ (1..made)
    BY <1>2, <2>1, <2>4 DEF IsLive
  <2>7. Named(run', made')  BY <2>1, <2>2, <2>5, <2>6 DEF PlaceInv, Named
  <2>8. Apart(run')
    <3>1. \A q \in Runs \ {op} : \A i \in DOMAIN run[q].tensors, id \in Ids :
             IsLive(b.tensors[id]) => run[q].tensors[i].name # b.tensors[id].name
      BY <2>6 DEF PlaceInv, Named, IsLive
    <3>2. \A id, k \in Ids : IsLive(b.tensors[id]) /\ b.tensors[id].name = b.tensors[k].name => id = k
      BY <2>4, <2>6 DEF IsLive
    <3>3. QED  BY <2>1, <2>2, <3>1, <3>2 DEF PlaceInv, Apart, IsLive
  <2>9. QED  BY <1>2, <2>2, <2>3, <2>5, <2>7, <2>8 DEF PlaceInv, Full, Ids
<1>3. QED  BY <1>1, <1>2 DEF Build

\* The other steps leave tensors where they are.
LEMMA RunStep ==
    ASSUME PlaceInv, NEW r \in Runs,
           \/ bind(r) \/ Unbind(r) \/ execute(r) \/ apply_dynamics(r) \/ capture(r) \/ release(r)
           \/ \E c \in DOMAIN run[r].nodes, new \in EditNodes : EditNode(r, c, new)
    PROVE  PlaceInv'
<1>1. plan' = plan /\ made' = made
  BY DEF bind, Unbind, execute, apply_dynamics, capture, release, EditNode, edit
<1>2. IsRuns(run)  BY DEF PlaceInv
<1>3. IsRuns(run') /\ SameTensors(run, run')
  <2>1. CASE bind(r) \/ Unbind(r)
    BY <1>2, <2>1 DEF bind, Unbind, InScope, IsRuns, RunFields, SameTensors
  <2>2. CASE execute(r) \/ apply_dynamics(r)
    BY <1>2, <2>2 DEF execute, apply_dynamics, SameTensors
  <2>3. CASE capture(r) \/ release(r)
    BY <1>2, <2>3 DEF capture, release, Open, IsRuns, RunFields, SameTensors
  <2>4. ASSUME NEW c \in DOMAIN run[r].nodes, NEW new \in EditNodes, EditNode(r, c, new)
        PROVE  IsRuns(run') /\ SameTensors(run, run')
    <3> DEFINE ns == [run[r].nodes EXCEPT ![c] = new]
    <3>1. run' = [run EXCEPT ![r] = [run[r] EXCEPT !.tensors = run[r].tensors, !.nodes = ns]]
      BY <2>4 DEF EditNode, edit
    <3> HIDE DEF ns
    <3>2. QED  BY <1>2, <3>1 DEF IsRuns, RunFields, SameTensors
  <2>5. QED  BY <2>1, <2>2, <2>3, <2>4
<1>4. Full(run') /\ Named(run', made) /\ Apart(run')  BY <1>3, SameStays DEF PlaceInv
<1>5. QED  BY <1>1, <1>3, <1>4 DEF PlaceInv, Full, Ids

LEMMA ApplyStep ==
    ASSUME PlaceInv, (\E f \in Fields : read_dynamic(f)) \/ (\E c \in Calls : set_meta(c)) \/ ReturnApply
    PROVE  PlaceInv'
<1>1. plan' = plan /\ made' = made  BY DEF read_dynamic, set_meta, ReturnApply
<1>2. IsRuns(run)  BY DEF PlaceInv
<1>3. IsRuns(run') /\ SameTensors(run, run')
  <2>1. CASE run' = run  BY <1>2, <2>1 DEF SameTensors
  <2>2. ASSUME NEW c \in Calls, run' = [run EXCEPT ![apply.run].nodes[c].meta = NewMeta(c)]
        PROVE  IsRuns(run') /\ SameTensors(run, run')
    <3> DEFINE m == NewMeta(c)
    <3>1. run' = [run EXCEPT ![apply.run].nodes[c].meta = m]  BY <2>2
    <3> HIDE DEF m
    <3>2. QED  BY <1>2, <3>1 DEF IsRuns, RunFields, SameTensors
  <2>3. QED  BY <2>1, <2>2 DEF read_dynamic, set_meta, ReturnApply
<1>4. Full(run') /\ Named(run', made) /\ Apart(run')  BY <1>3, SameStays DEF PlaceInv
<1>5. QED  BY <1>1, <1>3, <1>4 DEF PlaceInv, Full, Ids

LEMMA PlaceInit == Init => PlaceInv
BY DEF Init, PlaceInv, IsRuns, RunFields, NoRun, Full, Named, Apart, Ids

LEMMA PlaceNext == PlaceInv /\ work.op \in Runs \cup {"idle"} /\ [Next]_vars => PlaceInv'
<1> SUFFICES ASSUME PlaceInv, work.op \in Runs \cup {"idle"}, [Next]_vars PROVE PlaceInv'  OBVIOUS
<1>1. ASSUME UNCHANGED <<plan, made, run>> PROVE PlaceInv'
  BY <1>1 DEF PlaceInv, Full, Ids
<1>2. CASE UNCHANGED vars \/ CellStepOfAny \/ \E t \in Threads, c \in DOMAIN Inputs : Read(t, c)
  BY <1>1, <1>2 DEF vars, planvars, CellStepOfAny, Read
<1>3. CASE PlannerStep
  <2>1. CASE finish \/ (\E op \in Runs : Start(op)) \/ Ask \/ Take
    BY <1>1, <2>1 DEF finish, Start, Ask, Take, GiveBack, planvars
  <2>2. CASE Build
    <3>1. work.op \in Runs  BY <2>2 DEF Build
    <3>2. QED  BY <2>2, <3>1, BuildStep
  <2>3. ASSUME NEW r \in Runs,
               \/ \E from \in Runs, id \in DOMAIN run[r].tensors : fill_from(r, from, id)
               \/ \E id \in DOMAIN run[r].tensors, new \in EditTensors : EditTensor(r, id, new)
               \/ \E i, j \in DOMAIN run[r].tensors : SwapTensors(r, i, j)
        PROVE  PlaceInv'
    BY <2>3, MoveStep, EditTensorStep, SwapStep
  <2>4. QED  BY <1>3, <2>1, <2>2, <2>3, RunStep, ApplyStep DEF PlannerStep
<1>4. QED  BY <1>2, <1>3 DEF Next

\* A plan builds one of its runs at a time.
WorkOK == work \in [op : Runs \cup {"idle"}, at : Nat]

LEMMA WorkTyped == Spec => []WorkOK
<1> DEFINE I == work \in [op : Runs \cup {"idle"}, at : Nat]
<1>1. Init => I  BY DEF Init
<1>2. I /\ [Next]_vars => I'
  <2> SUFFICES ASSUME I, [Next]_vars PROVE I'  OBVIOUS
  <2>1. CASE UNCHANGED work  BY <2>1
  <2>2. ASSUME NEW op \in Runs, Start(op) PROVE I'  BY <2>2 DEF Start
  <2>3. CASE Take  BY <2>3 DEF Take, GiveBack
  <2>4. CASE Build  BY <2>4 DEF Build, GiveBack
  <2>5. ASSUME NEW r \in Runs,
               \/ \E from \in Runs, id \in DOMAIN run[r].tensors : fill_from(r, from, id)
               \/ \E id \in DOMAIN run[r].tensors, new \in EditTensors : EditTensor(r, id, new)
               \/ \E i, j \in DOMAIN run[r].tensors : SwapTensors(r, i, j)
               \/ \E c \in DOMAIN run[r].nodes, new \in EditNodes : EditNode(r, c, new)
               \/ bind(r) \/ Unbind(r) \/ execute(r) \/ apply_dynamics(r) \/ capture(r) \/ release(r)
        PROVE  UNCHANGED work
    BY <2>5 DEF fill_from, EditTensor, SwapTensors, EditNode, edit, bind, Unbind, execute,
                apply_dynamics, capture, release
  <2>6. CASE finish \/ Ask \/ (\E f \in Fields : read_dynamic(f)) \/ (\E c \in Calls : set_meta(c))
             \/ ReturnApply
    BY <2>1, <2>6 DEF finish, Ask, planvars, read_dynamic, set_meta, ReturnApply
  <2>7. CASE PlannerStep
    BY <2>1, <2>2, <2>3, <2>4, <2>5, <2>6, <2>7 DEF PlannerStep
  <2>8. CASE UNCHANGED vars \/ CellStepOfAny \/ \E t \in Threads, c \in DOMAIN Inputs : Read(t, c)
    BY <2>1, <2>8 DEF vars, planvars, CellStepOfAny, Read
  <2>9. QED  BY <2>7, <2>8 DEF Next
<1>3. I => WorkOK  BY DEF WorkOK
<1>4. QED  BY <1>1, <1>2, <1>3, PTL DEF Spec

LEMMA WorkOp == Spec => [](work.op \in Runs \cup {"idle"})
<1>1. WorkOK => work.op \in Runs \cup {"idle"}  BY DEF WorkOK
<1>2. QED  BY <1>1, WorkTyped, PTL

\* A live tensor is in one place of one run, for any plans and edits, however often
\* tensors move between the runs.
THEOREM TensorsMove == Spec => []OnePlace
<1>1. PlaceInv => OnePlace  BY DEF PlaceInv, Apart, OnePlace
<1>2. QED  BY <1>1, PlaceInit, PlaceNext, WorkOp, PTL DEF Spec

-----------------------------------------------------------------------------
\* Captured runs.

\* Nodes are nodes: setting a meta leaves the shader.
AreNodes(ns) == DOMAIN ns = Calls /\ \A c \in Calls : DOMAIN ns[c] = {"shader", "meta"}

Captured(q) == q.st \in {"captured", "replaying"}

\* The run has what the graph recorded.
AsRecorded(q, rec) ==
    Captured(q) => /\ Whole(q) /\ q.tensors = rec.tensors
                   /\ \A c \in Calls : q.nodes[c].shader = rec.nodes[c].shader

RunKept(q, rec) ==
    /\ DOMAIN q = RunFields
    /\ q.st # "none" => AreNodes(q.nodes)
    /\ AsRecorded(q, rec)

RecordInv ==
    /\ DOMAIN run = Runs /\ DOMAIN recorded = Runs
    /\ \A r \in Runs : RunKept(run[r], recorded[r])

\* A step that keeps the runs it changes keeps all.
LEMMA AllKept ==
    ASSUME RecordInv, plan' = plan, DOMAIN run' = Runs, DOMAIN recorded' = Runs,
           \A p \in Runs : \/ run'[p] = run[p] /\ recorded'[p] = recorded[p]
                           \/ RunKept(run'[p], recorded'[p])
    PROVE  RecordInv'
<1>1. \A p \in Runs : RunKept(run'[p], recorded'[p])  BY DEF RecordInv
<1>2. \A x, y : RunKept(x, y) => RunKept(x, y)'
  BY DEF RunKept, AreNodes, AsRecorded, Whole, Ids, Calls
<1>3. QED  BY <1>1, <1>2 DEF RecordInv

\* A run that is open after a step, with nodes as they should be, needs no more.
LEMMA OpenKept ==
    ASSUME NEW q, NEW rec, DOMAIN q = RunFields, AreNodes(q.nodes), ~ Captured(q)
    PROVE  RunKept(q, rec)
BY DEF RunKept, AsRecorded

LEMMA KeptFill ==
    ASSUME RecordInv, NEW to \in Runs, NEW from \in Runs, NEW id, fill_from(to, from, id)
    PROVE  RecordInv'
<1> DEFINE hollow == run[to].tensors[id]
           live == run[from].tensors[id]
<1>1. /\ run' = [run EXCEPT ![to].tensors[id] = live, ![from].tensors[id] = hollow]
      /\ run[to].st = "open" /\ run[from].st = "open" /\ plan' = plan /\ recorded' = recorded
  BY DEF fill_from, Open
<1> HIDE DEF hollow, live
<1>2. DOMAIN run = Runs /\ DOMAIN recorded = Runs
      /\ \A p \in {to, from} : DOMAIN run[p] = RunFields /\ AreNodes(run[p].nodes)
  BY <1>1 DEF RecordInv, RunKept
<1>3. /\ DOMAIN run' = Runs /\ \A p \in Runs \ {to, from} : run'[p] = run[p]
      /\ \A p \in {to, from} : run'[p].st = "open" /\ DOMAIN run'[p] = RunFields
                               /\ run'[p].nodes = run[p].nodes
  BY <1>1, <1>2 DEF RunFields
<1>4. \A p \in {to, from} : RunKept(run'[p], recorded'[p])
  BY <1>2, <1>3, OpenKept DEF Captured
<1>5. QED  BY <1>1, <1>2, <1>3, <1>4, AllKept

LEMMA KeptEdit ==
    ASSUME RecordInv, NEW r \in Runs, NEW ts, NEW ns, edit(r, ts, ns),
           AreNodes(run[r].nodes) => AreNodes(ns)
    PROVE  RecordInv'
<1>1. run' = [run EXCEPT ![r] = [run[r] EXCEPT !.tensors = ts, !.nodes = ns]]
      /\ run[r].st = "open" /\ plan' = plan /\ recorded' = recorded
  BY DEF edit, Open
<1>2. DOMAIN run = Runs /\ DOMAIN recorded = Runs /\ DOMAIN run[r] = RunFields /\ AreNodes(ns)
  BY <1>1 DEF RecordInv, RunKept
<1>3. /\ DOMAIN run' = Runs /\ \A p \in Runs \ {r} : run'[p] = run[p]
      /\ run'[r].st = "open" /\ DOMAIN run'[r] = RunFields /\ run'[r].nodes = ns
  BY <1>1, <1>2 DEF RunFields
<1>4. RunKept(run'[r], recorded'[r])  BY <1>2, <1>3, OpenKept DEF Captured
<1>5. QED  BY <1>1, <1>2, <1>3, <1>4, AllKept

LEMMA KeptEdits ==
    ASSUME RecordInv, NEW r \in Runs,
           \/ \E id \in DOMAIN run[r].tensors, new \in EditTensors : EditTensor(r, id, new)
           \/ \E i, j \in DOMAIN run[r].tensors : SwapTensors(r, i, j)
           \/ \E c \in DOMAIN run[r].nodes, new \in EditNodes : EditNode(r, c, new)
    PROVE  RecordInv'
<1>1. ASSUME NEW id \in DOMAIN run[r].tensors, NEW new \in EditTensors, EditTensor(r, id, new)
      PROVE  RecordInv'
  <2>1. \E ts : edit(r, ts, run[r].nodes)  BY <1>1 DEF EditTensor
  <2>2. QED  BY <2>1, KeptEdit
<1>2. ASSUME NEW i, NEW j, SwapTensors(r, i, j)
      PROVE  RecordInv'
  <2>1. \E ts : edit(r, ts, run[r].nodes)  BY <1>2 DEF SwapTensors
  <2>2. QED  BY <2>1, KeptEdit
<1>3. ASSUME NEW c \in DOMAIN run[r].nodes, NEW new \in EditNodes, EditNode(r, c, new)
      PROVE  RecordInv'
  <2> DEFINE ns == [run[r].nodes EXCEPT ![c] = new]
  <2>1. AreNodes(run[r].nodes) => AreNodes(ns)  BY EditsAssumption DEF AreNodes
  <2>2. edit(r, run[r].tensors, ns)  BY <1>3 DEF EditNode
  <2> HIDE DEF ns
  <2>3. QED  BY <2>1, <2>2, KeptEdit
<1>4. QED  BY <1>1, <1>2, <1>3

LEMMA KeptBuild ==
    ASSUME RecordInv, work.op \in Runs, Build
    PROVE  RecordInv'
<1> DEFINE op == work.op
           b == Built(op)
<1>1. CASE \E error \in UploadFails(op) \cup NodeFails \cup LengthFails(b) \cup BackendFails : GiveBack(error)
  <2>1. run' = run /\ recorded' = recorded /\ plan' = plan  BY <1>1 DEF GiveBack
  <2>2. QED  BY <2>1, AllKept DEF RecordInv
<1>2. CASE run' = [run EXCEPT ![op] = b] /\ plan' = plan /\ recorded' = recorded
  <2>1. DOMAIN b = RunFields /\ AreNodes(b.nodes) /\ ~ Captured(b)
    BY DEF Built, BuiltNode, RunFields, AreNodes, Captured
  <2> HIDE DEF b
  <2>2. DOMAIN run = Runs /\ DOMAIN recorded = Runs  BY DEF RecordInv
  <2>3. RunKept(b, recorded[op])  BY <2>1, OpenKept
  <2>4. QED  BY <1>2, <2>2, <2>3, AllKept
<1>3. QED  BY <1>1, <1>2 DEF Build

LEMMA KeptScope ==
    ASSUME RecordInv, NEW r \in Runs,
           bind(r) \/ Unbind(r) \/ execute(r) \/ apply_dynamics(r) \/ capture(r) \/ release(r)
    PROVE  RecordInv'
<1>1. DOMAIN run = Runs /\ DOMAIN recorded = Runs /\ DOMAIN run[r] = RunFields
      /\ (run[r].st # "none" => AreNodes(run[r].nodes)) /\ AsRecorded(run[r], recorded[r])
  BY DEF RecordInv, RunKept
<1>2. CASE bind(r) \/ Unbind(r)
  <2>1. /\ plan' = plan /\ recorded' = recorded /\ DOMAIN run' = Runs
        /\ \A p \in Runs \ {r} : run'[p] = run[p]
        /\ DOMAIN run'[r] = RunFields /\ run'[r].nodes = run[r].nodes
        /\ run'[r].tensors = run[r].tensors
        /\ run[r].st # "none" /\ (Captured(run'[r]) => Captured(run[r]))
    BY <1>1, <1>2 DEF bind, Unbind, InScope, Captured, RunFields
  <2>2. RunKept(run'[r], recorded'[r])
    BY <1>1, <2>1 DEF RunKept, AsRecorded, Whole
  <2>3. QED  BY <1>1, <2>1, <2>2, AllKept
<1>3. CASE execute(r) \/ apply_dynamics(r)
  <2>1. run' = run /\ recorded' = recorded /\ plan' = plan  BY <1>3 DEF execute, apply_dynamics
  <2>2. QED  BY <2>1, AllKept DEF RecordInv
<1>4. CASE capture(r)
  <2>1. /\ plan' = plan /\ DOMAIN run' = Runs /\ DOMAIN recorded' = Runs
        /\ \A p \in Runs \ {r} : run'[p] = run[p] /\ recorded'[p] = recorded[p]
        /\ DOMAIN run'[r] = RunFields /\ run'[r].nodes = run[r].nodes
        /\ run'[r].tensors = run[r].tensors /\ recorded'[r] = run[r]
        /\ run[r].st # "none" /\ Whole(run[r])
    BY <1>1, <1>4 DEF capture, Open, RunFields
  <2>2. RunKept(run'[r], recorded'[r])
    BY <1>1, <2>1 DEF RunKept, AsRecorded, Whole
  <2>3. QED  BY <1>1, <2>1, <2>2, AllKept
<1>5. CASE release(r)
  <2>1. /\ plan' = plan /\ DOMAIN run' = Runs /\ DOMAIN recorded' = Runs
        /\ \A p \in Runs \ {r} : run'[p] = run[p] /\ recorded'[p] = recorded[p]
        /\ DOMAIN run'[r] = RunFields /\ run'[r].nodes = run[r].nodes
        /\ run'[r].st = "open" /\ run[r].st # "none"
    BY <1>1, <1>5 DEF release, RunFields
  <2>2. RunKept(run'[r], recorded'[r])  BY <1>1, <2>1, OpenKept DEF Captured
  <2>3. QED  BY <1>1, <2>1, <2>2, AllKept
<1>6. QED  BY <1>2, <1>3, <1>4, <1>5

\* A node's meta is set, its shader stays.
LEMMA KeptApply ==
    ASSUME RecordInv, (\E f \in Fields : read_dynamic(f)) \/ (\E c \in Calls : set_meta(c)) \/ ReturnApply
    PROVE  RecordInv'
<1>1. plan' = plan /\ recorded' = recorded  BY DEF read_dynamic, set_meta, ReturnApply
<1>2. CASE run' = run  BY <1>1, <1>2, AllKept DEF RecordInv
<1>3. ASSUME NEW c \in Calls, run' = [run EXCEPT ![apply.run].nodes[c].meta = NewMeta(c)]
      PROVE  RecordInv'
  <2> DEFINE m == NewMeta(c)
             r == apply.run
  <2>1. run' = [run EXCEPT ![r].nodes[c].meta = m]  BY <1>3
  <2> HIDE DEF m, r
  <2>2. DOMAIN run = Runs /\ DOMAIN recorded = Runs /\ DOMAIN run' = Runs
        /\ \A p \in Runs \ {r} : run'[p] = run[p]
    BY <2>1 DEF RecordInv
  <2>3. ASSUME r \in Runs PROVE RunKept(run'[r], recorded'[r])
    <3>1. RunKept(run[r], recorded[r])  BY <2>3 DEF RecordInv
    <3>2. /\ DOMAIN run'[r] = RunFields /\ run'[r].st = run[r].st /\ run'[r].tensors = run[r].tensors
          /\ run'[r].nodes = [run[r].nodes EXCEPT ![c].meta = m]
      BY <2>1, <2>2, <2>3, <3>1 DEF RunKept, RunFields
    <3>3. AreNodes(run[r].nodes) =>
             AreNodes(run'[r].nodes) /\ \A d \in Calls : run'[r].nodes[d].shader = run[r].nodes[d].shader
      BY <3>2 DEF AreNodes
    <3>4. QED  BY <1>1, <3>1, <3>2, <3>3 DEF RunKept, AsRecorded, Captured, Whole
  <2>4. QED  BY <1>1, <2>2, <2>3, AllKept
<1>4. QED  BY <1>2, <1>3 DEF read_dynamic, set_meta, ReturnApply

LEMMA KeptInit == Init => RecordInv
BY DEF Init, RecordInv, RunKept, AsRecorded, Captured, RunFields, NoRun

LEMMA KeptNext == RecordInv /\ work.op \in Runs \cup {"idle"} /\ [Next]_vars => RecordInv'
<1> SUFFICES ASSUME RecordInv, work.op \in Runs \cup {"idle"}, [Next]_vars PROVE RecordInv'  OBVIOUS
<1>1. ASSUME UNCHANGED <<plan, run, recorded>> PROVE RecordInv'
  BY <1>1, AllKept DEF RecordInv
<1>2. CASE UNCHANGED vars \/ CellStepOfAny \/ \E t \in Threads, c \in DOMAIN Inputs : Read(t, c)
  BY <1>1, <1>2 DEF vars, planvars, CellStepOfAny, Read
<1>3. CASE PlannerStep
  <2>1. CASE finish \/ (\E op \in Runs : Start(op)) \/ Ask \/ Take
    BY <1>1, <2>1 DEF finish, Start, Ask, Take, GiveBack, planvars
  <2>2. CASE Build
    <3>1. work.op \in Runs  BY <2>2 DEF Build
    <3>2. QED  BY <2>2, <3>1, KeptBuild
  <2>3. ASSUME NEW r \in Runs, NEW from \in Runs, NEW id \in DOMAIN run[r].tensors, fill_from(r, from, id)
        PROVE  RecordInv'
    BY <2>3, KeptFill
  <2>4. QED  BY <1>3, <2>1, <2>2, <2>3, KeptEdits, KeptScope, KeptApply DEF PlannerStep
<1>4. QED  BY <1>2, <1>3 DEF Next

\* A captured run's tensors and shaders stay as they were recorded until release,
\* whatever is edited, moved and applied meanwhile.
THEOREM CapturedStays == Spec => []RecordedStay
<1>1. RecordInv => RecordedStay  BY DEF RecordInv, RunKept, AsRecorded, Captured, RecordedStay
<1>2. QED  BY <1>1, KeptInit, KeptNext, WorkOp, PTL DEF Spec

-----------------------------------------------------------------------------
(* What fits.                                                              *)

\* A plan that is built from, or was, is one whose checks passed.
PlannedInv ==
    \/ spec \in {"here", "moved"} \/ work.op # "idle" \/ \E r \in Runs : run[r].st # "none"
    => Planned(plan)

\* p is as q to the checks of kinds and types.
Alike(q, p) ==
    /\ \A id \in Ids : p.tensors[id].kind = q.tensors[id].kind
    /\ \A c \in Calls : p.nodes[c].shader = q.nodes[c].shader

\* What plans are that passed their checks.
LEMMA PlannedCalls ==
    ASSUME plan \in Plans, Planned(plan), NEW c \in Calls
    PROVE  /\ TensorsOf(c) \in Seq(Ids)
           /\ DOMAIN TensorsOf(c) = 1..Len(TensorsOf(c))
           /\ \A i \in DOMAIN TensorsOf(c) : TensorsOf(c)[i] \in Ids
           /\ slot_count(Shaders[plan.calls[c].shader].layout, Len(TensorsOf(c)))
           /\ not_aliased(Shaders[plan.calls[c].shader].layout, TensorsOf(c))
           /\ meta_types(Shaders[plan.calls[c].shader].fields, TypesOf(c))
<1> DEFINE call == plan.calls[c]
<1>1. call \in Range(plan.calls)  BY DEF Range, Calls
<1>2. /\ Range(call.tensors) \subseteq Ids
      /\ slot_count(Shaders[call.shader].layout, Len(call.tensors))
      /\ not_aliased(Shaders[call.shader].layout, call.tensors)
      /\ meta_types(Shaders[call.shader].fields, [i \in DOMAIN call.sources |-> call.sources[i].ty])
  BY <1>1 DEF Planned, Ids
<1>3. call.tensors \in Seq(Range(call.tensors))  BY <1>1, PlansAssumption
<1>4. \A i \in DOMAIN call.tensors : call.tensors[i] \in Range(call.tensors)  BY DEF Range
<1>5. TensorsOf(c) = call.tensors  BY DEF TensorsOf
<1> HIDE DEF call
<1>6. call.tensors \in Seq(Ids)  BY <1>2, <1>3
<1>7. QED  BY <1>2, <1>5, <1>6 DEF TypesOf, call

LEMMA KindsAlike ==
    ASSUME plan \in Plans, Planned(plan), NEW c \in Calls, NEW q, NEW p,
           \A id \in Ids : p.tensors[id].kind = q.tensors[id].kind
    PROVE  KindsOf(p, c) = KindsOf(q, c)
<1>1. \A i \in DOMAIN TensorsOf(c) : TensorsOf(c)[i] \in Ids  BY PlannedCalls
<1>2. QED  BY <1>1 DEF KindsOf

LEMMA FitsAlike ==
    ASSUME plan \in Plans, Planned(plan), NEW q, NEW p, Alike(q, p), Fitting(q)
    PROVE  Fitting(p)
<1> SUFFICES ASSUME NEW c \in Calls
             PROVE  /\ slot_kinds(Shaders[p.nodes[c].shader].layout, KindsOf(p, c))
                    /\ meta_types(Shaders[p.nodes[c].shader].fields, TypesOf(c))
  BY DEF Fitting
<1>1. KindsOf(p, c) = KindsOf(q, c)  BY KindsAlike DEF Alike
<1>2. p.nodes[c].shader = q.nodes[c].shader  BY DEF Alike
<1>3. QED  BY <1>1, <1>2 DEF Fitting

LEMMA ExecutesAlike ==
    ASSUME plan \in Plans, Planned(plan), NEW q, NEW p, NEW c \in Calls, p.nodes = q.nodes,
           \A id \in Ids : p.tensors[id].kind = q.tensors[id].kind /\ p.tensors[id].len = q.tensors[id].len
    PROVE  Executed(p, c) = Executed(q, c)
<1>1. KindsOf(p, c) = KindsOf(q, c)  BY KindsAlike
<1>2. LongEnough(p, c) <=> LongEnough(q, c)
  <2>1. \A i \in DOMAIN TensorsOf(c) : TensorsOf(c)[i] \in Ids  BY PlannedCalls
  <2>2. QED  BY <2>1 DEF LongEnough, long_enough
<1>3. QED  BY <1>1, <1>2 DEF Executed

\* A run as it was built fits.
LEMMA BuiltFits ==
    ASSUME plan \in Plans, Planned(plan), NEW op \in Runs
    PROVE  Fitting(Built(op))
<1> DEFINE b == Built(op)
<1> SUFFICES ASSUME NEW c \in Calls
             PROVE  /\ slot_kinds(Shaders[b.nodes[c].shader].layout, KindsOf(b, c))
                    /\ meta_types(Shaders[b.nodes[c].shader].fields, TypesOf(c))
  BY DEF Fitting
<1> DEFINE call == plan.calls[c]
<1>1. b.nodes[c].shader = call.shader  BY DEF Built, BuiltNode
<1>2. \A id \in Ids : b.tensors[id].kind = plan.tensors[id].kind  BY DEF Built, BuiltTensor
<1> HIDE DEF b
<1>3. \A i \in DOMAIN TensorsOf(c) : TensorsOf(c)[i] \in Ids  BY PlannedCalls
<1>4. KindsOf(b, c) = [i \in DOMAIN call.tensors |-> plan.tensors[call.tensors[i]].kind]
  BY <1>2, <1>3 DEF KindsOf, TensorsOf
<1>5. call \in Range(plan.calls)  BY DEF Range, Calls
<1>6. slot_kinds(Shaders[call.shader].layout, KindsOf(b, c))  BY <1>4, <1>5 DEF Planned
<1>7. meta_types(Shaders[call.shader].fields, TypesOf(c))  BY PlannedCalls
<1>8. QED  BY <1>1, <1>6, <1>7

\* Of a run that fits, only lengths and aliases are left to refuse.
LEMMA FitExecutes ==
    ASSUME plan \in Plans, Planned(plan), NEW q, Fitting(q), NEW c \in Calls
    PROVE  /\ Executed(q, c) \in {Ok, "TooShort", "Aliased"}
           /\ LongEnough(q, c) /\ not_aliased(Shaders[q.nodes[c].shader].layout, TensorsOf(c)) =>
                 Executed(q, c) = Ok
<1> DEFINE layout == Shaders[q.nodes[c].shader].layout
<1>1. slot_kinds(layout, KindsOf(q, c))  BY DEF Fitting
<1>2. Len(KindsOf(q, c)) = Len(TensorsOf(c))
  <2>1. TensorsOf(c) \in Seq(Ids) /\ DOMAIN TensorsOf(c) = 1..Len(TensorsOf(c))  BY PlannedCalls
  <2>2. DOMAIN KindsOf(q, c) = 1..Len(TensorsOf(c)) /\ Len(TensorsOf(c)) \in Nat
    BY <2>1 DEF KindsOf
  <2>3. KindsOf(q, c) \in Seq({KindsOf(q, c)[i] : i \in DOMAIN KindsOf(q, c)})
    <3>1. KindsOf(q, c) = [i \in 1..Len(TensorsOf(c)) |-> q.tensors[TensorsOf(c)[i]].kind]
      BY <2>1 DEF KindsOf
    <3>2. QED  BY <2>2, <3>1
  <2>4. QED  BY <2>2, <2>3
<1>3. slot_count(layout, Len(TensorsOf(c)))  BY <1>1, <1>2 DEF slot_kinds
<1>4. QED  BY <1>1, <1>3 DEF Executed, Ok

-----------------------------------------------------------------------------
\* What steps leave of the runs.

\* No run is new, and each that was there has what the checks look at.
RunsAlike ==
    \A r \in Runs : run'[r].st # "none" => run[r].st # "none" /\ Alike(run[r], run'[r])

\* Tensors that change places have the same kind and length.
LEMMA FillAlike ==
    ASSUME PlaceInv, NEW to \in Runs, NEW from \in Runs, NEW id, fill_from(to, from, id),
           id \in DOMAIN run[to].tensors
    PROVE  \A r \in Runs :
              /\ run'[r].st = run[r].st /\ run'[r].nodes = run[r].nodes /\ run'[r].bound = run[r].bound
              /\ \A i \in Ids :
                    /\ run'[r].tensors[i].kind = run[r].tensors[i].kind
                    /\ run'[r].tensors[i].len = run[r].tensors[i].len
<1> DEFINE hollow == run[to].tensors[id]
           live == run[from].tensors[id]
<1>1. /\ to # from /\ hollow.kind = live.kind /\ hollow.len = live.len
      /\ run[to].st = "open" /\ run[from].st = "open"
      /\ run' = [run EXCEPT ![to].tensors[id] = live, ![from].tensors[id] = hollow]
  BY DEF fill_from, Open, same_kind, same_len
<1>2. IsRuns(run) /\ DOMAIN run[to].tensors = Ids /\ DOMAIN run[from].tensors = Ids /\ id \in Ids
  BY <1>1 DEF PlaceInv, Full
<1>3. hollow = run[to].tensors[id] /\ live = run[from].tensors[id]  OBVIOUS
<1> HIDE DEF hollow, live
<1>4. /\ run'[to].tensors = [run[to].tensors EXCEPT ![id] = live]
      /\ run'[from].tensors = [run[from].tensors EXCEPT ![id] = hollow]
      /\ \A r \in Runs : run'[r].st = run[r].st /\ run'[r].nodes = run[r].nodes /\ run'[r].bound = run[r].bound
      /\ \A r \in Runs \ {to, from} : run'[r].tensors = run[r].tensors
  BY <1>1, <1>2 DEF IsRuns, RunFields
<1>5. \A i \in Ids : /\ run'[to].tensors[i].kind = run[to].tensors[i].kind
                     /\ run'[to].tensors[i].len = run[to].tensors[i].len
  BY <1>1, <1>2, <1>3, <1>4
<1>6. \A i \in Ids : /\ run'[from].tensors[i].kind = run[from].tensors[i].kind
                     /\ run'[from].tensors[i].len = run[from].tensors[i].len
  BY <1>1, <1>2, <1>3, <1>4
<1>7. QED  BY <1>4, <1>5, <1>6

MetaSet(r, c, m) == run' = [run EXCEPT ![r].nodes[c].meta = m]

LEMMA SetMetaKeeps ==
    ASSUME RecordInv, NEW c \in Calls, NEW m, NEW r, MetaSet(r, c, m)
    PROVE  /\ RunsAlike
           /\ \A p \in Runs : run'[p].st = run[p].st /\ run'[p].bound = run[p].bound
           /\ \A p \in Runs \ {r} : run'[p] = run[p]
           /\ r \in Runs /\ run[r].st # "none" =>
                 /\ DOMAIN run'[r].nodes = Calls /\ run'[r].nodes[c].meta = m
                 /\ \A d \in Calls \ {c} : run'[r].nodes[d] = run[r].nodes[d]
<1>1. DOMAIN run = Runs /\ \A p \in Runs : RunKept(run[p], recorded[p])  BY DEF RecordInv
<1>2. \A p \in Runs \ {r} : run'[p] = run[p]  BY <1>1 DEF MetaSet
<1>3. ASSUME r \in Runs
      PROVE  /\ run'[r].st = run[r].st /\ run'[r].bound = run[r].bound /\ run'[r].tensors = run[r].tensors
             /\ run[r].st # "none" =>
                   /\ DOMAIN run'[r].nodes = Calls /\ run'[r].nodes[c].meta = m
                   /\ run'[r].nodes[c].shader = run[r].nodes[c].shader
                   /\ \A d \in Calls \ {c} : run'[r].nodes[d] = run[r].nodes[d]
  <2>1. DOMAIN run[r] = RunFields /\ (run[r].st # "none" => AreNodes(run[r].nodes))
    BY <1>1, <1>3 DEF RunKept
  <2>2. /\ run'[r].st = run[r].st /\ run'[r].bound = run[r].bound /\ run'[r].tensors = run[r].tensors
        /\ run'[r].nodes = [run[r].nodes EXCEPT ![c].meta = m]
    BY <1>1, <1>3, <2>1 DEF MetaSet, RunFields
  <2>3. QED  BY <2>1, <2>2 DEF AreNodes
<1>4. RunsAlike
  <2> SUFFICES ASSUME NEW p \in Runs, run'[p].st # "none"
               PROVE  run[p].st # "none" /\ Alike(run[p], run'[p])
    BY DEF RunsAlike
  <2>1. CASE p # r  BY <1>2, <2>1 DEF Alike
  <2>2. CASE p = r  BY <1>3, <2>2 DEF Alike
  <2>3. QED  BY <2>1, <2>2
<1>5. QED  BY <1>2, <1>3, <1>4

LEMMA ScopeAlike ==
    ASSUME RecordInv, NEW r \in Runs,
           bind(r) \/ Unbind(r) \/ execute(r) \/ apply_dynamics(r) \/ capture(r) \/ release(r)
    PROVE  /\ RunsAlike
           /\ \A p \in Runs : run'[p].nodes = run[p].nodes /\ run'[p].tensors = run[p].tensors
<1>1. DOMAIN run = Runs /\ DOMAIN run[r] = RunFields  BY DEF RecordInv, RunKept
<1>2. /\ \A p \in Runs : run'[p].nodes = run[p].nodes /\ run'[p].tensors = run[p].tensors
      /\ \A p \in Runs : run'[p].st # "none" => run[p].st # "none"
  <2>1. CASE execute(r) \/ apply_dynamics(r)  BY <2>1 DEF execute, apply_dynamics
  <2>2. CASE bind(r) \/ Unbind(r)  BY <1>1, <2>2 DEF bind, Unbind, InScope, RunFields
  <2>3. CASE capture(r) \/ release(r)  BY <1>1, <2>3 DEF capture, release, Open, RunFields
  <2>4. QED  BY <2>1, <2>2, <2>3
<1>3. QED  BY <1>2 DEF RunsAlike, Alike

\* What an edit puts in a run's place.
LEMMA EditedRun ==
    ASSUME RecordInv, NEW r \in Runs, NEW ts, NEW ns, edit(r, ts, ns)
    PROVE  LET edited == [run[r] EXCEPT !.tensors = ts, !.nodes = ns] IN
           /\ run[r].st = "open" /\ run'[r] = edited /\ run'[r].st = "open"
           /\ \A p \in Runs \ {r} : run'[p] = run[p]
           /\ fits' = IF Fitting(edited) THEN fits \cup {r} ELSE fits \ {r}
<1>1. DOMAIN run = Runs /\ DOMAIN run[r] = RunFields  BY DEF RecordInv, RunKept
<1>2. QED  BY <1>1 DEF edit, Open, RunFields

LEMMA EditIs ==
    ASSUME NEW r \in Runs,
           \/ \E id \in DOMAIN run[r].tensors, new \in EditTensors : EditTensor(r, id, new)
           \/ \E i, j \in DOMAIN run[r].tensors : SwapTensors(r, i, j)
           \/ \E c \in DOMAIN run[r].nodes, new \in EditNodes : EditNode(r, c, new)
    PROVE  \E ts, ns : edit(r, ts, ns)
BY DEF EditTensor, SwapTensors, EditNode

\* Build fails with an error and gives back, or makes a run that passes every check.
LEMMA BuildCases ==
    ASSUME Build
    PROVE  \/ /\ \E error : error # Ok /\ GiveBack(error)
           \/ /\ UploadFails(work.op) = {} /\ NodeFails = {} /\ LengthFails(Built(work.op)) = {}
              /\ run' = [run EXCEPT ![work.op] = Built(work.op)]
              /\ work' = [op |-> "idle", at |-> 0] /\ result' = Result(work.op, Ok)
              /\ UNCHANGED <<plan, fits, apply>>
<1> DEFINE op == work.op
           b == Built(op)
           errors == UploadFails(op) \cup NodeFails \cup LengthFails(b)
<1>1. Ok \notin errors \cup BackendFails
  BY DEF UploadFails, NodeFails, LengthFails, BackendFails, Ok
<1>2. CASE \E error \in errors \cup BackendFails : GiveBack(error)
  <2>1. PICK error \in errors \cup BackendFails : GiveBack(error)  BY <1>2
  <2> HIDE DEF errors
  <2>2. error # Ok  BY <1>1, <2>1
  <2>3. QED  BY <2>1, <2>2
<1>3. CASE /\ errors = {} /\ run' = [run EXCEPT ![op] = b]
           /\ work' = [op |-> "idle", at |-> 0] /\ result' = Result(op, Ok)
           /\ UNCHANGED <<plan, fits, apply>>
  BY <1>3
<1>4. QED  BY <1>2, <1>3 DEF Build

\* The steps, as far as the planner's state tells them apart.
LEMMA StepIs ==
    ASSUME [Next]_vars
    PROVE  \/ UNCHANGED planvars
           \/ finish
           \/ \E op \in Runs : Start(op)
           \/ Take
           \/ Build
           \/ \E to \in Runs : \E from \in Runs, id \in DOMAIN run[to].tensors : fill_from(to, from, id)
           \/ \E r \in Runs : \E ts, ns : edit(r, ts, ns)
           \/ \E r \in Runs : bind(r) \/ Unbind(r) \/ execute(r) \/ apply_dynamics(r) \/ capture(r) \/ release(r)
           \/ \E f \in Fields : read_dynamic(f)
           \/ \E c \in Calls : set_meta(c)
           \/ ReturnApply
<1>1. CASE UNCHANGED vars \/ CellStepOfAny \/ \E t \in Threads, c \in DOMAIN Inputs : Read(t, c)
  BY <1>1 DEF vars, CellStepOfAny, Read
<1>2. CASE Ask  BY <1>2 DEF Ask
<1>3. QED  BY <1>1, <1>2, EditIs DEF Next, PlannerStep

-----------------------------------------------------------------------------
\* A plan that anything was built of passed its checks.

LEMMA PlannedStays ==
    ASSUME PlannedInv, plan' = plan,
           spec' = spec \/ work.op # "idle",
           work'.op = work.op \/ work'.op = "idle",
           \A r \in Runs : run'[r].st # "none" => run[r].st # "none" \/ work.op # "idle"
    PROVE  PlannedInv'
BY DEF PlannedInv

LEMMA PlannedInit == Init => PlannedInv
BY DEF Init, PlannedInv, NoRun

LEMMA PlannedNext ==
    ASSUME PlaceInv, RecordInv, WorkOK, PlannedInv, [Next]_vars
    PROVE  PlannedInv'
<1>1. CASE UNCHANGED planvars  BY <1>1 DEF PlannedInv, planvars
<1>2. CASE finish  BY <1>2 DEF finish, PlannedInv
<1>3. ASSUME NEW op \in Runs, Start(op) PROVE PlannedInv'  BY <1>3 DEF Start, PlannedInv
<1>4. CASE Take
  <2>1. work.op # "idle"  BY <1>4 DEF Take
  <2>2. plan' = plan /\ run' = run /\ spec' = spec  BY <1>4 DEF Take, GiveBack
  <2>3. work'.op \in {"idle", work.op}
    <3>1. work' = [op |-> "idle", at |-> 0] \/ work' = [work EXCEPT !.at = @ + 1]
      BY <1>4 DEF Take, GiveBack
    <3>2. QED  BY <3>1 DEF WorkOK
  <2>4. QED  BY <2>2, <2>3, PlannedStays
<1>5. CASE Build
  <2>1. work.op # "idle"  BY <1>5 DEF Build
  <2>2. plan' = plan /\ work'.op = "idle"  BY <1>5, BuildCases DEF GiveBack
  <2>3. QED  BY <2>1, <2>2, PlannedStays
<1>6. ASSUME NEW to \in Runs, NEW from \in Runs, NEW id \in DOMAIN run[to].tensors, fill_from(to, from, id)
      PROVE  PlannedInv'
  <2>1. plan' = plan /\ spec' = spec /\ work' = work  BY <1>6 DEF fill_from
  <2>2. \A r \in Runs : run'[r].st = run[r].st  BY <1>6, FillAlike
  <2>3. QED  BY <2>1, <2>2, PlannedStays
<1>7. ASSUME NEW r \in Runs, NEW ts, NEW ns, edit(r, ts, ns) PROVE PlannedInv'
  <2>1. plan' = plan /\ spec' = spec /\ work' = work  BY <1>7 DEF edit
  <2>2. \A p \in Runs : run'[p].st = run[p].st  BY <1>7, EditedRun
  <2>3. QED  BY <2>1, <2>2, PlannedStays
<1>8. ASSUME NEW r \in Runs,
             bind(r) \/ Unbind(r) \/ execute(r) \/ apply_dynamics(r) \/ capture(r) \/ release(r)
      PROVE  PlannedInv'
  <2>1. plan' = plan /\ spec' = spec /\ work' = work
    BY <1>8 DEF bind, Unbind, execute, apply_dynamics, capture, release
  <2>2. RunsAlike  BY <1>8, ScopeAlike
  <2>3. QED  BY <2>1, <2>2, PlannedStays DEF RunsAlike
<1>9. ASSUME (\E f \in Fields : read_dynamic(f)) \/ (\E c \in Calls : set_meta(c)) \/ ReturnApply
      PROVE  PlannedInv'
  <2>1. plan' = plan /\ spec' = spec /\ work' = work
    BY <1>9 DEF read_dynamic, set_meta, ReturnApply
  <2>2. \A r \in Runs : run'[r].st # "none" => run[r].st # "none"
    <3>1. CASE run' = run  BY <3>1
    <3>2. ASSUME NEW c \in Calls, run' = [run EXCEPT ![apply.run].nodes[c].meta = NewMeta(c)]
          PROVE  RunsAlike
      <4>1. MetaSet(apply.run, c, NewMeta(c))  BY <3>2 DEF MetaSet
      <4>2. QED  BY <4>1, SetMetaKeeps
    <3>3. QED  BY <1>9, <3>1, <3>2 DEF RunsAlike, read_dynamic, set_meta, ReturnApply
  <2>3. QED  BY <2>1, <2>2, PlannedStays
<1>10. QED  BY <1>1, <1>2, <1>3, <1>4, <1>5, <1>6, <1>7, <1>8, <1>9, StepIs

-----------------------------------------------------------------------------
\* Calls fit.

LEMMA FittingStays == plan' = plan => \A q : Fitting(q) => Fitting(q)'
BY DEF Fitting, Calls, KindsOf, TensorsOf, TypesOf

LEMMA FitsStay ==
    ASSUME PlaceInv, PlannedInv, CallsFit, plan' = plan, RunsAlike, fits' = fits, fits \subseteq Runs
    PROVE  CallsFit'
<1>1. ASSUME NEW r \in fits, run'[r].st # "none" PROVE Fitting(run'[r])
  <2>1. run[r].st # "none" /\ Alike(run[r], run'[r]) /\ r \in Runs  BY <1>1 DEF RunsAlike
  <2>2. Fitting(run[r])  BY <1>1, <2>1 DEF CallsFit
  <2>3. plan \in Plans /\ Planned(plan)  BY <2>1 DEF PlaceInv, PlannedInv
  <2>4. QED  BY <2>1, <2>2, <2>3, FitsAlike
<1>2. QED  BY <1>1, FittingStays DEF CallsFit

FitInv == fits \subseteq Runs /\ CallsFit

LEMMA FitInit == Init => FitInv
BY DEF Init, FitInv, CallsFit, NoRun

LEMMA FitNext ==
    ASSUME PlaceInv, RecordInv, WorkOK, PlannedInv, FitInv, [Next]_vars
    PROVE  FitInv'
<1>0. ASSUME plan' = plan, RunsAlike, fits' = fits PROVE FitInv'
  BY <1>0, FitsStay DEF FitInv
<1>1. ASSUME plan' = plan, run' = run, fits' = fits PROVE FitInv'
  <2>1. RunsAlike  BY <1>1 DEF RunsAlike, Alike
  <2>2. QED  BY <1>0, <1>1, <2>1
<1>2. CASE UNCHANGED planvars \/ finish \/ Take \/ \E op \in Runs : Start(op)
  BY <1>1, <1>2 DEF planvars, finish, Take, GiveBack, Start
<1>3. CASE Build
  <2>1. CASE \E error : GiveBack(error)  BY <1>1, <2>1 DEF GiveBack
  <2>2. CASE run' = [run EXCEPT ![work.op] = Built(work.op)] /\ UNCHANGED <<plan, fits, apply>>
    <3> DEFINE op == work.op
               b == Built(op)
    <3>1. op \in Runs /\ work.op # "idle"  BY <1>3 DEF Build, WorkOK
    <3>2. plan \in Plans /\ Planned(plan)  BY <3>1 DEF PlaceInv, PlannedInv
    <3>3. Fitting(b)  BY <3>1, <3>2, BuiltFits
    <3> HIDE DEF b, op
    <3>4. DOMAIN run = Runs /\ run' = [run EXCEPT ![op] = b]  BY <2>2 DEF RecordInv, op, b
    <3>5. ASSUME NEW r \in fits, run'[r].st # "none" PROVE Fitting(run'[r])
      <4>1. CASE r = op  BY <3>1, <3>3, <3>4, <4>1
      <4>2. CASE r # op  BY <3>4, <3>5, <4>2 DEF FitInv, CallsFit
      <4>3. QED  BY <4>1, <4>2
    <3>6. QED  BY <2>2, <3>5, FittingStays DEF FitInv, CallsFit
  <2>3. QED  BY <1>3, <2>1, <2>2, BuildCases
<1>4. ASSUME NEW to \in Runs, NEW from \in Runs, NEW id \in DOMAIN run[to].tensors, fill_from(to, from, id)
      PROVE  FitInv'
  <2>1. plan' = plan /\ fits' = fits  BY <1>4 DEF fill_from
  <2>2. RunsAlike  BY <1>4, FillAlike DEF RunsAlike, Alike
  <2>3. QED  BY <1>0, <2>1, <2>2
<1>5. ASSUME NEW r \in Runs, NEW ts, NEW ns, edit(r, ts, ns) PROVE FitInv'
  <2> DEFINE edited == [run[r] EXCEPT !.tensors = ts, !.nodes = ns]
  <2>1. /\ run'[r] = edited /\ \A p \in Runs \ {r} : run'[p] = run[p]
        /\ fits' = IF Fitting(edited) THEN fits \cup {r} ELSE fits \ {r}
    BY <1>5, EditedRun
  <2> HIDE DEF edited
  <2>2. ASSUME NEW p \in fits', run'[p].st # "none" PROVE Fitting(run'[p])
    <3>1. CASE p = r  BY <2>1, <2>2, <3>1
    <3>2. CASE p # r  BY <2>1, <2>2, <3>2 DEF FitInv, CallsFit
    <3>3. QED  BY <3>1, <3>2
  <2>3. plan' = plan  BY <1>5 DEF edit
  <2>4. QED  BY <2>1, <2>2, <2>3, FittingStays DEF FitInv, CallsFit
<1>6. ASSUME NEW r \in Runs,
             bind(r) \/ Unbind(r) \/ execute(r) \/ apply_dynamics(r) \/ capture(r) \/ release(r)
      PROVE  FitInv'
  <2>1. plan' = plan /\ fits' = fits
    BY <1>6 DEF bind, Unbind, execute, apply_dynamics, capture, release
  <2>2. QED  BY <1>0, <1>6, <2>1, ScopeAlike
<1>7. ASSUME (\E f \in Fields : read_dynamic(f)) \/ (\E c \in Calls : set_meta(c)) \/ ReturnApply
      PROVE  FitInv'
  <2>1. plan' = plan /\ fits' = fits  BY <1>7 DEF read_dynamic, set_meta, ReturnApply
  <2>2. ASSUME NEW c \in Calls, run' = [run EXCEPT ![apply.run].nodes[c].meta = NewMeta(c)]
        PROVE  RunsAlike
    <3>1. MetaSet(apply.run, c, NewMeta(c))  BY <2>2 DEF MetaSet
    <3>2. QED  BY <3>1, SetMetaKeeps
  <2>3. QED  BY <1>0, <1>1, <1>7, <2>1, <2>2 DEF read_dynamic, set_meta, ReturnApply
<1>8. QED  BY <1>2, <1>3, <1>4, <1>5, <1>6, <1>7, StepIs

LEMMA FitHolds == Spec => [](PlaceInv /\ RecordInv /\ WorkOK /\ PlannedInv /\ FitInv)
<1> DEFINE I == PlaceInv /\ RecordInv /\ WorkOK
           J == PlannedInv /\ FitInv
<1>1. Spec => []I
  <2>1. WorkOK => work.op \in Runs \cup {"idle"}  BY DEF WorkOK
  <2>2. QED  BY <2>1, PlaceInit, PlaceNext, KeptInit, KeptNext, WorkTyped, PTL DEF Spec
<1>2. Init => J  BY PlannedInit, FitInit
<1>3. I /\ J /\ [Next]_vars => J'  BY PlannedNext, FitNext
<1>4. QED  BY <1>1, <1>2, <1>3, PTL DEF Spec

\* Every call of a run fits its tensors in count and kind and its sources in type, until
\* an edit of that run reports otherwise; so do calls whose tensors came from a run that
\* was edited (Run::edit, fill_from).
THEOREM CallsKeepFitting == Spec => []CallsFit
<1>1. FitInv => CallsFit  BY DEF FitInv
<1>2. QED  BY <1>1, FitHolds, PTL

\* An execute or a replay of a run that fits refuses a call for a length or an alias only.
THEOREM LengthsOnly == Spec => []OnlyTooShort
<1>1. PlaceInv /\ PlannedInv /\ FitInv => OnlyTooShort
  <2> SUFFICES ASSUME PlaceInv, PlannedInv, FitInv, NEW r \in fits, InScope(r), NEW c \in Calls
               PROVE  Executed(run[r], c) \in {Ok, "TooShort", "Aliased"}
    BY DEF OnlyTooShort
  <2>1. r \in Runs /\ run[r].st # "none"  BY DEF FitInv, InScope
  <2>2. plan \in Plans /\ Planned(plan) /\ Fitting(run[r])
    BY <2>1 DEF PlaceInv, PlannedInv, FitInv, CallsFit
  <2>3. QED  BY <2>2, FitExecutes
<1>2. QED  BY <1>1, FitHolds, PTL
-----------------------------------------------------------------------------
\* apply_dynamics.

\* A meta that kept every field that is not per run.
KeptFields(c, meta, bound) ==
    \/ meta = bound
    \/ \A i \in DOMAIN plan.calls[c].sources \ PerRunFields(c) : meta[i] = bound[i]

\* While a run is bound, its nodes keep those they were bound with.
ScopesKeep ==
    \A r \in Runs : InScope(r) =>
        \A c \in Calls : KeptFields(c, run[r].nodes[c].meta, run[r].bound[c].meta)

\* Nothing is set before everything is read; what is set is what was read.
Applying ==
    /\ work.op = "idle" /\ result.op \notin Runs
    /\ apply.run \in Runs /\ InScope(apply.run)
    /\ apply.todo \subseteq PerRun /\ DOMAIN apply.got \subseteq Fields
    /\ apply.todo # PerRun => DOMAIN apply.got = Fields
    /\ apply.todo = PerRun => run[apply.run].nodes = apply.before
    /\ DOMAIN apply.before = Calls
    /\ \A c \in Calls :
          /\ KeptFields(c, apply.before[c].meta, run[apply.run].bound[c].meta)
          /\ c \in PerRun \ apply.todo => run[apply.run].nodes[c].meta = NewMeta(c)
          /\ c \notin PerRun \ apply.todo => run[apply.run].nodes[c] = apply.before[c]

ApplyInv ==
    /\ DOMAIN apply = {"on", "run", "got", "todo", "before"}
    /\ ScopesKeep
    /\ apply.on => Applying

LEMMA FieldsStay ==
    ASSUME plan' = plan
    PROVE  /\ Calls' = Calls /\ PerRun' = PerRun /\ Fields' = Fields
           /\ \A c, meta, bound : KeptFields(c, meta, bound) => KeptFields(c, meta, bound)'
<1>1. Calls' = Calls /\ \A c : PerRunFields(c)' = PerRunFields(c)  BY DEF Calls, PerRunFields
<1>2. PerRun' = PerRun  BY <1>1 DEF PerRun
<1>3. Fields' = Fields  BY <1>1, <1>2 DEF Fields
<1>4. QED  BY <1>1, <1>2, <1>3 DEF KeptFields

\* Every run keeps its nodes in the scope it is in, or is in none.
LEMMA ScopesStay ==
    ASSUME ScopesKeep, plan' = plan,
           \A r \in Runs : \/ run'[r].st \notin {"bound", "replaying"}
                          \/ /\ run'[r].st = run[r].st
                             /\ run'[r].nodes = run[r].nodes /\ run'[r].bound = run[r].bound
                          \/ run'[r].nodes = run'[r].bound
    PROVE  ScopesKeep'
<1>1. ASSUME NEW r \in Runs, InScope(r)', NEW c \in Calls
      PROVE  KeptFields(c, run'[r].nodes[c].meta, run'[r].bound[c].meta)
  <2>1. CASE run'[r].nodes = run'[r].bound  BY <2>1 DEF KeptFields
  <2>2. CASE run'[r].st = run[r].st /\ run'[r].nodes = run[r].nodes /\ run'[r].bound = run[r].bound
    BY <1>1, <2>2 DEF InScope, ScopesKeep
  <2>3. QED  BY <1>1, <2>1, <2>2 DEF InScope
<1>2. QED  BY <1>1, FieldsStay DEF ScopesKeep

LEMMA ApplyInit == Init => ApplyInv
BY DEF Init, ApplyInv, ScopesKeep, InScope, NoRun

\* A step of a planner that applies nothing.
LEMMA OffStays ==
    ASSUME ApplyInv, ~ apply.on, apply' = apply, plan' = plan, ScopesKeep'
    PROVE  ApplyInv'
BY DEF ApplyInv

LEMMA ApplyBegins ==
    ASSUME RecordInv, ApplyInv, NEW r \in Runs, apply_dynamics(r)
    PROVE  ApplyInv'
<1>1. /\ ~ apply.on /\ work.op = "idle" /\ InScope(r)
      /\ apply' = [on |-> TRUE, run |-> r, got |-> <<>>, todo |-> PerRun, before |-> run[r].nodes]
      /\ result' = Result("run", Ok) /\ UNCHANGED <<plan, work, run>>
  BY DEF apply_dynamics, Idle
<1>2. /\ DOMAIN apply' = {"on", "run", "got", "todo", "before"}
      /\ apply'.run = r /\ apply'.got = <<>> /\ apply'.todo = PerRun /\ apply'.before = run[r].nodes
  BY <1>1
<1>3. ScopesKeep'  BY <1>1, ScopesStay DEF ApplyInv
<1>4. DOMAIN run[r].nodes = Calls  BY <1>1 DEF RecordInv, RunKept, AreNodes, InScope
<1>5. DOMAIN apply'.got = {}  BY <1>2
<1>6. InScope(r)'  BY <1>1 DEF InScope
<1>7. result'.op \notin Runs  BY <1>1 DEF Result, Runs
<1>8. \A c \in Calls : KeptFields(c, run[r].nodes[c].meta, run[r].bound[c].meta)
  BY <1>1 DEF ApplyInv, ScopesKeep
<1>9. Calls' = Calls /\ PerRun' = PerRun
      /\ \A c, meta, bound : KeptFields(c, meta, bound) => KeptFields(c, meta, bound)'
  BY <1>1, FieldsStay
<1>10. Applying'  BY <1>1, <1>2, <1>4, <1>5, <1>6, <1>7, <1>8, <1>9 DEF Applying
<1>11. QED  BY <1>2, <1>3, <1>10 DEF ApplyInv

LEMMA ApplyReads ==
    ASSUME ApplyInv, NEW f \in Fields, read_dynamic(f)
    PROVE  ApplyInv'
<1>1. apply.on /\ Applying /\ UNCHANGED <<plan, work, run>>  BY DEF ApplyInv, read_dynamic
<1>2. ScopesKeep'  BY <1>1, ScopesStay DEF ApplyInv
<1>3. CASE apply' = [apply EXCEPT !.on = FALSE]  BY <1>2, <1>3 DEF ApplyInv
<1>4. ASSUME NEW v, apply' = [apply EXCEPT !.got = [g \in DOMAIN @ \cup {f} |-> IF g = f THEN v ELSE @[g]]],
             result' = result,
             f \notin DOMAIN apply.got
      PROVE  ApplyInv'
  <2>1. /\ DOMAIN apply' = DOMAIN apply /\ apply'.on = apply.on /\ apply'.run = apply.run
        /\ apply'.todo = apply.todo /\ apply'.before = apply.before
        /\ DOMAIN apply'.got = {f} \cup DOMAIN apply.got
    BY <1>4 DEF ApplyInv
  <2>2. apply.todo = PerRun  BY <1>1, <1>4 DEF Applying
  <2>3. run'[apply'.run].st \in {"bound", "replaying"}  BY <1>1, <2>1 DEF InScope, Applying
  <2>4. Calls' = Calls /\ PerRun' = PerRun /\ Fields' = Fields
        /\ \A c, meta, bound : KeptFields(c, meta, bound) => KeptFields(c, meta, bound)'
    BY <1>1, FieldsStay
  <2>5. Applying'  BY <1>1, <1>4, <2>1, <2>2, <2>3, <2>4 DEF Applying, InScope
  <2>6. QED  BY <1>2, <2>1, <2>5 DEF ApplyInv
<1>5. QED  BY <1>3, <1>4 DEF read_dynamic

LEMMA ApplySets ==
    ASSUME RecordInv, ApplyInv, NEW c \in Calls, set_meta(c)
    PROVE  ApplyInv'
<1>1. /\ apply.on /\ Applying /\ c \in apply.todo /\ DOMAIN apply.got = Fields /\ UNCHANGED <<plan, work>>
      /\ c \in PerRun /\ DOMAIN apply = {"on", "run", "got", "todo", "before"}
  BY DEF ApplyInv, set_meta, Applying
<1>2. CASE apply' = [apply EXCEPT !.on = FALSE] /\ UNCHANGED run
  <2>1. ScopesKeep'  BY <1>1, <1>2, ScopesStay DEF ApplyInv
  <2>2. QED  BY <1>1, <1>2, <2>1 DEF ApplyInv
<1>3. CASE /\ run' = [run EXCEPT ![apply.run].nodes[c].meta = NewMeta(c)]
           /\ apply' = [apply EXCEPT !.todo = @ \ {c}] /\ UNCHANGED result
  <2> DEFINE r == apply.run
             m == NewMeta(c)
  <2>1. r \in Runs /\ InScope(r) /\ run[r].st # "none"  BY <1>1 DEF Applying, InScope
  <2>2. m = [i \in DOMAIN plan.calls[c].sources |->
               IF i \in PerRunFields(c) THEN apply.got[<<c, i>>] ELSE run[r].bound[c].meta[i]]
    BY DEF NewMeta
  <2>3. \A i \in DOMAIN plan.calls[c].sources \ PerRunFields(c) : m[i] = run[r].bound[c].meta[i]
    BY <2>2
  <2>4. MetaSet(r, c, m)  BY <1>3 DEF MetaSet
  <2>5. /\ DOMAIN apply' = DOMAIN apply /\ apply'.on = apply.on /\ apply'.run = r
        /\ apply'.got = apply.got /\ apply'.todo = apply.todo \ {c} /\ apply'.before = apply.before
    BY <1>1, <1>3
  <2>6. m = NewMeta(c)  OBVIOUS
  <2> HIDE DEF r, m
  <2>7. /\ \A p \in Runs : run'[p].st = run[p].st /\ run'[p].bound = run[p].bound
        /\ \A p \in Runs \ {r} : run'[p] = run[p]
        /\ run'[r].nodes[c].meta = m
        /\ \A d \in Calls \ {c} : run'[r].nodes[d] = run[r].nodes[d]
    <3>1. /\ RunsAlike
          /\ \A p \in Runs : run'[p].st = run[p].st /\ run'[p].bound = run[p].bound
          /\ \A p \in Runs \ {r} : run'[p] = run[p]
          /\ r \in Runs /\ run[r].st # "none" =>
                /\ DOMAIN run'[r].nodes = Calls /\ run'[r].nodes[c].meta = m
                /\ \A d \in Calls \ {c} : run'[r].nodes[d] = run[r].nodes[d]
      BY <2>4, SetMetaKeeps
    <3>2. QED  BY <2>1, <3>1
  <2>8. Calls' = Calls /\ PerRun' = PerRun /\ Fields' = Fields
        /\ \A d, meta, bound : KeptFields(d, meta, bound) => KeptFields(d, meta, bound)'
    BY <1>1, FieldsStay
  <2>9. ScopesKeep'
    <3>1. ASSUME NEW p \in Runs, InScope(p)', NEW d \in Calls
          PROVE  KeptFields(d, run'[p].nodes[d].meta, run'[p].bound[d].meta)
      <4>1. InScope(p)  BY <2>7, <3>1 DEF InScope
      <4>2. KeptFields(d, run[p].nodes[d].meta, run[p].bound[d].meta)
        BY <4>1 DEF ApplyInv, ScopesKeep
      <4>3. CASE p = r /\ d = c  BY <2>3, <2>7, <4>3 DEF KeptFields
      <4>4. CASE ~ (p = r /\ d = c)  BY <2>7, <4>2, <4>4
      <4>5. QED  BY <4>3, <4>4
    <3>2. QED  BY <2>8, <3>1 DEF ScopesKeep
  <2>10. \A d : NewMeta(d)' = NewMeta(d)
    <3>1. run'[apply'.run].bound = run[apply.run].bound  BY <2>1, <2>5, <2>7 DEF r
    <3>2. plan' = plan /\ apply'.got = apply.got  BY <1>1, <2>5
    <3>3. QED  BY <3>1, <3>2 DEF NewMeta, PerRunFields
  <2>11. Applying'
    <3>1. run'[apply'.run].st \in {"bound", "replaying"}  BY <2>1, <2>5, <2>7 DEF InScope
    <3>2. ASSUME NEW d \in Calls
          PROVE  /\ KeptFields(d, apply'.before[d].meta, run'[apply'.run].bound[d].meta)
                 /\ d \in PerRun \ apply'.todo => run'[apply'.run].nodes[d].meta = NewMeta(d)
                 /\ d \notin PerRun \ apply'.todo => run'[apply'.run].nodes[d] = apply'.before[d]
      <4>1. /\ KeptFields(d, apply.before[d].meta, run[r].bound[d].meta)
            /\ d \in PerRun \ apply.todo => run[r].nodes[d].meta = NewMeta(d)
            /\ d \notin PerRun \ apply.todo => run[r].nodes[d] = apply.before[d]
        BY <1>1 DEF Applying, r
      <4>2. CASE d = c  BY <1>1, <2>1, <2>5, <2>6, <2>7, <4>1, <4>2
      <4>3. CASE d # c  BY <1>1, <2>1, <2>5, <2>7, <4>1, <4>3
      <4>4. QED  BY <4>2, <4>3
    <3>3. /\ work'.op = "idle" /\ result'.op \notin Runs /\ apply'.run \in Runs
          /\ apply'.todo \subseteq PerRun /\ DOMAIN apply'.got = Fields /\ DOMAIN apply'.before = Calls
      BY <1>1, <1>3, <2>1, <2>5 DEF Applying
    <3>4. c \in PerRun /\ c \notin apply'.todo  BY <1>1, <2>5
    <3>5. QED  BY <2>8, <2>10, <3>1, <3>2, <3>3, <3>4 DEF Applying, InScope
  <2>12. QED  BY <1>1, <2>5, <2>9, <2>11 DEF ApplyInv
<1>4. QED  BY <1>2, <1>3 DEF set_meta

\* Steps that leave the runs, and an apply in progress, alone.
LEMMA ApplyStays ==
    ASSUME ApplyInv, UNCHANGED <<plan, run, apply>>, UNCHANGED <<work, result>> \/ ~ apply.on
    PROVE  ApplyInv'
<1>1. ScopesKeep'  BY ScopesStay DEF ApplyInv
<1>2. CASE ~ apply.on  BY <1>1, <1>2, OffStays
<1>3. CASE apply.on /\ UNCHANGED <<work, result>>
  <2>1. /\ Calls' = Calls /\ PerRun' = PerRun /\ Fields' = Fields
        /\ \A d, meta, bound : KeptFields(d, meta, bound) => KeptFields(d, meta, bound)'
    BY FieldsStay
  <2>2. \A d : NewMeta(d)' = NewMeta(d)  BY DEF NewMeta, PerRunFields
  <2>3. Applying  BY <1>3 DEF ApplyInv
  <2>4. Applying'  BY <1>3, <2>1, <2>2, <2>3 DEF Applying, InScope
  <2>5. QED  BY <1>1, <2>4 DEF ApplyInv
<1>4. QED  BY <1>2, <1>3

LEMMA ApplyNext ==
    ASSUME PlaceInv, RecordInv, WorkOK, ApplyInv, [Next]_vars
    PROVE  ApplyInv'
<1>1. CASE UNCHANGED planvars \/ finish \/ \E op \in Runs : Start(op)
  BY <1>1, ApplyStays DEF planvars, finish, Start, Idle
<1>2. CASE Take
  <2>1. ~ apply.on /\ UNCHANGED <<plan, run, apply>>
    BY <1>2 DEF Take, GiveBack, ApplyInv, Applying
  <2>2. QED  BY <2>1, ApplyStays
<1>3. CASE Build
  <2>1. ~ apply.on /\ work.op \in Runs /\ DOMAIN run = Runs
    BY <1>3 DEF Build, ApplyInv, Applying, WorkOK, RecordInv
  <2>2. CASE UNCHANGED <<plan, run, apply>>  BY <2>1, <2>2, ApplyStays
  <2>3. CASE run' = [run EXCEPT ![work.op] = Built(work.op)] /\ UNCHANGED <<plan, fits, apply>>
    <3>1. run'[work.op].st = "open" /\ \A r \in Runs \ {work.op} : run'[r] = run[r]
      BY <2>1, <2>3 DEF Built
    <3>2. ScopesKeep'  BY <2>3, <3>1, ScopesStay DEF ApplyInv
    <3>3. QED  BY <2>1, <2>3, <3>2, OffStays
  <2>4. QED  BY <1>3, <2>2, <2>3, BuildCases DEF GiveBack
<1>4. ASSUME NEW to \in Runs, NEW from \in Runs, NEW id \in DOMAIN run[to].tensors, fill_from(to, from, id)
      PROVE  ApplyInv'
  <2>1. plan' = plan /\ apply' = apply /\ ~ apply.on  BY <1>4 DEF fill_from, Open, Idle
  <2>2. \A r \in Runs : run'[r].st = run[r].st /\ run'[r].nodes = run[r].nodes /\ run'[r].bound = run[r].bound
    BY <1>4, FillAlike
  <2>3. ScopesKeep'  BY <2>1, <2>2, ScopesStay DEF ApplyInv
  <2>4. QED  BY <2>1, <2>3, OffStays
<1>5. ASSUME NEW r \in Runs, NEW ts, NEW ns, edit(r, ts, ns) PROVE ApplyInv'
  <2>1. plan' = plan /\ apply' = apply /\ ~ apply.on  BY <1>5 DEF edit, Open, Idle
  <2>2. run'[r].st = "open" /\ \A p \in Runs \ {r} : run'[p] = run[p]  BY <1>5, EditedRun
  <2>3. ScopesKeep'  BY <2>1, <2>2, ScopesStay DEF ApplyInv
  <2>4. QED  BY <2>1, <2>3, OffStays
<1>6. ASSUME NEW r \in Runs, bind(r) \/ Unbind(r) \/ execute(r) \/ capture(r) \/ release(r)
      PROVE  ApplyInv'
  <2>1. plan' = plan /\ apply' = apply /\ ~ apply.on
    BY <1>6 DEF bind, Unbind, execute, capture, release, Open, Idle
  <2>2. DOMAIN run = Runs /\ DOMAIN run[r] = RunFields  BY DEF RecordInv, RunKept
  <2>3. /\ \A p \in Runs \ {r} : run'[p] = run[p]
        /\ \/ run'[r].st \notin {"bound", "replaying"}
           \/ run'[r] = run[r]
           \/ run'[r].nodes = run'[r].bound
    <3>1. CASE bind(r)  BY <2>2, <3>1 DEF bind, RunFields
    <3>2. CASE Unbind(r)  BY <2>2, <3>2 DEF Unbind, InScope, RunFields
    <3>3. CASE execute(r)  BY <3>3 DEF execute
    <3>4. CASE capture(r) \/ release(r)  BY <2>2, <3>4 DEF capture, release, RunFields
    <3>5. QED  BY <1>6, <3>1, <3>2, <3>3, <3>4
  <2>4. ScopesKeep'  BY <2>1, <2>3, ScopesStay DEF ApplyInv
  <2>5. QED  BY <2>1, <2>4, OffStays
<1>7. CASE ReturnApply
  <2>1. UNCHANGED <<plan, run>> /\ apply' = [apply EXCEPT !.on = FALSE]  BY <1>7 DEF ReturnApply
  <2>2. ScopesKeep'  BY <2>1, ScopesStay DEF ApplyInv
  <2>3. QED  BY <2>1, <2>2 DEF ApplyInv
<1>8. QED  BY <1>1, <1>2, <1>3, <1>4, <1>5, <1>6, <1>7, StepIs, ApplyBegins, ApplyReads, ApplySets

LEMMA ApplyHolds ==
    Spec => [](PlaceInv /\ RecordInv /\ WorkOK /\ PlannedInv /\ FitInv /\ ApplyInv)
<1>1. Spec => [](PlaceInv /\ RecordInv /\ WorkOK /\ PlannedInv /\ FitInv)  BY FitHolds
<1>2. PlaceInv /\ RecordInv /\ WorkOK /\ ApplyInv /\ [Next]_vars => ApplyInv'  BY ApplyNext
<1>3. QED  BY <1>1, <1>2, ApplyInit, PTL DEF Spec

\* What an apply that ends leaves in the nodes' metas.
LEMMA AppliedNow ==
    ASSUME ApplyInv, apply.on, apply.todo = {}, DOMAIN apply.got = Fields,
           NEW c \in Calls, NEW i \in DOMAIN run[apply.run].nodes[c].meta
    PROVE  run[apply.run].nodes[c].meta[i] =
              IF <<c, i>> \in Fields THEN apply.got[<<c, i>>] ELSE apply.before[c].meta[i]
<1> DEFINE meta == run[apply.run].nodes[c].meta
           bound == run[apply.run].bound[c].meta
           before == apply.before[c].meta
<1>1. Applying  BY DEF ApplyInv
<1>2. <<c, i>> \in Fields <=> c \in PerRun /\ i \in PerRunFields(c)  BY DEF Fields
<1>3. CASE c \notin PerRun  BY <1>1, <1>2, <1>3 DEF Applying
<1>4. CASE c \in PerRun
  <2>1. meta = NewMeta(c)  BY <1>1, <1>4 DEF Applying
  <2>2. KeptFields(c, before, bound)  BY <1>1 DEF Applying
  <2>3. i \in DOMAIN plan.calls[c].sources
        /\ meta[i] = IF i \in PerRunFields(c) THEN apply.got[<<c, i>>] ELSE bound[i]
    BY <2>1 DEF NewMeta
  <2>4. QED  BY <1>2, <1>4, <2>2, <2>3 DEF KeptFields
<1>5. QED  BY <1>3, <1>4

\* apply_dynamics that finds a Dynamic never set changes no meta; one that returns Ok set
\* each per-run field to what it read and left the rest, edits included; one that is
\* refused half-way was of a run whose edit had failed (Bound::apply_dynamics).
THEOREM DynamicsKept == Spec => DynamicsApplied
<1> DEFINE I == PlaceInv /\ RecordInv /\ WorkOK /\ PlannedInv /\ FitInv /\ ApplyInv
<1>1. ASSUME PlaceInv, RecordInv, PlannedInv, FitInv, ApplyInv, [Next]_vars, apply.on, ~ apply'.on
      PROVE  AppliedWhole
  <2>1. Applying /\ DOMAIN apply = {"on", "run", "got", "todo", "before"}  BY <1>1 DEF ApplyInv
  <2>2. \/ \E f \in Fields : read_dynamic(f)
        \/ \E c \in Calls : set_meta(c)
        \/ ReturnApply
    <3>1. apply' # apply /\ work.op = "idle"  BY <1>1, <2>1 DEF Applying
    <3>2. ~ Build  BY <3>1 DEF Build
    <3>3. QED
      BY <1>1, <3>1, <3>2, StepIs
      DEF planvars, finish, Start, Take, fill_from, edit, bind, Unbind, execute, apply_dynamics,
          capture, release, Idle, Open
  <2>3. ASSUME NEW f \in Fields, read_dynamic(f) PROVE AppliedWhole
    <3>1. /\ run' = run /\ f \notin DOMAIN apply.got /\ result' = Result("run", "DynamicUnset")
      BY <1>1, <2>1, <2>3 DEF read_dynamic
    <3>2. apply.todo = PerRun  BY <2>1, <3>1 DEF Applying
    <3>3. run[apply.run].nodes = apply.before  BY <2>1, <3>2 DEF Applying
    <3>4. QED  BY <3>1, <3>3 DEF AppliedWhole, Result, Ok
  <2>4. ASSUME NEW c \in Calls, set_meta(c) PROVE AppliedWhole
    <3>1. /\ run' = run /\ result' = Result("run", "MetaType")
          /\ ~ meta_types(Shaders[run[apply.run].nodes[c].shader].fields, TypesOf(c))
      BY <1>1, <2>1, <2>4 DEF set_meta
    <3>2. ~ Fitting(run[apply.run])  BY <3>1 DEF Fitting
    <3>3. run[apply.run].st # "none"  BY <2>1 DEF Applying, InScope
    <3>4. apply.run \notin fits  BY <1>1, <3>2, <3>3 DEF FitInv, CallsFit
    <3>5. QED  BY <3>1, <3>4 DEF AppliedWhole, Result, Ok
  <2>5. CASE ReturnApply
    <3>1. run' = run /\ result' = Result("run", Ok) /\ apply.todo = {} /\ DOMAIN apply.got = Fields
          /\ plan' = plan
      BY <2>5 DEF ReturnApply
    <3>2. \A c \in Calls : \A i \in DOMAIN run[apply.run].nodes[c].meta :
            run[apply.run].nodes[c].meta[i] =
               IF <<c, i>> \in Fields THEN apply.got[<<c, i>>] ELSE apply.before[c].meta[i]
      BY <1>1, <3>1, AppliedNow
    <3>3. QED  BY <3>1, <3>2 DEF AppliedWhole, Result, Ok
  <2>6. QED  BY <2>2, <2>3, <2>4, <2>5
<1>2. I /\ [Next]_vars => [AppliedWhole]_vars  BY <1>1 DEF AppliedWhole
<1>3. QED  BY <1>2, ApplyHolds, PTL DEF Spec, DynamicsApplied

-----------------------------------------------------------------------------
\* Built runs execute.

\* Nothing that leaves the result of a build there changes what its calls check.
BuiltInv ==
    result.op \in Runs /\ result.error = Ok =>
        /\ run[result.op].st # "none"
        /\ \A c \in Calls : Executed(run[result.op], c) = Ok

LEMMA ExecutedStays == plan' = plan => Calls' = Calls /\ \A q, c : Executed(q, c)' = Executed(q, c)
<1> SUFFICES ASSUME plan' = plan PROVE Calls' = Calls /\ \A q, c : Executed(q, c)' = Executed(q, c)
  OBVIOUS
<1>1. /\ Calls' = Calls
      /\ \A q, c : TensorsOf(c)' = TensorsOf(c)
  BY DEF Calls, TensorsOf
<1>2. \A q, c : KindsOf(q, c)' = KindsOf(q, c) /\ (LongEnough(q, c)' <=> LongEnough(q, c))
  BY <1>1 DEF KindsOf, LongEnough
<1>3. QED  BY <1>1, <1>2 DEF Executed

\* A built run that passed the check of lengths executes.
LEMMA BuiltExecutes ==
    ASSUME plan \in Plans, Planned(plan), NEW op \in Runs, LengthFails(Built(op)) = {}, NEW c \in Calls
    PROVE  Executed(Built(op), c) = Ok
<1> DEFINE b == Built(op)
<1>1. LongEnough(b, c)  BY DEF LengthFails
<1>2. b.nodes[c].shader = plan.calls[c].shader  BY DEF Built, BuiltNode
<1>3. Fitting(b)  BY BuiltFits
<1> HIDE DEF b
<1>4. not_aliased(Shaders[b.nodes[c].shader].layout, TensorsOf(c))  BY <1>2, PlannedCalls
<1>5. QED  BY <1>1, <1>3, <1>4, FitExecutes DEF b

\* A step that leaves the kinds, lengths and nodes of every run, and the result.
LEMMA BuiltStays ==
    ASSUME PlaceInv, PlannedInv, BuiltInv, plan' = plan, result' = result,
           \A r \in Runs : /\ run[r].st # "none" => run'[r].st # "none"
                          /\ run'[r].nodes = run[r].nodes
                          /\ \A id \in Ids : /\ run'[r].tensors[id].kind = run[r].tensors[id].kind
                                            /\ run'[r].tensors[id].len = run[r].tensors[id].len
    PROVE  BuiltInv'
<1> SUFFICES ASSUME result.op \in Runs, result.error = Ok
             PROVE  /\ run'[result.op].st # "none"
                    /\ \A c \in Calls : Executed(run'[result.op], c) = Ok
  BY ExecutedStays DEF BuiltInv
<1> DEFINE r == result.op
<1>1. r \in Runs /\ run[r].st # "none" /\ \A c \in Calls : Executed(run[r], c) = Ok  BY DEF BuiltInv
<1> HIDE DEF r
<1>2. plan \in Plans /\ Planned(plan)  BY <1>1 DEF PlaceInv, PlannedInv
<1>3. \A c \in Calls : Executed(run'[r], c) = Executed(run[r], c)  BY <1>1, <1>2, ExecutesAlike
<1>4. QED  BY <1>1, <1>3 DEF r

LEMMA BuiltInit == Init => BuiltInv
BY DEF Init, BuiltInv, Result, Runs

LEMMA BuiltNext ==
    ASSUME PlaceInv, RecordInv, WorkOK, PlannedInv, ApplyInv, BuiltInv, [Next]_vars
    PROVE  BuiltInv'
<1>0. ASSUME plan' = plan, run' = run, result' = result PROVE BuiltInv'  BY <1>0, BuiltStays
<1>1. CASE UNCHANGED planvars \/ finish \/ \E op \in Runs : Start(op)
  BY <1>0, <1>1 DEF planvars, finish, Start
<1>2. CASE Take
  <2>1. CASE GiveBack("NotGivenYet") \/ GiveBack("LenMismatch")
    BY <2>1 DEF GiveBack, Result, BuiltInv, Ok
  <2>2. CASE UNCHANGED <<plan, run, result>>  BY <1>0, <2>2
  <2>3. QED  BY <1>2, <2>1, <2>2 DEF Take
<1>3. CASE Build
  <2>1. /\ work.op \in Runs /\ DOMAIN run = Runs /\ plan \in Plans /\ Planned(plan)
    BY <1>3 DEF Build, WorkOK, RecordInv, PlaceInv, PlannedInv
  <2>2. ASSUME NEW error, error # Ok, GiveBack(error) PROVE BuiltInv'
    BY <2>2 DEF GiveBack, Result, BuiltInv
  <2>3. CASE /\ LengthFails(Built(work.op)) = {} /\ run' = [run EXCEPT ![work.op] = Built(work.op)]
             /\ result' = Result(work.op, Ok) /\ UNCHANGED <<plan, fits, apply>>
    <3> DEFINE op == work.op
               b == Built(op)
    <3>1. b.st = "open"  BY DEF Built
    <3>2. \A c \in Calls : Executed(b, c) = Ok  BY <2>1, <2>3, BuiltExecutes
    <3> HIDE DEF b
    <3>3. result'.op = op /\ run'[op] = b /\ plan' = plan  BY <2>1, <2>3 DEF Result, b
    <3> HIDE DEF op
    <3>4. QED  BY <3>1, <3>2, <3>3, ExecutedStays DEF BuiltInv
  <2>4. QED  BY <1>3, <2>2, <2>3, BuildCases
<1>4. ASSUME NEW to \in Runs, NEW from \in Runs, NEW id \in DOMAIN run[to].tensors, fill_from(to, from, id)
      PROVE  BuiltInv'
  <2>1. plan' = plan /\ result' = result  BY <1>4 DEF fill_from
  <2>2. QED  BY <1>4, <2>1, FillAlike, BuiltStays
<1>5. ASSUME NEW r \in Runs, NEW ts, NEW ns, edit(r, ts, ns) PROVE BuiltInv'
  BY <1>5 DEF edit, BuiltInv, Result, Runs
<1>6. ASSUME NEW r \in Runs,
             bind(r) \/ Unbind(r) \/ execute(r) \/ apply_dynamics(r) \/ capture(r) \/ release(r)
      PROVE  BuiltInv'
  <2>1. CASE bind(r) \/ execute(r) \/ apply_dynamics(r)
    <3>1. result'.op = "run"  BY <2>1 DEF bind, execute, apply_dynamics, Result
    <3>2. QED  BY <3>1 DEF BuiltInv, Runs
  <2>2. CASE Unbind(r) \/ capture(r) \/ release(r)
    <3>1. plan' = plan /\ result' = result  BY <2>2 DEF Unbind, capture, release
    <3>2. \A p \in Runs : run'[p].nodes = run[p].nodes /\ run'[p].tensors = run[p].tensors
      BY <2>2, ScopeAlike
    <3>3. \A p \in Runs : run[p].st # "none" => run'[p].st # "none"
      <4>1. DOMAIN run = Runs /\ DOMAIN run[r] = RunFields  BY DEF RecordInv, RunKept
      <4>2. QED  BY <2>2, <4>1 DEF Unbind, capture, release, RunFields
    <3>4. QED  BY <3>1, <3>2, <3>3, BuiltStays
  <2>3. QED  BY <1>6, <2>1, <2>2
<1>7. CASE (\E f \in Fields : read_dynamic(f)) \/ (\E c \in Calls : set_meta(c)) \/ ReturnApply
  <2>1. result.op \notin Runs  BY <1>7 DEF read_dynamic, set_meta, ReturnApply, ApplyInv, Applying
  <2>2. \/ result' = result
        \/ \E error : result' = Result("run", error)
    <3>1. ASSUME NEW f \in Fields, read_dynamic(f)
          PROVE  result' = result \/ result' = Result("run", "DynamicUnset")
      BY <3>1 DEF read_dynamic
    <3>2. ASSUME NEW c \in Calls, set_meta(c)
          PROVE  result' = result \/ result' = Result("run", "MetaType")
      BY <3>2 DEF set_meta
    <3>3. CASE ReturnApply  BY <3>3 DEF ReturnApply
    <3>4. QED  BY <1>7, <3>1, <3>2, <3>3
  <2>3. result' = result \/ result'.op = "run"  BY <2>2 DEF Result
  <2>4. QED  BY <2>1, <2>3 DEF BuiltInv, Runs
<1>8. QED  BY <1>1, <1>2, <1>3, <1>4, <1>5, <1>6, <1>7, StepIs

\* A run that was just built, live or hollow, passes every check of the scope: the check
\* of lengths that a build makes is the one its calls meet (RunSpec::build, build_hollow).
THEOREM BuildsExecute == Spec => []BuiltRunsExecute
<1>1. BuiltInv => BuiltRunsExecute  BY DEF BuiltInv, BuiltRunsExecute
<1>2. QED  BY <1>1, BuiltInit, BuiltNext, ApplyHolds, PTL DEF Spec

-----------------------------------------------------------------------------
\* What a plan reads.

\* Induction up to a number, over a set instead of a predicate.
LEMMA CountUp ==
    ASSUME NEW n \in Nat, NEW T, 0 \in T, \A k \in 0..(n - 1) : k \in T => k + 1 \in T
    PROVE  \A k \in 0..n : k \in T
<1> DEFINE R == OpToRel(<, Nat)
           Out == {k \in 0..n : k \notin T}
<1> SUFFICES ASSUME Out # {} PROVE FALSE  OBVIOUS
<1>1. IsWellFoundedOn(R, Nat)  BY NatLessThanWellFounded
<1>0. Out \subseteq Nat  OBVIOUS
<1>2. PICK m \in Out : \A k \in Out : ~(<<k, m>> \in R)
  <2> HIDE DEF R, Out
  <2> QED  BY <1>0, <1>1, WFMin
<1>3. \A k \in Out : ~(k < m)
  <2> HIDE DEF Out
  <2> QED  BY <1>0, <1>2 DEF OpToRel
<1>4. m # 0 /\ m - 1 \in 0..(n - 1) /\ m - 1 \in T  BY <1>3
<1> QED  BY <1>4

-----------------------------------------------------------------------------
(* FlattenSeq.                                                             *)

\* The recursion of FlattenSeq is one for every sequence, and its function.
Flattens(ss, f) == f = [i \in 1..Len(ss) |-> IF i = 1 THEN ss[i] ELSE f[i - 1] \o ss[i]]

LEMMA FlattensAt ==
    ASSUME NEW ss, NEW f, Flattens(ss, f), NEW i \in 1..Len(ss)
    PROVE  f[i] = IF i = 1 THEN ss[i] ELSE f[i - 1] \o ss[i]
BY DEF Flattens

\* A function that flattens the first n sequences.
FlattensFirst(ss, n, f) == f = [i \in 1..n |-> IF i = 1 THEN ss[i] ELSE f[i - 1] \o ss[i]]

LEMMA FlattensMore ==
    ASSUME NEW ss, NEW n \in Nat, NEW f, FlattensFirst(ss, n, f)
    PROVE  \E g : FlattensFirst(ss, n + 1, g)
<1> DEFINE last == IF n = 0 THEN ss[1] ELSE f[n] \o ss[n + 1]
           g == [i \in 1..(n + 1) |-> IF i = n + 1 THEN last ELSE f[i]]
           h == [i \in 1..(n + 1) |-> IF i = 1 THEN ss[i] ELSE g[i - 1] \o ss[i]]
<1>1. \A i \in 1..n : f[i] = IF i = 1 THEN ss[i] ELSE f[i - 1] \o ss[i]
  BY DEF FlattensFirst
<1>2. g[n + 1] = last /\ \A i \in 1..n : g[i] = f[i]
  <2> HIDE DEF last
  <2> QED  OBVIOUS
<1>3. h[n + 1] = last
  <2>1. CASE n = 0  BY <2>1
  <2>2. CASE n # 0
    <3>1. n \in 1..n /\ n + 1 # 1 /\ n + 1 - 1 = n  BY <2>2
    <3>2. g[n] = f[n]  BY <1>2, <3>1
    <3>3. h[n + 1] = g[n] \o ss[n + 1]
      <4>1. \A j : \A i \in 1..(n + 1) : i # 1 /\ j = i - 1 => h[i] = g[j] \o ss[i]
        <5> HIDE DEF g
        <5> QED  OBVIOUS
      <4>2. n + 1 \in 1..(n + 1) /\ n = (n + 1) - 1  OBVIOUS
      <4> HIDE DEF g, h
      <4> QED  BY <3>1, <4>1, <4>2
    <3> HIDE DEF g, h
    <3> QED  BY <2>2, <3>2, <3>3
  <2> QED  BY <2>1, <2>2
<1>4. ASSUME NEW i \in 1..n PROVE h[i] = f[i]
  <2>1. CASE i = 1  BY <1>1, <2>1
  <2>2. CASE i # 1
    <3>1. i - 1 \in 1..n /\ i \in 1..(n + 1)  BY <2>2
    <3>2. g[i - 1] = f[i - 1]  BY <1>2, <3>1
    <3>3. h[i] = g[i - 1] \o ss[i]
      <4> HIDE DEF g
      <4> QED  BY <2>2, <3>1
    <3>4. f[i] = f[i - 1] \o ss[i]  BY <1>1, <2>2
    <3> HIDE DEF g, h
    <3> QED  BY <3>2, <3>3, <3>4
  <2> QED  BY <2>1, <2>2
<1>5. \A i \in 1..(n + 1) : g[i] = h[i]
  <2> HIDE DEF g, h, last
  <2> QED  BY <1>2, <1>3, <1>4
<1>6. g = h
  <2>1. g = [i \in 1..(n + 1) |-> g[i]] /\ h = [i \in 1..(n + 1) |-> h[i]]  OBVIOUS
  <2> HIDE DEF g, h
  <2> QED  BY <1>5, <2>1
<1>7. FlattensFirst(ss, n + 1, g)  BY <1>6 DEF FlattensFirst
<1> QED  BY <1>7

LEMMA FlattensExists ==
    ASSUME NEW ss, Len(ss) \in Nat
    PROVE  \E f : Flattens(ss, f)
<1> DEFINE T == {n \in Nat : \E f : FlattensFirst(ss, n, f)}
<1>1. 0 \in T
  <2>1. FlattensFirst(ss, 0, [i \in 1..0 |-> <<>>])  BY DEF FlattensFirst
  <2> QED  BY <2>1
<1>2. \A k \in 0..(Len(ss) - 1) : k \in T => k + 1 \in T  BY FlattensMore
<1> HIDE DEF T
<1>3. Len(ss) \in T
  <2>1. \A k \in 0..Len(ss) : k \in T  BY <1>1, <1>2, CountUp
  <2> QED  BY <2>1
<1> QED  BY <1>3 DEF T, FlattensFirst, Flattens

\* Sequences put end to end hold what each of them does.
LEMMA FlattenHolds ==
    ASSUME NEW S, NEW ss \in Seq(Seq(S))
    PROVE  /\ FlattenSeq(ss) \in Seq(S)
           /\ Range(FlattenSeq(ss)) = UNION {Range(ss[i]) : i \in 1..Len(ss)}
<1>1. CASE Len(ss) = 0
  <2>1. ss = <<>>  BY <1>1
  <2>2. FlattenSeq(ss) = <<>>  BY <1>1, <2>1 DEF FlattenSeq
  <2>3. Range(<<>>) = {}  BY DEF Range
  <2>4. {Range(ss[i]) : i \in 1..Len(ss)} = {}  BY <1>1
  <2> QED  BY <2>2, <2>3, <2>4
<1>2. CASE Len(ss) # 0
  <2> DEFINE n == Len(ss)
             f == CHOOSE g : Flattens(ss, g)
             T == {k \in 0..n : k # 0 => f[k] \in Seq(S) /\ Range(f[k]) = UNION {Range(ss[i]) : i \in 1..k}}
  <2>1. Flattens(ss, f)  BY FlattensExists
  <2>2. FlattenSeq(ss) = f[n]  BY <1>2 DEF FlattenSeq, Flattens
  <2>3. \A k \in 1..n : f[k] = IF k = 1 THEN ss[k] ELSE f[k - 1] \o ss[k]
    <3> HIDE DEF f
    <3> QED  BY <2>1, FlattensAt
  <2> HIDE DEF f
  <2>4. ASSUME NEW k \in 0..(n - 1), k \in T PROVE k + 1 \in T
    <3>1. k + 1 \in 1..n /\ ss[k + 1] \in Seq(S)  OBVIOUS
    <3>2. CASE k = 0
      <4>1. f[1] = ss[1]
        <5>1. 1 \in 1..n  BY <3>1, <3>2
        <5> HIDE DEF n
        <5> QED  BY <2>3, <5>1
      <4>2. {Range(ss[i]) : i \in 1..1} = {Range(ss[1])}  OBVIOUS
      <4> QED  BY <3>1, <3>2, <4>1, <4>2
    <3>3. CASE k # 0
      <4>1. f[k + 1] = f[k] \o ss[k + 1]
        <5>1. k + 1 # 1 /\ k = (k + 1) - 1  BY <3>3
        <5>2. \A j : \A i \in 1..n : i # 1 /\ j = i - 1 => f[i] = f[j] \o ss[i]  BY <2>3
        <5> HIDE DEF n
        <5> QED  BY <3>1, <5>1, <5>2
      <4>2. f[k] \in Seq(S) /\ Range(f[k]) = UNION {Range(ss[i]) : i \in 1..k}  BY <2>4, <3>3
      <4>3. f[k + 1] \in Seq(S)  BY <3>1, <4>1, <4>2, ConcatProperties
      <4>4. Range(f[k + 1]) = Range(f[k]) \cup Range(ss[k + 1])  BY <3>1, <4>1, <4>2, RangeConcatenation
      <4>5. 1..(k + 1) = 1..k \cup {k + 1}  OBVIOUS
      <4>6. Range(f[k + 1]) = UNION {Range(ss[i]) : i \in 1..(k + 1)}  BY <4>2, <4>4, <4>5
      <4> QED  BY <3>1, <4>3, <4>6
    <3> QED  BY <3>2, <3>3
  <2>5. n \in Nat /\ 0 \in 0..n /\ 0 \in T  OBVIOUS
  <2>6. n \in T
    <3> HIDE DEF n, T
    <3>1. n \in 0..n  BY <2>5
    <3> QED  BY <2>4, <2>5, <3>1, CountUp
  <2> QED  BY <1>2, <2>2, <2>6
<1> QED  BY <1>1, <1>2

\* Sequences, of whatever.
LEMMA RangeOf ==
    ASSUME NEW S, NEW s \in Seq(S)
    PROVE  /\ DOMAIN s = 1..Len(s) /\ Len(s) \in Nat
           /\ Range(s) \subseteq S /\ \A i \in 1..Len(s) : s[i] \in Range(s)
BY DEF Range

LEMMA PlanIs ==
    ASSUME plan \in Plans
    PROVE  /\ plan.tensors \in Seq(Range(plan.tensors)) /\ Ids = 1..Len(plan.tensors)
           /\ plan.calls \in Seq(Range(plan.calls)) /\ Calls = 1..Len(plan.calls)
           /\ Len(plan.tensors) \in Nat /\ Len(plan.calls) \in Nat
           /\ \A id \in Ids : plan.tensors[id].kind \in DataKind /\ plan.tensors[id].len \in Cells
           /\ \A c \in Calls :
                 /\ plan.calls[c].shader \in DOMAIN Shaders /\ plan.calls[c].workgroups \in Cells
                 /\ plan.calls[c].sources \in Seq(Range(plan.calls[c].sources))
                 /\ \A i \in DOMAIN plan.calls[c].sources :
                       IF plan.calls[c].sources[i].per_run THEN plan.calls[c].sources[i].from \in DOMAIN Dynamics
                       ELSE plan.calls[c].sources[i].from \in Cells
<1>1. plan.tensors \in Seq(Range(plan.tensors)) /\ plan.calls \in Seq(Range(plan.calls))
  BY PlansAssumption
<1>2. Ids = 1..Len(plan.tensors) /\ Calls = 1..Len(plan.calls)
      /\ Len(plan.tensors) \in Nat /\ Len(plan.calls) \in Nat
  BY <1>1 DEF Ids, Calls
<1>3. \A id \in Ids : plan.tensors[id] \in Range(plan.tensors)  BY DEF Range, Ids
<1>4. \A c \in Calls : plan.calls[c] \in Range(plan.calls)  BY DEF Range, Calls
<1>5. \A id \in Ids : plan.tensors[id].kind \in DataKind /\ plan.tensors[id].len \in Cells
  BY <1>3, NamesAssumption
<1>6. ASSUME NEW c \in Calls
      PROVE  /\ plan.calls[c].shader \in DOMAIN Shaders /\ plan.calls[c].workgroups \in Cells
             /\ plan.calls[c].sources \in Seq(Range(plan.calls[c].sources))
             /\ \A i \in DOMAIN plan.calls[c].sources :
                   IF plan.calls[c].sources[i].per_run THEN plan.calls[c].sources[i].from \in DOMAIN Dynamics
                   ELSE plan.calls[c].sources[i].from \in Cells
  <2>1. plan.calls[c].shader \in DOMAIN Shaders /\ plan.calls[c].workgroups \in Cells
    BY <1>4, NamesAssumption
  <2>2. \A source \in Range(plan.calls[c].sources) :
            IF source.per_run THEN source.from \in DOMAIN Dynamics ELSE source.from \in Cells
    BY <1>4, NamesAssumption
  <2>3. plan.calls[c].sources \in Seq(Range(plan.calls[c].sources))  BY <1>4, PlansAssumption
  <2>4. \A i \in DOMAIN plan.calls[c].sources : plan.calls[c].sources[i] \in Range(plan.calls[c].sources)
    BY DEF Range
  <2> QED  BY <2>1, <2>2, <2>3, <2>4
<1> QED  BY <1>1, <1>2, <1>5, <1>6

\* The reads of a call's meta are those of its values that are known once.
LEMMA MetaReadsHold ==
    ASSUME plan \in Plans, NEW c \in Calls
    PROVE  /\ MetaReads(plan.calls[c]) \in Seq(Cells)
           /\ \A i \in DOMAIN plan.calls[c].sources :
                 ~ plan.calls[c].sources[i].per_run
                   => plan.calls[c].sources[i].from \in Range(MetaReads(plan.calls[c]))
<1> DEFINE ss == plan.calls[c].sources
           one(i) == IF OnceKnown(ss[i]) THEN <<ss[i].from>> ELSE <<>>
           q == [i \in 1..Len(ss) |-> one(i)]
<1>1. ss \in Seq(Range(ss)) /\ DOMAIN ss = 1..Len(ss) /\ Len(ss) \in Nat  BY PlanIs
<1>2. \A i \in DOMAIN ss : ~ ss[i].per_run => ss[i].from \in Cells  BY PlanIs
<1>3. \A i \in 1..Len(ss) : one(i) \in Seq(Cells)
  <2>1. \A x \in Cells : <<x>> \in Seq(Cells)  OBVIOUS
  <2>2. <<>> \in Seq(Cells)  OBVIOUS
  <2> QED  BY <1>1, <1>2, <2>1, <2>2 DEF OnceKnown
<1>4. q \in Seq(Seq(Cells)) /\ Len(q) = Len(ss) /\ \A i \in 1..Len(ss) : q[i] = one(i)
  <2> HIDE DEF one, ss
  <2> QED  BY <1>1, <1>3
<1>5. MetaReads(plan.calls[c]) = FlattenSeq(q)  BY <1>1 DEF MetaReads
<1> HIDE DEF q
<1>6. /\ FlattenSeq(q) \in Seq(Cells)
      /\ Range(FlattenSeq(q)) = UNION {Range(q[i]) : i \in 1..Len(q)}
  BY <1>4, FlattenHolds
<1>7. ASSUME NEW i \in 1..Len(ss), ~ ss[i].per_run PROVE ss[i].from \in Range(FlattenSeq(q))
  <2>1. q[i] = <<ss[i].from>>  BY <1>4, <1>7 DEF OnceKnown
  <2>2. ss[i].from \in Range(q[i])  BY <2>1 DEF Range
  <2> QED  BY <1>4, <1>6, <2>2
<1> QED  BY <1>1, <1>5, <1>6, <1>7

LEMMA LensAre ==
    ASSUME plan \in Plans
    PROVE  /\ LensOf \in Seq(Cells) /\ Len(LensOf) = Len(plan.tensors)
           /\ \A id \in Ids : LensOf[id] = plan.tensors[id].len
BY PlanIs DEF LensOf

\* What a call reads.
CallCells(c) == {plan.calls[c].workgroups} \cup Range(MetaReads(plan.calls[c]))

LEMMA CallsRead ==
    ASSUME plan \in Plans
    PROVE  /\ CallsReady \in Seq(Cells) /\ CallsBuild \in Seq(Cells)
           /\ Range(CallsReady) = UNION {CallCells(c) : c \in Calls}
           /\ Range(CallsBuild) = UNION {CallCells(c) : c \in Calls}
<1> DEFINE n == Len(plan.calls)
           w(c) == <<plan.calls[c].workgroups>>
           m(c) == MetaReads(plan.calls[c])
           p(c) == w(c) \o m(c)
           q(c) == m(c) \o w(c)
           ready == [c \in 1..n |-> p(c)]
           build == [c \in 1..n |-> q(c)]
<1>1. n \in Nat /\ Calls = 1..n  BY PlanIs
<1>2. ASSUME NEW c \in 1..n
      PROVE  w(c) \in Seq(Cells) /\ m(c) \in Seq(Cells) /\ Range(w(c)) = {plan.calls[c].workgroups}
  <2>1. plan.calls[c].workgroups \in Cells  BY <1>1, PlanIs
  <2>2. \A x : Range(<<x>>) = {x}  BY DEF Range
  <2> QED  BY <1>1, <2>1, <2>2, MetaReadsHold
<1>3. ASSUME NEW c \in 1..n
      PROVE  p(c) \in Seq(Cells) /\ q(c) \in Seq(Cells) /\ Range(p(c)) = CallCells(c) /\ Range(q(c)) = CallCells(c)
  <2> HIDE DEF w, m
  <2>1. p(c) \in Seq(Cells) /\ q(c) \in Seq(Cells)  BY <1>2, ConcatProperties
  <2>2. Range(p(c)) = Range(w(c)) \cup Range(m(c))  BY <1>2, RangeConcatenation
  <2>3. Range(q(c)) = Range(m(c)) \cup Range(w(c))  BY <1>2, RangeConcatenation
  <2> QED  BY <1>2, <2>1, <2>2, <2>3 DEF CallCells, m
<1> HIDE DEF p, q
<1>4. ready \in Seq(Seq(Cells)) /\ Len(ready) = n /\ \A c \in 1..n : ready[c] = p(c)
  <2> HIDE DEF n
  <2> QED  BY <1>1, <1>3
<1>5. build \in Seq(Seq(Cells)) /\ Len(build) = n /\ \A c \in 1..n : build[c] = q(c)
  <2> HIDE DEF n
  <2> QED  BY <1>1, <1>3
<1>6. CallsReady = FlattenSeq(ready) /\ CallsBuild = FlattenSeq(build)
  BY <1>1 DEF CallsReady, CallsBuild, p, q
<1> HIDE DEF ready, build
<1>7. /\ FlattenSeq(ready) \in Seq(Cells)
      /\ Range(FlattenSeq(ready)) = UNION {Range(ready[c]) : c \in 1..n}
  BY <1>4, FlattenHolds
<1>8. /\ FlattenSeq(build) \in Seq(Cells)
      /\ Range(FlattenSeq(build)) = UNION {Range(build[c]) : c \in 1..n}
  BY <1>5, FlattenHolds
<1>9. {Range(ready[c]) : c \in 1..n} = {CallCells(c) : c \in Calls}  BY <1>1, <1>3, <1>4
<1>10. {Range(build[c]) : c \in 1..n} = {CallCells(c) : c \in Calls}  BY <1>1, <1>3, <1>5
<1> QED  BY <1>6, <1>7, <1>8, <1>9, <1>10

\* Two sequences end to end, by position.
LEMMA EndToEnd ==
    ASSUME NEW S, NEW s \in Seq(S), NEW r \in Seq(S)
    PROVE  /\ s \o r \in Seq(S) /\ Len(s \o r) = Len(s) + Len(r)
           /\ \A i \in 1..Len(s) : (s \o r)[i] = s[i]
           /\ \A i \in 1..Len(r) : (s \o r)[Len(s) + i] = r[i]
           /\ Range(s \o r) = Range(s) \cup Range(r)
<1>1. s \o r \in Seq(S)  BY ConcatProperties
<1>2. Range(s \o r) = Range(s) \cup Range(r)  BY RangeConcatenation
<1> QED  BY <1>1, <1>2

LensCells == {plan.tensors[id].len : id \in Ids}

LEMMA LensRange == plan \in Plans => Range(LensOf) = LensCells
<1> SUFFICES ASSUME plan \in Plans PROVE Range(LensOf) = LensCells  OBVIOUS
<1>1. DOMAIN LensOf = Ids  BY DEF LensOf
<1>2. \A id \in Ids : LensOf[id] = plan.tensors[id].len  BY LensAre
<1> QED  BY <1>1, <1>2 DEF Range, LensCells

\* A build reads the cells it uses; the reads of ready are its first, and hold all of them.
LEMMA ReadsAre ==
    ASSUME plan \in Plans
    PROVE  /\ ReadyReads \in Seq(Cells) /\ Reads("build") \in Seq(Cells) /\ Reads("build_hollow") \in Seq(Cells)
           /\ \A i \in 1..Len(ReadyReads) : Reads("build")[i] = ReadyReads[i]
           /\ Len(ReadyReads) <= Len(Reads("build"))
           /\ \A id \in Ids : /\ id \in 1..Len(ReadyReads) /\ Reads("build")[id] = plan.tensors[id].len
                              /\ Reads("build")[Len(ReadyReads) + id] = plan.tensors[id].len
           /\ Range(ReadyReads) = LensCells \cup UNION {CallCells(c) : c \in Calls}
           /\ Range(Reads("build")) = Range(ReadyReads)
           /\ Range(Reads("build_hollow")) = Range(ReadyReads)
<1> DEFINE calls == UNION {CallCells(c) : c \in Calls}
           lens == Len(LensOf)
           first == Len(ReadyReads)
<1>1. LensOf \in Seq(Cells) /\ Ids = 1..lens /\ lens \in Nat
      /\ (\A id \in Ids : LensOf[id] = plan.tensors[id].len) /\ Range(LensOf) = LensCells
  BY LensAre, LensRange, PlanIs
<1>2. CallsReady \in Seq(Cells) /\ CallsBuild \in Seq(Cells) /\ Range(CallsReady) = calls /\ Range(CallsBuild) = calls
  BY CallsRead
<1> HIDE DEF calls, lens
<1>3. /\ ReadyReads \in Seq(Cells) /\ first = lens + Len(CallsReady)
      /\ (\A i \in 1..lens : ReadyReads[i] = LensOf[i]) /\ Range(ReadyReads) = LensCells \cup calls
  BY <1>1, <1>2, EndToEnd DEF ReadyReads, lens
<1> DEFINE front == ReadyReads \o LensOf
<1>4. /\ front \in Seq(Cells) /\ Len(front) = first + lens
      /\ (\A i \in 1..first : front[i] = ReadyReads[i])
      /\ (\A i \in 1..lens : front[first + i] = LensOf[i])
      /\ Range(front) = LensCells \cup calls
  <2> HIDE DEF first
  <2>1. Range(front) = Range(ReadyReads) \cup LensCells  BY <1>1, <1>3, EndToEnd
  <2>2. /\ front \in Seq(Cells) /\ Len(front) = Len(ReadyReads) + Len(LensOf)
        /\ (\A i \in 1..Len(ReadyReads) : front[i] = ReadyReads[i])
        /\ (\A i \in 1..Len(LensOf) : front[Len(ReadyReads) + i] = LensOf[i])
    BY <1>1, <1>3, EndToEnd
  <2> QED  BY <1>3, <2>1, <2>2 DEF lens, first
<1>5. Reads("build") = front \o CallsBuild  BY DEF Reads
<1> HIDE DEF front
<1>6. /\ Reads("build") \in Seq(Cells) /\ Len(Reads("build")) = Len(front) + Len(CallsBuild)
      /\ \A i \in 1..Len(front) : Reads("build")[i] = front[i]
  <2>1. front \in Seq(Cells) /\ CallsBuild \in Seq(Cells)  BY <1>2, <1>4
  <2> DEFINE b == front \o CallsBuild
  <2>2. /\ b \in Seq(Cells) /\ Len(b) = Len(front) + Len(CallsBuild)
        /\ \A i \in 1..Len(front) : b[i] = front[i]
    BY <2>1, EndToEnd
  <2>3. Reads("build") = b  BY <1>5
  <2> HIDE DEF b
  <2> QED  BY <2>2, <2>3
<1>7. Range(Reads("build")) = LensCells \cup calls
  <2>1. Range(front \o CallsBuild) = Range(front) \cup Range(CallsBuild)
    BY <1>2, <1>4, EndToEnd
  <2> QED  BY <1>2, <1>4, <1>5, <2>1
<1>8. first \in Nat /\ Len(CallsBuild) \in Nat /\ Len(CallsReady) \in Nat  BY <1>2, <1>3
<1> HIDE DEF first
<1>9. first <= Len(Reads("build")) /\ \A i \in 1..first : Reads("build")[i] = ReadyReads[i]
  BY <1>1, <1>4, <1>6, <1>8
<1>10. ASSUME NEW id \in Ids
       PROVE  /\ id \in 1..first /\ Reads("build")[id] = plan.tensors[id].len
              /\ Reads("build")[first + id] = plan.tensors[id].len
  <2>1. id \in 1..lens /\ id \in 1..first /\ first + id \in 1..Len(front)  BY <1>1, <1>3, <1>4, <1>8
  <2>2. Reads("build")[id] = LensOf[id]  BY <1>3, <1>9, <2>1
  <2>3. Reads("build")[first + id] = LensOf[id]  BY <1>4, <1>6, <2>1
  <2> QED  BY <1>1, <2>1, <2>2, <2>3
<1>11. Reads("build_hollow") \in Seq(Cells) /\ Range(Reads("build_hollow")) = LensCells \cup calls
  <2> DEFINE h == CallsReady \o LensOf
  <2>1. h \in Seq(Cells) /\ Range(h) = calls \cup LensCells  BY <1>1, <1>2, EndToEnd
  <2>2. Reads("build_hollow") = h \o CallsBuild  BY DEF Reads
  <2> HIDE DEF h
  <2>3. h \o CallsBuild \in Seq(Cells) /\ Range(h \o CallsBuild) = Range(h) \cup Range(CallsBuild)
    BY <1>2, <2>1, EndToEnd
  <2> QED  BY <1>2, <2>1, <2>2, <2>3
<1> QED  BY <1>3, <1>6, <1>7, <1>9, <1>10, <1>11 DEF calls, first

\* Each cell a build uses is one it has read, when it is through its reads.
LEMMA AllRead ==
    ASSUME plan \in Plans, NEW op \in Runs,
           \A j \in 1..Len(Reads(op)) : value[Reads(op)[j]] # None
    PROVE  /\ \A id \in Ids : value[plan.tensors[id].len] # None
           /\ \A c \in Calls :
                 /\ value[plan.calls[c].workgroups] # None
                 /\ \A i \in DOMAIN plan.calls[c].sources :
                       ~ plan.calls[c].sources[i].per_run => value[plan.calls[c].sources[i].from] # None
<1>1. Reads(op) \in Seq(Cells) /\ Range(Reads(op)) = LensCells \cup UNION {CallCells(c) : c \in Calls}
  BY ReadsAre DEF Runs
<1>2. \A x \in Range(Reads(op)) : value[x] # None  BY <1>1 DEF Range
<1>3. \A id \in Ids : plan.tensors[id].len \in LensCells  BY DEF LensCells
<1>4. ASSUME NEW c \in Calls, NEW x \in CallCells(c) PROVE value[x] # None
  BY <1>1, <1>2
<1>5. \A c \in Calls : plan.calls[c].workgroups \in CallCells(c)  BY DEF CallCells
<1>6. ASSUME NEW c \in Calls, NEW i \in DOMAIN plan.calls[c].sources, ~ plan.calls[c].sources[i].per_run
      PROVE  plan.calls[c].sources[i].from \in CallCells(c)
  BY <1>6, MetaReadsHold DEF CallCells
<1> QED  BY <1>1, <1>2, <1>3, <1>4, <1>5, <1>6

\* A build reads one cell after the other: it has read those before the one it is at, is
\* reading that one, or has its value; what it read for a length suits the data.  s, r and
\* v are the planner's stack and read, and the cells' values.
ReadingOn(op, at, s, r, v) ==
    LET reads == Reads(op) IN
    /\ at \in 1..(Len(reads) + 1)
    /\ s # <<>> => at \in 1..Len(reads) /\ s[1].cell = reads[at]
    /\ r # None => s = <<>> /\ at \in 1..Len(reads) /\ r.cell = reads[at]
    /\ \A j \in 1..(at - 1) : v[reads[j]] # None
    /\ op = "build" => \A id \in Ids : id < at => ~ Misfit(id, v[plan.tensors[id].len])

\* What ready has read is there: each later read returns it at once.
ReadAgain(at, s, r) ==
    at > Len(ReadyReads) =>
        /\ s # <<>> => s = <<Frame(Reads("build")[at])>>
        /\ r # None => r.value # None

ReadInv ==
    /\ work.op = "idle" => stack[planner] = <<>>
    /\ work.op # "idle" => ReadingOn(work.op, work.at, stack[planner], read[planner], value)
    /\ work.op = "build" => ReadAgain(work.at, stack[planner], read[planner])
    /\ ReadyBuilds

-----------------------------------------------------------------------------
\* Reads that were made once return at once.

LEMMA ValuesGrow ==
    ASSUME DeferredInv, [DeferredNext]_deferred
    PROVE  Stays(value, value')
<1>1. value \in [Cells -> Values \cup {None}]  BY DEF DeferredInv, Types
<1>2. ASSUME NEW c \in Cells, NEW v, value' = [value EXCEPT ![c] = IF value[c] = None THEN v ELSE value[c]]
      PROVE  Stays(value, value')
  BY <1>1, <1>2 DEF Stays
<1>3. CASE value' = value  BY <1>3 DEF Stays
<1>4. ASSUME NEW c \in DOMAIN Given, resolver(c) \/ DropResolver(c) \/ \E v \in Given[c] : resolve(c, v)
      PROVE  Stays(value, value')
  <2>1. c \in Cells  BY DEF Cells
  <2>2. CASE \E v \in Given[c] : resolve(c, v)  BY <1>2, <2>1, <2>2 DEF resolve
  <2> QED  BY <1>3, <1>4, <2>2 DEF resolver, DropResolver
<1>5. ASSUME NEW t \in Threads, ReadStep(t) PROVE Stays(value, value')
  <2>1. CASE Look(t) \/ ReadInput(t)  BY <1>3, <2>1 DEF Look, ReadInput, cellvars
  <2>2. CASE Keep(t)
    <3>1. stack[t] \in Seq(FrameSet) /\ stack[t] # <<>>  BY <2>2 DEF DeferredInv, Types, Keep, Reading
    <3>2. Top(t) \in FrameSet  BY <3>1 DEF Top
    <3>3. Top(t).cell \in Cells  BY <3>2, FrameFacts
    <3> QED  BY <1>2, <2>2, <3>3 DEF Keep
  <2> QED  BY <1>5, <2>1, <2>2 DEF ReadStep
<1>6. CASE \/ \E d \in DOMAIN Dynamics : \E v \in Dynamics[d] : set(d, v)
           \/ \E t \in Threads : Forget(t) \/ \E c \in Cells : StartValue(t, c)
           \/ UNCHANGED deferred
  BY <1>3, <1>6 DEF set, Forget, StartValue, deferred, cellvars
<1> QED  BY <1>4, <1>5, <1>6 DEF DeferredNext, CellStep

LEMMA ReturnIs ==
    ASSUME Types, NEW t \in Threads, stack[t] # <<>>, NEW v, ReturnValue(t, v)
    PROVE  \/ /\ Len(stack[t]) = 1 /\ stack' = [stack EXCEPT ![t] = <<>>]
              /\ read' = [read EXCEPT ![t] = [cell |-> stack[t][1].cell, value |-> v]]
           \/ \E s : /\ Len(stack[t]) > 1 /\ stack' = [stack EXCEPT ![t] = s] /\ read' = read
                     /\ s # <<>> /\ s[1].cell = stack[t][1].cell

<1> DEFINE s == stack[t]
           n == Len(s)
<1>1. s \in Seq(FrameSet) /\ n \in Nat \ {0}  BY DEF Types
<1>2. DOMAIN stack = Threads /\ DOMAIN read = Threads  BY DEF Types
<1>3. CASE n = 1
  <2>1. Below(t) = <<>> /\ Top(t) = s[1]  BY <1>1, <1>3 DEF Below, Top
  <2> QED  BY <1>3, <2>1 DEF ReturnValue
<1>4. CASE n > 1
  <2> DEFINE g == [s[n - 1] EXCEPT !.got = Append(@, v)]
             r == Append(SubSeq(s, 1, n - 2), g)
  <2>1. Below(t) # <<>> /\ Below(t)[Len(Below(t))] = s[n - 1]  BY <1>1, <1>4 DEF Below
  <2>2. stack' = [stack EXCEPT ![t] = r] /\ read' = read
    BY <1>2, <2>1 DEF ReturnValue
  <2>3. s[n - 1] \in FrameSet /\ s[1] \in FrameSet  BY <1>1, <1>4
  <2>4. g.cell = s[n - 1].cell  BY <2>3 DEF FrameSet
  <2> HIDE DEF g
  <2>5. r # <<>> /\ r[1].cell = s[1].cell
    <3> DEFINE S == FrameSet \cup {g}
               m == n - 2
    <3>1. s \in Seq(S) /\ g \in S  BY <1>1
    <3>2. m \in Nat /\ m <= n  BY <1>1, <1>4
    <3> HIDE DEF S, n
    <3>3. /\ r \in Seq(S) /\ Len(r) = m + 1 /\ r[m + 1] = g
          /\ \A k \in 1..m : r[k] = s[k]
      <4> HIDE DEF m
      <4>1. m \in Nat /\ m <= Len(s)  BY <3>2 DEF n
      <4>2. r = Append(SubSeq(s, 1, m), g)  BY DEF m
      <4> HIDE DEF r
      <4> QED  BY <3>1, <4>1, <4>2, CutFacts
    <3> HIDE DEF r
    <3>4. r # <<>>
      <4>1. Len(<<>>) = 0  OBVIOUS
      <4> QED  BY <3>2, <3>3, <4>1
    <3>5. CASE m = 0
      <4>1. s[n - 1] = s[1]  BY <1>1, <3>5 DEF m
      <4> QED  BY <2>4, <3>3, <3>4, <3>5, <4>1
    <3>6. CASE m # 0
      <4>1. 1 \in 1..m  BY <1>1, <3>2, <3>6
      <4> QED  BY <3>3, <3>4, <4>1
    <3> QED  BY <3>5, <3>6
  <2> HIDE DEF r
  <2> QED  BY <1>4, <2>2, <2>5
<1> HIDE DEF n
<1>5. n = 1 \/ n > 1  BY <1>1
<1> QED  BY <1>3, <1>4, <1>5 DEF n

\* A read keeps asking for the cell it is for, until it returns; and returns a known one's value.
LEMMA ReadGoesOn ==
    ASSUME DeferredInv, NEW t \in Threads, ReadStep(t)
    PROVE  /\ stack[t] # <<>>
           /\ \A u \in Threads \ {t} : stack'[u] = stack[u] /\ read'[u] = read[u]
           /\ \/ stack'[t] # <<>> /\ stack'[t][1].cell = stack[t][1].cell /\ read'[t] = read[t]
              \/ stack'[t] = <<>> /\ read'[t].cell = stack[t][1].cell
           /\ \A c \in Cells : stack[t] = <<Frame(c)>> /\ value[c] # None =>
                 stack'[t] = <<>> /\ read'[t].value # None
<1> DEFINE s == stack[t]
           n == Len(s)
<1>1. s \in Seq(FrameSet) /\ s # <<>>  BY DEF DeferredInv, Types, ReadStep, Look, ReadInput, Keep, Reading
<1>2. n \in Nat \ {0} /\ Top(t) = s[n] /\ Top(t) \in FrameSet  BY <1>1 DEF Top
<1>3. DOMAIN stack = Threads /\ DOMAIN read = Threads  BY DEF DeferredInv, Types
<1>4. ASSUME NEW c \in Cells, s = <<Frame(c)>>
      PROVE  n = 1 /\ Top(t).cell = c /\ ~ Top(t).looked
  <2>1. n = 1 /\ s[1] = Frame(c)  BY <1>4, FrameIs, OneFacts
  <2>2. Top(t) = Frame(c)  BY <1>2, <2>1
  <2> QED  BY <2>1, <2>2, FrameIs
<1>5. ASSUME NEW v, ReturnValue(t, v)
      PROVE  /\ \A u \in Threads \ {t} : stack'[u] = stack[u] /\ read'[u] = read[u]
             /\ \/ stack'[t] # <<>> /\ stack'[t][1].cell = s[1].cell /\ read'[t] = read[t]
                \/ stack'[t] = <<>> /\ read'[t].cell = s[1].cell
             /\ n = 1 => stack'[t] = <<>> /\ read'[t].value = v
  <2>1. CASE /\ n = 1 /\ stack' = [stack EXCEPT ![t] = <<>>]
             /\ read' = [read EXCEPT ![t] = [cell |-> s[1].cell, value |-> v]]
    BY <1>3, <2>1
  <2>2. ASSUME NEW r, n > 1, stack' = [stack EXCEPT ![t] = r], read' = read,
               r # <<>>, r[1].cell = s[1].cell
        PROVE  /\ \A u \in Threads \ {t} : stack'[u] = stack[u] /\ read'[u] = read[u]
               /\ stack'[t] # <<>> /\ stack'[t][1].cell = s[1].cell /\ read'[t] = read[t]
               /\ n # 1
    BY <1>2, <1>3, <2>2
  <2> QED  BY <1>1, <1>5, <2>1, <2>2, ReturnIs DEF DeferredInv
<1>6. CASE Look(t)
  <2> DEFINE c == Top(t).cell
  <2>1. CASE value[c] # None /\ ReturnValue(t, value[c])
    <3>1. n = 1 => stack'[t] = <<>> /\ read'[t].value = value[c]  BY <1>5, <2>1
    <3>2. \A d \in Cells : s = <<Frame(d)>> /\ value[d] # None => stack'[t] = <<>> /\ read'[t].value # None
      BY <1>4, <3>1
    <3> QED  BY <1>1, <1>5, <2>1, <3>2
  <2>2. CASE /\ value[c] = None
             /\ stack' = [stack EXCEPT ![t] = <<>>]
             /\ read' = [read EXCEPT ![t] = [cell |-> s[1].cell, value |-> NotGivenYet]]
    BY <1>1, <1>3, <1>4, <2>2
  <2>3. CASE value[c] = None /\ SetTop(t, [Top(t) EXCEPT !.looked = TRUE]) /\ UNCHANGED read
    <3> DEFINE g == [Top(t) EXCEPT !.looked = TRUE]
               r == Append(SubSeq(s, 1, n - 1), g)
    <3>1. g \in FrameSet /\ g.cell = c  BY <1>2, LookedFrame
    <3>2. stack' = [stack EXCEPT ![t] = r]  BY <2>3 DEF SetTop, Below
    <3> HIDE DEF g
    <3>3. r # <<>> /\ r[1].cell = s[1].cell
      <4> DEFINE m == n - 1
      <4>1. m \in Nat /\ m <= n  BY <1>2
      <4>2. Len(r) = m + 1 /\ r[m + 1] = g /\ \A k \in 1..m : r[k] = s[k]
        <5> HIDE DEF m
        <5>1. m \in Nat /\ m <= Len(s)  BY <4>1
        <5>2. r = Append(SubSeq(s, 1, m), g)  BY DEF m
        <5> HIDE DEF r
        <5> QED  BY <1>1, <3>1, <5>1, <5>2, CutFacts
      <4>3. r # <<>>
        <5>1. Len(<<>>) = 0  OBVIOUS
        <5> HIDE DEF r
        <5> QED  BY <4>1, <4>2, <5>1
      <4> HIDE DEF r
      <4>4. CASE m = 0  BY <1>2, <3>1, <4>2, <4>3, <4>4
      <4>5. CASE m # 0
        <5>1. 1 \in 1..m
          <6> HIDE DEF n
          <6> QED  BY <1>2, <4>1, <4>5
        <5> QED  BY <4>2, <4>3, <5>1
      <4> QED  BY <4>4, <4>5
    <3> HIDE DEF r
    <3> QED  BY <1>1, <1>3, <1>4, <2>3, <3>2, <3>3
  <2> QED  BY <1>6, <2>1, <2>2, <2>3 DEF Look
<1>7. CASE ReadInput(t)
  <2> DEFINE f == Frame(Inputs[Top(t).cell][Len(Top(t).got) + 1])
             r == Append(s, f)
  <2>1. Top(t).looked /\ stack' = [stack EXCEPT ![t] = r] /\ read' = read  BY <1>7 DEF ReadInput
  <2>2. r # <<>> /\ r[1] = s[1]
    <3> HIDE DEF f
    <3> QED  BY <1>1, <1>2
  <2> HIDE DEF r
  <2> QED  BY <1>1, <1>3, <1>4, <2>1, <2>2
<1>8. CASE Keep(t)
  <2>1. Top(t).looked /\ \E v : ReturnValue(t, v)  BY <1>8 DEF Keep
  <2>2. PICK v : ReturnValue(t, v)  BY <2>1
  <2> QED  BY <1>1, <1>4, <1>5, <2>1, <2>2
<1> QED  BY <1>6, <1>7, <1>8 DEF ReadStep

LEMMA PlanKeeps ==
    ASSUME plan' = plan
    PROVE  /\ Ids' = Ids /\ ReadyReads' = ReadyReads /\ \A op : Reads(op)' = Reads(op)
           /\ \A op, at, s, r, v : ReadingOn(op, at, s, r, v)' <=> ReadingOn(op, at, s, r, v)
           /\ \A at, s, r : ReadAgain(at, s, r)' <=> ReadAgain(at, s, r)
<1>1. Ids' = Ids /\ Calls' = Calls /\ LensOf' = LensOf  BY DEF Ids, Calls, LensOf
<1>2. \A call : MetaReads(call)' = MetaReads(call)  BY DEF MetaReads
<1>3. CallsReady' = CallsReady /\ CallsBuild' = CallsBuild
  BY <1>1, <1>2 DEF CallsReady, CallsBuild
<1>4. ReadyReads' = ReadyReads  BY <1>1, <1>3 DEF ReadyReads
<1>5. \A op : Reads(op)' = Reads(op)  BY <1>1, <1>3, <1>4 DEF Reads
<1>6. \A id, v : Misfit(id, v)' <=> Misfit(id, v)  BY DEF Misfit
<1>7. \A op, at, s, r, v : ReadingOn(op, at, s, r, v)' <=> ReadingOn(op, at, s, r, v)
  BY <1>1, <1>5, <1>6 DEF ReadingOn
<1>8. \A at, s, r : ReadAgain(at, s, r)' <=> ReadAgain(at, s, r)
  BY <1>4, <1>5 DEF ReadAgain
<1> QED  BY <1>1, <1>4, <1>5, <1>7, <1>8

\* More values leave what was read there.
LEMMA ReadingStays ==
    ASSUME plan \in Plans, NEW op \in Runs, NEW at, NEW s, NEW r, NEW v, NEW w, Stays(v, w),
           ReadingOn(op, at, s, r, v)
    PROVE  ReadingOn(op, at, s, r, w)
<1> DEFINE reads == Reads(op)
<1>1. reads \in Seq(Cells) /\ at \in 1..(Len(reads) + 1)  BY ReadsAre DEF Runs, ReadingOn
<1>2. ASSUME NEW j \in 1..(at - 1) PROVE w[reads[j]] = v[reads[j]] /\ v[reads[j]] # None
  <2>1. j \in 1..Len(reads)  BY <1>1
  <2>2. reads[j] \in Cells  BY <1>1, <2>1
  <2>3. v[reads[j]] # None  BY DEF ReadingOn
  <2> QED  BY <2>2, <2>3 DEF Stays
<1>3. ASSUME op = "build", NEW id \in Ids, id < at PROVE ~ Misfit(id, w[plan.tensors[id].len])
  <2>1. id \in 1..(at - 1)  BY <1>1, <1>3, PlanIs
  <2>2. reads[id] = plan.tensors[id].len  BY <1>3, ReadsAre
  <2>3. w[plan.tensors[id].len] = v[plan.tensors[id].len]  BY <1>2, <2>1, <2>2
  <2> QED  BY <1>3, <2>3 DEF ReadingOn
<1> QED  BY <1>2, <1>3 DEF ReadingOn

\* The planner's reads stand still.
LEMMA ReadInvKept ==
    ASSUME PlaceInv, WorkOK, ReadInv, Stays(value, value'), plan' = plan, work' = work, ReadyBuilds',
           stack'[planner] = stack[planner], read'[planner] = read[planner]
    PROVE  ReadInv'
<1>1. CASE work.op = "idle"
  BY <1>1 DEF ReadInv
<1>2. CASE work.op # "idle"
  <2>1. plan \in Plans /\ work.op \in Runs  BY <1>2 DEF PlaceInv, WorkOK
  <2>2. ReadingOn(work.op, work.at, stack[planner], read[planner], value')
    BY <1>2, <2>1, ReadingStays DEF ReadInv
  <2>3. work.op = "build" => ReadAgain(work.at, stack[planner], read[planner])  BY DEF ReadInv
  <2> QED  BY <1>2, <2>2, <2>3, PlanKeeps DEF ReadInv
<1> QED  BY <1>1, <1>2

\* The planner is not in a read: it starts over, stops, or goes on to the next.
LEMMA ReadInvIdle ==
    ASSUME plan' = plan, work'.op = "idle", stack'[planner] = <<>>, ReadyBuilds'
    PROVE  ReadInv'
BY DEF ReadInv

\* A step of the planner's read.
LEMMA ReadInvGoes ==
    ASSUME PlaceInv, WorkOK, ReadInv, DeferredInv, Stays(value, value'), ReadStep(planner), UNCHANGED planvars
    PROVE  ReadInv'
<1> DEFINE op == work.op
           at == work.at
           s == stack[planner]
           reads == Reads(op)
<1>1. /\ s # <<>>
      /\ \/ stack'[planner] # <<>> /\ stack'[planner][1].cell = s[1].cell /\ read'[planner] = read[planner]
         \/ stack'[planner] = <<>> /\ read'[planner].cell = s[1].cell
      /\ \A c \in Cells : s = <<Frame(c)>> /\ value[c] # None =>
            stack'[planner] = <<>> /\ read'[planner].value # None
  BY PlannerAssumption, ReadGoesOn
<1>2. plan \in Plans /\ op \in Runs /\ plan' = plan /\ work' = work /\ result' = result
  BY <1>1 DEF PlaceInv, WorkOK, ReadInv, planvars
<1>3. reads \in Seq(Cells)  BY <1>2, ReadsAre DEF Runs
<1>4. ReadingOn(op, at, s, read[planner], value)  BY <1>2 DEF ReadInv, Runs
<1>5. at \in 1..Len(reads) /\ s[1].cell = reads[at] /\ read[planner] = None
  BY <1>1, <1>4 DEF ReadingOn
<1>6. ReadingOn(op, at, stack'[planner], read'[planner], value)
  BY <1>1, <1>4, <1>5 DEF ReadingOn
<1>7. ReadingOn(op, at, stack'[planner], read'[planner], value')  BY <1>2, <1>6, ReadingStays
<1>8. ASSUME op = "build" PROVE ReadAgain(at, stack'[planner], read'[planner])
  <2> SUFFICES ASSUME at > Len(ReadyReads)
               PROVE  stack'[planner] = <<>> /\ read'[planner].value # None
    BY DEF ReadAgain
  <2>1. s = <<Frame(reads[at])>>  BY <1>1, <1>8 DEF ReadInv, ReadAgain
  <2>2. reads[at] \in Cells  BY <1>3, <1>5
  <2>3. value[reads[at]] # None
    <3>1. reads[at] \in Range(reads)  BY <1>3, <1>5, RangeOf
    <3>2. reads[at] \in Range(ReadyReads) /\ ReadyReads \in Seq(Cells)  BY <1>2, <1>8, <3>1, ReadsAre
    <3>3. PICK j \in 1..Len(ReadyReads) : ReadyReads[j] = reads[at]  BY <3>2 DEF Range
    <3>4. reads[j] = reads[at]  BY <1>2, <1>8, <3>3, ReadsAre
    <3>5. j \in 1..(at - 1)  BY <1>5, <3>2
    <3> QED  BY <1>4, <3>4, <3>5 DEF ReadingOn
  <2> QED  BY <1>1, <2>1, <2>2, <2>3
<1>9. ReadyBuilds'  BY <1>2, PlanKeeps DEF ReadInv, ReadyBuilds
<1> QED  BY <1>2, <1>7, <1>8, <1>9, PlanKeeps DEF ReadInv, Runs

LEMMA ReadyBuildsStays ==
    ASSUME ReadyBuilds, plan' = plan, result' = result \/ result'.op # "build"
    PROVE  ReadyBuilds'
BY PlanKeeps DEF ReadyBuilds

LEMMA ReadInvAsk ==
    ASSUME PlaceInv, WorkOK, ReadInv, DeferredInv, Ask
    PROVE  ReadInv'
<1> DEFINE op == work.op
           at == work.at
           c == Reads(op)[at]
<1>1. /\ plan \in Plans /\ op \in Runs /\ op # "idle" /\ plan' = plan /\ work' = work /\ result' = result
      /\ value' = value
  BY DEF PlaceInv, WorkOK, Ask, planvars, StartValue, cellvars
<1>2. c \in Cells /\ StartValue(planner, c) /\ at <= Len(Reads(op))  BY DEF Ask
<1>3. stack'[planner] = <<Frame(c)>> /\ read'[planner] = None
  BY <1>2, PlannerAssumption DEF StartValue, DeferredInv, Types
<1>4. ReadingOn(op, at, stack[planner], read[planner], value)  BY <1>1 DEF ReadInv
<1>5. <<Frame(c)>> # <<>> /\ <<Frame(c)>>[1].cell = c  BY <1>2, FrameIs, OneFacts
<1>6. at \in 1..Len(Reads(op))
  <2>1. Reads(op) \in Seq(Cells)  BY <1>1, ReadsAre DEF Runs
  <2> QED  BY <1>2, <1>4, <2>1 DEF ReadingOn
<1>7. ReadingOn(op, at, <<Frame(c)>>, None, value)
  BY <1>4, <1>5, <1>6 DEF ReadingOn
<1>8. op = "build" => ReadAgain(at, <<Frame(c)>>, None)  BY DEF ReadAgain
<1>9. ReadyBuilds'  BY <1>1, ReadyBuildsStays DEF ReadInv
<1> QED  BY <1>1, <1>3, <1>7, <1>8, <1>9, PlanKeeps DEF ReadInv

LEMMA ReadInvTake ==
    ASSUME PlaceInv, WorkOK, ReadInv, DeferredInv, Take
    PROVE  ReadInv'
<1> DEFINE op == work.op
           at == work.at
           reads == Reads(op)
           got == read[planner].value
<1>1. /\ plan \in Plans /\ op \in Runs /\ op # "idle" /\ plan' = plan /\ at \in Nat
      /\ read[planner] # None
  BY DEF PlaceInv, WorkOK, Take, GiveBack
<1>2. stack' = stack /\ value' = value /\ read'[planner] = None
  BY PlannerAssumption DEF Take, Forget, cellvars, DeferredInv, Types
<1>3. ReadingOn(op, at, stack[planner], read[planner], value)  BY <1>1 DEF ReadInv
<1>4. reads \in Seq(Cells)  BY <1>1, ReadsAre DEF Runs
<1>5. stack[planner] = <<>> /\ at \in 1..Len(reads) /\ read[planner].cell = reads[at]
  BY <1>1, <1>3 DEF ReadingOn
<1>6. got # None => got = value[reads[at]]
  BY <1>1, <1>5, PlannerAssumption DEF DeferredInv, ReadsRight, ReadRight
<1>7. CASE got # None /\ (\A id \in LenReadAt(op, at) : ~ Misfit(id, got))
           /\ work' = [work EXCEPT !.at = @ + 1] /\ result' = result
  <2>1. work'.op = op /\ work'.at = at + 1  BY <1>7 DEF WorkOK
  <2>2. \A j \in 1..((at + 1) - 1) : value[reads[j]] # None
    BY <1>1, <1>3, <1>6, <1>7 DEF ReadingOn
  <2>3. ASSUME op = "build", NEW id \in Ids, id < at + 1 PROVE ~ Misfit(id, value[plan.tensors[id].len])
    <3>1. id \in Nat  BY <1>1, PlanIs
    <3>2. CASE id < at  BY <1>3, <2>3, <3>2 DEF ReadingOn
    <3>3. CASE id = at
      <4>1. reads[at] = plan.tensors[id].len  BY <1>1, <2>3, <3>3, ReadsAre
      <4>2. id \in LenReadAt(op, at)  BY <2>3, <3>3 DEF LenReadAt
      <4> QED  BY <1>6, <1>7, <4>1, <4>2
    <3> QED  BY <1>1, <2>3, <3>1, <3>2, <3>3
  <2>4. ReadingOn(op, at + 1, <<>>, None, value)
    <3>1. at + 1 \in 1..(Len(reads) + 1)  BY <1>4, <1>5
    <3> QED  BY <2>2, <2>3, <3>1 DEF ReadingOn
  <2>5. ReadAgain(at + 1, <<>>, None)  BY DEF ReadAgain
  <2>6. ReadyBuilds'  BY <1>1, <1>7, ReadyBuildsStays DEF ReadInv
  <2> QED  BY <1>1, <1>2, <1>5, <2>1, <2>4, <2>5, <2>6, PlanKeeps DEF ReadInv
<1>8. ASSUME NEW error, GiveBack(error), at <= Len(ReadyReads) \/ op # "build" PROVE ReadInv'
  <2>1. work'.op = "idle" /\ result' = Result(op, error)  BY <1>8 DEF GiveBack
  <2>2. result'.op = op /\ result'.at = at  BY <2>1 DEF Result
  <2>3. ReadyBuilds'  BY <1>1, <1>8, <2>2, PlanKeeps DEF ReadyBuilds
  <2> QED  BY <1>1, <1>2, <1>5, <2>1, <2>3, ReadInvIdle
<1>9. ASSUME op = "build", at > Len(ReadyReads)
      PROVE  got # None /\ \A id \in LenReadAt(op, at) : ~ Misfit(id, got)
  <2>1. got # None  BY <1>1, <1>9 DEF ReadInv, ReadAgain
  <2>2. ASSUME NEW id \in LenReadAt(op, at) PROVE ~ Misfit(id, got)
    <3>1. id \in Ids /\ (at = id \/ at = Len(ReadyReads) + id)  BY <2>2 DEF LenReadAt
    <3>2. id \in 1..Len(ReadyReads) /\ Len(ReadyReads) \in Nat  BY <1>1, <3>1, ReadsAre
    <3>3. at = Len(ReadyReads) + id /\ id < at  BY <1>1, <1>9, <3>1, <3>2
    <3>4. reads[at] = plan.tensors[id].len  BY <1>1, <1>9, <3>1, <3>3, ReadsAre
    <3>5. ~ Misfit(id, value[plan.tensors[id].len])  BY <1>3, <1>9, <3>1, <3>3 DEF ReadingOn
    <3> QED  BY <1>6, <2>1, <3>4, <3>5
  <2> QED  BY <2>1, <2>2
<1>10. at <= Len(ReadyReads) \/ at > Len(ReadyReads)
  <2>1. Len(ReadyReads) \in Nat  BY <1>1, ReadsAre
  <2> QED  BY <1>1, <2>1
<1>11. \/ got = None /\ GiveBack("NotGivenYet")
       \/ (\E id \in LenReadAt(op, at) : Misfit(id, got)) /\ GiveBack("LenMismatch")
       \/ got # None /\ (\A id \in LenReadAt(op, at) : ~ Misfit(id, got))
          /\ work' = [work EXCEPT !.at = @ + 1] /\ result' = result
  BY DEF Take, NotGivenYet
<1> HIDE DEF op, at, got, reads
<1>12. CASE got = None /\ GiveBack("NotGivenYet")  BY <1>8, <1>9, <1>10, <1>12
<1>13. CASE (\E id \in LenReadAt(op, at) : Misfit(id, got)) /\ GiveBack("LenMismatch")
  BY <1>8, <1>9, <1>10, <1>13
<1> QED  BY <1>7, <1>11, <1>12, <1>13 DEF op, at, got

\* What was read suits the data a live tensor starts with: upload finds it so.
LEMMA UploadsFit ==
    ASSUME plan \in Plans, Planned(plan), NEW id \in Ids, plan.tensors[id].init = "Upload",
           ~ Misfit(id, value[plan.tensors[id].len])
    PROVE  upload(plan.tensors[id].kind, BuiltTensor("build", id).len,
                  plan.tensors[id].data.kind, plan.tensors[id].data.len)
<1> DEFINE t == plan.tensors[id]
           len == UpTo(value[t.len], elems_per_host_word(t.kind))
<1>1. t \in Range(plan.tensors)  BY DEF Range, Ids
<1>2. t.data.len \in 0..(Word - 1)  BY <1>1, NamesAssumption
<1>3. same_kind(t.kind, t.data.kind)  BY <1>1 DEF Planned
<1>4. len = t.data.len  BY DEF Misfit, same_len
<1>5. whole_words(t.kind, value[t.len]) = Wrap(len)  BY DEF whole_words
<1>6. Wrap(len) = t.data.len
  <2> HIDE DEF len
  <2> QED  BY <1>2, <1>4, WordAssumption DEF Wrap
<1>7. BuiltTensor("build", id).len = t.data.len  BY <1>5, <1>6 DEF BuiltTensor
<1>8. OnWord(t.kind, 0)
  <2>1. bits_per_elem(t.kind) \in Nat  BY <1>1, NamesAssumption DEF bits_per_elem, DataType, DataKind
  <2>2. 0 * bits_per_elem(t.kind) = 0  BY <2>1
  <2>3. Wrap(0) = 0  BY WordAssumption DEF Wrap
  <2> QED  BY <2>2, <2>3 DEF OnWord, COPY_ALIGN
<1>9. byte_range(t.kind, t.data.len, 0, t.data.len, TRUE)  BY <1>2, <1>8, WordAssumption DEF byte_range
<1> QED  BY <1>3, <1>7, <1>9 DEF upload, upload_at, same_len, same_kind

LEMMA ReadInvBuild ==
    ASSUME PlaceInv, WorkOK, ReadInv, PlannedInv, Build
    PROVE  ReadInv'
<1> DEFINE op == work.op
           at == work.at
<1>1. /\ plan \in Plans /\ op \in Runs /\ op # "idle" /\ plan' = plan /\ at \in Nat /\ Planned(plan)
      /\ at > Len(Reads(op)) /\ stack' = stack
  BY DEF PlaceInv, WorkOK, PlannedInv, Build, GiveBack, deferred
<1>2. ReadingOn(op, at, stack[planner], read[planner], value)  BY <1>1 DEF ReadInv
<1>3. Reads(op) \in Seq(Cells)  BY <1>1, ReadsAre DEF Runs
<1>4. stack[planner] = <<>>  BY <1>1, <1>2, <1>3 DEF ReadingOn
<1>5. ASSUME op = "build" PROVE UploadFails(op) = {}
  <2>1. ASSUME NEW id \in Ids PROVE ~ Misfit(id, value[plan.tensors[id].len])
    <3>1. id \in 1..Len(ReadyReads) /\ Len(ReadyReads) <= Len(Reads("build")) /\ Len(ReadyReads) \in Nat
      BY <1>1, ReadsAre
    <3>2. id < at  BY <1>1, <1>3, <1>5, <3>1
    <3> QED  BY <1>2, <1>5, <3>2 DEF ReadingOn
  <2>2. Uploads  BY <1>1, <2>1, UploadsFit DEF Uploads
  <2> QED  BY <2>2 DEF UploadFails
<1>6. work'.op = "idle"  BY DEF Build, GiveBack
<1>7. ReadyBuilds'
  <2>1. CASE result' = Result(op, Ok)  BY <2>1 DEF Result, ReadyBuilds, Ok
  <2>2. ASSUME NEW error \in UploadFails(op) \cup NodeFails \cup LengthFails(Built(op)) \cup BackendFails,
               result' = Result(op, error)
        PROVE  ReadyBuilds'
    <3>1. result'.op = op /\ result'.error = error  BY <2>2 DEF Result
    <3>2. op = "build" => error \in {"NoWorkgroups", "TooShort", "Backend"}
      BY <1>5, <2>2 DEF NodeFails, LengthFails, BackendFails
    <3> QED  BY <3>1, <3>2 DEF ReadyBuilds
  <2> QED  BY <2>1, <2>2 DEF Build, GiveBack
<1> QED  BY <1>1, <1>4, <1>6, <1>7, ReadInvIdle

LEMMA ReadInvNext ==
    ASSUME DeferredInv, PlaceInv, WorkOK, PlannedInv, ReadInv, [Next]_vars
    PROVE  ReadInv'
<1>1. Stays(value, value')  BY PlanStep, ValuesGrow
<1>2. ASSUME UNCHANGED planvars, stack'[planner] = stack[planner], read'[planner] = read[planner]
      PROVE  ReadInv'
  BY <1>1, <1>2, ReadInvKept, ReadyBuildsStays DEF planvars, ReadInv
<1>3. CASE UNCHANGED vars  BY <1>2, <1>3 DEF vars, deferred
<1>4. CASE CellStepOfAny
  <2>1. ASSUME NEW t \in Threads, ReadStep(t) PROVE ReadInv'
    <3>1. UNCHANGED planvars  BY <1>4 DEF CellStepOfAny
    <3>2. CASE t = planner  BY <1>1, <2>1, <3>1, <3>2, ReadInvGoes
    <3>3. CASE t # planner  BY <1>2, <2>1, <3>1, <3>3, ReadGoesOn, PlannerAssumption
    <3> QED  BY <3>2, <3>3
  <2>2. CASE \/ \E c \in DOMAIN Given : resolver(c) \/ DropResolver(c) \/ \E v \in Given[c] : resolve(c, v)
             \/ \E d \in DOMAIN Dynamics : \E v \in Dynamics[d] : set(d, v)
    <3>1. stack' = stack /\ read' = read  BY <2>2 DEF resolver, DropResolver, resolve, set
    <3> QED  BY <1>2, <1>4, <3>1 DEF CellStepOfAny
  <2> QED  BY <1>4, <2>1, <2>2 DEF CellStepOfAny, CellStep
<1>5. ASSUME NEW t \in Threads, NEW c \in DOMAIN Inputs, Read(t, c) PROVE ReadInv'
  <2>1. t # planner /\ stack' = [stack EXCEPT ![t] = <<Frame(c)>>] /\ read' = [read EXCEPT ![t] = None]
        /\ UNCHANGED planvars
    BY <1>5 DEF Read, StartValue
  <2>2. DOMAIN stack = Threads /\ DOMAIN read = Threads  BY DEF DeferredInv, Types
  <2>3. stack'[planner] = stack[planner] /\ read'[planner] = read[planner]
    BY <2>1, <2>2, PlannerAssumption
  <2> QED  BY <1>2, <2>1, <2>3
<1>6. ASSUME NEW op \in Runs, Start(op) PROVE ReadInv'
  <2>1. plan' = plan /\ result' = result /\ work' = [op |-> op, at |-> 1] /\ stack' = stack
        /\ work.op = "idle" /\ plan \in Plans
    BY <1>6 DEF Start, Idle, Forget, PlaceInv
  <2>2. stack'[planner] = <<>> /\ read'[planner] = None
    BY <1>6, <2>1, PlannerAssumption DEF Start, Forget, ReadInv, DeferredInv, Types
  <2>3. Len(Reads(op)) \in Nat  BY <2>1, ReadsAre DEF Runs
  <2>4. \A id \in Ids : ~ (id < 1)  BY <2>1, PlanIs
  <2>5. ReadingOn(op, 1, <<>>, None, value')  BY <2>3, <2>4 DEF ReadingOn
  <2>6. ReadAgain(1, <<>>, None)  BY DEF ReadAgain
  <2>7. ReadyBuilds'  BY <2>1, ReadyBuildsStays DEF ReadInv
  <2> QED  BY <2>1, <2>2, <2>5, <2>6, <2>7, PlanKeeps DEF ReadInv, Runs
<1>7. CASE Ask  BY <1>7, ReadInvAsk
<1>8. CASE Take  BY <1>8, ReadInvTake
<1>9. CASE Build  BY <1>9, ReadInvBuild
<1>10. ASSUME plan' = plan, work' = work, UNCHANGED deferred, result' = result \/ result'.op = "run"
       PROVE  ReadInv'
  <2>1. ReadyBuilds'  BY <1>10, ReadyBuildsStays DEF ReadInv
  <2> QED  BY <1>1, <1>10, <2>1, ReadInvKept DEF deferred
<1>11. CASE finish  BY <1>10, <1>11 DEF finish
<1>12. ASSUME NEW r \in Runs,
               \/ \E from \in Runs, id \in DOMAIN run[r].tensors : fill_from(r, from, id)
               \/ \E id \in DOMAIN run[r].tensors, new \in EditTensors : EditTensor(r, id, new)
               \/ \E i, j \in DOMAIN run[r].tensors : SwapTensors(r, i, j)
               \/ \E c \in DOMAIN run[r].nodes, new \in EditNodes : EditNode(r, c, new)
       PROVE  ReadInv'
  <2>1. CASE \E from \in Runs, id \in DOMAIN run[r].tensors : fill_from(r, from, id)
    BY <1>10, <2>1 DEF fill_from
  <2>2. ASSUME NEW ts, NEW ns, edit(r, ts, ns) PROVE ReadInv'
    BY <1>10, <2>2 DEF edit, Result
  <2> QED  BY <1>12, <2>1, <2>2, EditIs
<1>13. ASSUME NEW r \in Runs,
              bind(r) \/ Unbind(r) \/ execute(r) \/ apply_dynamics(r) \/ capture(r) \/ release(r)
       PROVE  ReadInv'
  BY <1>10, <1>13 DEF bind, Unbind, execute, apply_dynamics, capture, release, Result
<1>14. ASSUME (\E f \in Fields : read_dynamic(f)) \/ (\E c \in Calls : set_meta(c)) \/ ReturnApply
       PROVE  ReadInv'
  <2>1. plan' = plan /\ work' = work /\ UNCHANGED deferred
    BY <1>14 DEF read_dynamic, set_meta, ReturnApply
  <2>2. result' = result \/ \E error : result' = Result("run", error)
    BY <1>14 DEF read_dynamic, set_meta, ReturnApply
  <2>3. result' = result \/ result'.op = "run"  BY <2>2 DEF Result
  <2> QED  BY <1>10, <2>1, <2>3
<1>15. CASE PlannerStep
  BY <1>6, <1>7, <1>8, <1>9, <1>11, <1>12, <1>13, <1>14, <1>15 DEF PlannerStep
<1> QED  BY <1>3, <1>4, <1>5, <1>15 DEF Next

LEMMA ReadInvInit == Init => ReadInv
<1> SUFFICES ASSUME Init PROVE ReadInv  OBVIOUS
<1>1. work.op = "idle" /\ stack[planner] = <<>> /\ result.op = "none"
  BY PlannerAssumption DEF Init, DeferredInit, Result
<1> QED  BY <1>1 DEF ReadInv, ReadyBuilds

LEMMA ReadsHold == Spec => [](DeferredInv /\ ReadInv)
<1>1. Init => DeferredInv  BY InitRight DEF Init
<1>2. DeferredInv /\ [Next]_vars => DeferredInv'  BY PlanStep, NextRight
<1> QED  BY <1>1, <1>2, ReadInvInit, ReadInvNext, FitHolds, PTL DEF Spec

\* Once every value that ready reads was there, and the data was of the lengths they
\* give, building does not fail on either, whatever other threads do meanwhile
\* (RunSpec::ready, RunSpec::build).
THEOREM ReadyMeansBuilt == Spec => []ReadyBuilds
<1>1. ReadInv => ReadyBuilds  BY DEF ReadInv
<1> QED  BY <1>1, ReadsHold, PTL

-----------------------------------------------------------------------------
\* Types.

\* A node has a word for each field of its shader.
IsNode(node) ==
    /\ node.shader \in DOMAIN Shaders
    /\ node.meta \in Seq(Nat) /\ Len(node.meta) = Len(Shaders[node.shader].fields)

IsTensor(tensor, n) == tensor \in [name : (1..n) \cup {None}, kind : DataKind, len : Nat]

\* Inside a scope the run also has the nodes it was bound with, of the same shaders.
TypedRun(q, n) ==
    /\ q.st \in {"none", "open", "bound", "captured", "replaying"}
    /\ \A id \in DOMAIN q.tensors : IsTensor(q.tensors[id], n)
    /\ \A c \in DOMAIN q.nodes : IsNode(q.nodes[c])
    /\ q.st \in {"bound", "replaying"} =>
          \A c \in Calls : IsNode(q.bound[c]) /\ q.bound[c].shader = q.nodes[c].shader

RunsTyped == \A r \in Runs : TypedRun(run[r], made)
DynamicsTyped == dynamic \in [DOMAIN Dynamics -> Values \cup {None}]
\* What apply_dynamics got are values that dynamics were set to.
ApplyTyped ==
    apply.on \in BOOLEAN /\ (apply.on => \A f \in DOMAIN apply.got : apply.got[f] \in Values)
SpecTyped == spec \in {"none", "refused", "here", "moved"}

TypedInv == DynamicsTyped /\ SpecTyped /\ RunsTyped /\ ApplyTyped

LEMMA WordsAre ==
    ASSUME NEW kind \in DataKind, NEW n \in Nat
    PROVE  whole_words(kind, n) \in Nat
<1>1. elems_per_host_word(kind) \in {1, 8}  BY DEF elems_per_host_word, DataType, DataKind
<1> DEFINE m == elems_per_host_word(kind)
<1>2. UpTo(n, m) \in Nat
  <2> HIDE DEF m
  <2>1. CASE m = 1  BY <2>1 DEF UpTo
  <2>2. CASE m = 8  BY <2>2 DEF UpTo
  <2> QED  BY <1>1, <2>1, <2>2 DEF m
<1>3. \A x \in Nat : Wrap(x) \in Nat  BY WordAssumption DEF Wrap
<1> QED  BY <1>2, <1>3 DEF whole_words

LEMMA MoreNames ==
    ASSUME NEW q, NEW n \in Nat, NEW k \in Nat, n <= k, TypedRun(q, n)
    PROVE  TypedRun(q, k)
<1>1. 1..n \subseteq 1..k  OBVIOUS
<1>2. \A t : IsTensor(t, n) => IsTensor(t, k)  BY <1>1 DEF IsTensor
<1> QED  BY <1>2 DEF TypedRun

LEMMA RunsNow ==
    ASSUME plan' = plan, \A r \in Runs : TypedRun(run'[r], made')
    PROVE  RunsTyped'
<1>1. Calls' = Calls  BY DEF Calls
<1>2. \A q, n : TypedRun(q, n)' <=> TypedRun(q, n)  BY <1>1 DEF TypedRun
<1> QED  BY <1>2 DEF RunsTyped

\* Runs that keep their tensors and nodes, and are in no scope or were in it.
LEMMA RunsKeepTypes ==
    ASSUME RunsTyped, plan' = plan, made' = made,
           \A r \in Runs :
              \/ run'[r] = run[r]
              \/ /\ run'[r].tensors = run[r].tensors /\ run'[r].nodes = run[r].nodes
                 /\ run'[r].st \in {"open", "captured"}
    PROVE  RunsTyped'
<1>1. \A r \in Runs : TypedRun(run'[r], made')  BY DEF RunsTyped, TypedRun
<1> QED  BY <1>1, RunsNow

LEMMA BuiltTyped ==
    ASSUME DeferredInv, plan \in Plans, Planned(plan), NEW op \in Runs, made \in Nat, NEW n \in Nat,
           \A j \in 1..Len(Reads(op)) : value[Reads(op)[j]] # None,
           n = IF op = "build" THEN made + Len(plan.tensors) ELSE made
    PROVE  TypedRun(Built(op), n)
<1>1. \A c \in Cells : value[c] # None => value[c] \in Nat
  BY NumbersAssumption DEF DeferredInv, Types
<1>2. ASSUME NEW id \in Ids PROVE IsTensor(BuiltTensor(op, id), n)
  <2> DEFINE t == plan.tensors[id]
  <2>1. t.kind \in DataKind /\ t.len \in Cells /\ id \in 1..Len(plan.tensors) /\ Len(plan.tensors) \in Nat
    BY PlanIs
  <2>2. value[t.len] \in Nat  BY <1>1, <2>1, AllRead
  <2>3. whole_words(t.kind, value[t.len]) \in Nat  BY <2>1, <2>2, WordsAre
  <2>4. op = "build" => made + id \in 1..n  BY <2>1
  <2> QED  BY <2>1, <2>2, <2>3, <2>4 DEF BuiltTensor, IsTensor
<1>3. ASSUME NEW c \in Calls PROVE IsNode(BuiltNode(plan.calls[c]))
  <2> DEFINE call == plan.calls[c]
             k == Len(call.sources)
             m == [i \in 1..k |-> build_value(call.sources[i])]
  <2>1. call.shader \in DOMAIN Shaders /\ DOMAIN call.sources = 1..k /\ k \in Nat
    <3>1. call.sources \in Seq(Range(call.sources)) /\ call.shader \in DOMAIN Shaders  BY PlanIs
    <3> HIDE DEF call
    <3> QED  BY <3>1
  <2>2. \A i \in 1..k : build_value(call.sources[i]) \in Nat
    <3>1. \A i \in DOMAIN call.sources :
            ~ call.sources[i].per_run => call.sources[i].from \in Cells /\ value[call.sources[i].from] # None
      BY PlanIs, AllRead
    <3> QED  BY <1>1, <2>1, <3>1 DEF build_value
  <2>3. Shaders[call.shader].fields = TypesOf(c)  BY PlannedCalls DEF meta_types
  <2>4. Len(TypesOf(c)) = k  BY <2>1 DEF TypesOf
  <2>5. BuiltNode(call) = [shader |-> call.shader, meta |-> m]  BY <2>1 DEF BuiltNode
  <2>6. m \in Seq(Nat) /\ Len(m) = k
    <3> HIDE DEF k, call
    <3> QED  BY <2>1, <2>2
  <2> HIDE DEF m, k
  <2> QED  BY <2>1, <2>3, <2>4, <2>5, <2>6 DEF IsNode
<1> HIDE DEF IsNode, IsTensor
<1> QED  BY <1>2, <1>3 DEF TypedRun, Built

LEMMA TypedBuild ==
    ASSUME DeferredInv, PlaceInv, RecordInv, WorkOK, PlannedInv, ReadInv, RunsTyped, Build
    PROVE  RunsTyped'
<1> DEFINE op == work.op
           b == Built(op)
<1>1. /\ plan \in Plans /\ Planned(plan) /\ op \in Runs /\ op # "idle" /\ made \in Nat /\ DOMAIN run = Runs
      /\ plan' = plan
  BY DEF PlaceInv, PlannedInv, WorkOK, RecordInv, Build, GiveBack
<1>2. CASE run' = run /\ made' = made  BY <1>1, <1>2, RunsKeepTypes
<1>3. CASE run' = [run EXCEPT ![op] = b] /\ made' = IF op = "build" THEN made + Len(plan.tensors) ELSE made
  <2>1. ReadingOn(op, work.at, stack[planner], read[planner], value) /\ work.at > Len(Reads(op))
        /\ Reads(op) \in Seq(Cells) /\ work.at \in Nat
    BY <1>1, ReadsAre DEF ReadInv, Build, Runs, WorkOK
  <2>2. \A j \in 1..Len(Reads(op)) : value[Reads(op)[j]] # None
    BY <2>1 DEF ReadingOn
  <2>3. made' \in Nat /\ made <= made'  BY <1>1, <1>3, PlanIs
  <2>4. TypedRun(b, made')
    <3> HIDE DEF b
    <3>1. b = Built(op)  BY DEF b
    <3> QED  BY <1>1, <1>3, <2>2, <2>3, <3>1, BuiltTyped
  <2> HIDE DEF b, op
  <2>5. \A r \in Runs : run'[r] = b \/ run'[r] = run[r]  BY <1>1, <1>3
  <2>6. \A r \in Runs : TypedRun(run[r], made')  BY <1>1, <2>3, MoreNames DEF RunsTyped
  <2>7. \A r \in Runs : TypedRun(run'[r], made')  BY <2>4, <2>5, <2>6
  <2> QED  BY <1>1, <2>7, RunsNow
<1> QED  BY <1>2, <1>3 DEF Build, GiveBack

LEMMA TypedFill ==
    ASSUME PlaceInv, RunsTyped, NEW to \in Runs, NEW from \in Runs, NEW id, fill_from(to, from, id),
           id \in DOMAIN run[to].tensors
    PROVE  RunsTyped'
<1> DEFINE hollow == run[to].tensors[id]
           live == run[from].tensors[id]
<1>1. /\ to # from /\ run[to].st = "open" /\ run[from].st = "open" /\ plan' = plan /\ made' = made
      /\ run' = [run EXCEPT ![to].tensors[id] = live, ![from].tensors[id] = hollow]
  BY DEF fill_from, Open
<1>2. IsRuns(run) /\ id \in DOMAIN run[from].tensors
  BY <1>1 DEF PlaceInv, Full
<1>3. IsTensor(hollow, made) /\ IsTensor(live, made)  BY <1>2 DEF RunsTyped, TypedRun
<1> HIDE DEF hollow, live
<1>4. /\ run'[to].tensors = [run[to].tensors EXCEPT ![id] = live]
      /\ run'[from].tensors = [run[from].tensors EXCEPT ![id] = hollow]
      /\ \A r \in {to, from} : run'[r].st = run[r].st /\ run'[r].nodes = run[r].nodes
      /\ \A r \in Runs \ {to, from} : run'[r] = run[r]
  BY <1>1, <1>2 DEF IsRuns, RunFields
<1>5. \A r \in {to, from} : \A i \in DOMAIN run'[r].tensors : IsTensor(run'[r].tensors[i], made)
  BY <1>3, <1>4 DEF RunsTyped, TypedRun
<1>6. \A r \in {to, from} : TypedRun(run'[r], made)
  BY <1>1, <1>4, <1>5 DEF RunsTyped, TypedRun
<1>7. ASSUME NEW r \in Runs \ {to, from} PROVE TypedRun(run'[r], made)
  <2>1. run'[r] = run[r] /\ r \in Runs  BY <1>4
  <2> QED  BY <2>1 DEF RunsTyped
<1>8. \A r \in Runs : TypedRun(run'[r], made')  BY <1>1, <1>6, <1>7
<1> QED  BY <1>1, <1>8, RunsNow

LEMMA TypedEdit ==
    ASSUME PlaceInv, RecordInv, RunsTyped, NEW r \in Runs, NEW ts, NEW ns, edit(r, ts, ns),
           made' \in Nat, made <= made',
           \A i \in DOMAIN ts : IsTensor(ts[i], made'), \A c \in DOMAIN ns : IsNode(ns[c])
    PROVE  RunsTyped'
<1>1. run'[r].st = "open" /\ \A p \in Runs \ {r} : run'[p] = run[p]  BY EditedRun
<1>2. run'[r].tensors = ts /\ run'[r].nodes = ns
  <2>1. run' = [run EXCEPT ![r] = [run[r] EXCEPT !.tensors = ts, !.nodes = ns]]  BY DEF edit
  <2>2. DOMAIN run = Runs /\ DOMAIN run[r] = RunFields  BY DEF RecordInv, RunKept
  <2> QED  BY <2>1, <2>2 DEF RunFields
<1>3. TypedRun(run'[r], made')  BY <1>1, <1>2 DEF TypedRun
<1>4. made \in Nat /\ plan' = plan  BY DEF PlaceInv, edit
<1>5. \A p \in Runs \ {r} : TypedRun(run'[p], made')  BY <1>1, <1>4, MoreNames DEF RunsTyped
<1> QED  BY <1>3, <1>4, <1>5, RunsNow

LEMMA TypedEdits ==
    ASSUME PlaceInv, RecordInv, RunsTyped, NEW r \in Runs,
           \/ \E id \in DOMAIN run[r].tensors, new \in EditTensors : EditTensor(r, id, new)
           \/ \E i, j \in DOMAIN run[r].tensors : SwapTensors(r, i, j)
           \/ \E c \in DOMAIN run[r].nodes, new \in EditNodes : EditNode(r, c, new)
    PROVE  RunsTyped'
<1>1. made \in Nat /\ (\A i \in DOMAIN run[r].tensors : IsTensor(run[r].tensors[i], made))
      /\ (\A c \in DOMAIN run[r].nodes : IsNode(run[r].nodes[c]))
  BY DEF PlaceInv, RunsTyped, TypedRun
<1>2. ASSUME NEW id \in DOMAIN run[r].tensors, NEW new \in EditTensors, EditTensor(r, id, new)
      PROVE  RunsTyped'
  <2> DEFINE t == [name |-> made + 1, kind |-> new.kind, len |-> new.len]
             ts == [run[r].tensors EXCEPT ![id] = t]
  <2>1. edit(r, ts, run[r].nodes) /\ made' = made + 1  BY <1>2 DEF EditTensor
  <2>2. 1..made \subseteq 1..made' /\ made' \in 1..made' /\ made' \in Nat /\ made <= made'
    BY <1>1, <2>1
  <2>3. new.kind \in DataKind /\ new.len \in Nat  BY EditsAssumption
  <2>4. IsTensor(t, made')  BY <2>1, <2>2, <2>3 DEF IsTensor
  <2> HIDE DEF t
  <2>5. \A i \in DOMAIN run[r].tensors : IsTensor(run[r].tensors[i], made')  BY <1>1, <2>2 DEF IsTensor
  <2>6. \A i \in DOMAIN ts : IsTensor(ts[i], made')  BY <2>4, <2>5
  <2> HIDE DEF ts
  <2> QED  BY <1>1, <2>1, <2>2, <2>6, TypedEdit
<1>3. ASSUME NEW i \in DOMAIN run[r].tensors, NEW j \in DOMAIN run[r].tensors, SwapTensors(r, i, j)
      PROVE  RunsTyped'
  <2> DEFINE ts == [run[r].tensors EXCEPT ![i] = run[r].tensors[j], ![j] = run[r].tensors[i]]
  <2>1. edit(r, ts, run[r].nodes) /\ made' = made  BY <1>3 DEF SwapTensors
  <2>2. \A k \in DOMAIN ts : ts[k] \in {run[r].tensors[i], run[r].tensors[j], run[r].tensors[k]}
        /\ k \in DOMAIN run[r].tensors
    OBVIOUS
  <2> HIDE DEF ts
  <2>3. \A k \in DOMAIN ts : IsTensor(ts[k], made')  BY <1>1, <2>1, <2>2
  <2> QED  BY <1>1, <2>1, <2>3, TypedEdit
<1>4. ASSUME NEW c \in DOMAIN run[r].nodes, NEW new \in EditNodes, EditNode(r, c, new)
      PROVE  RunsTyped'
  <2> DEFINE ns == [run[r].nodes EXCEPT ![c] = new]
  <2>1. edit(r, run[r].tensors, ns) /\ made' = made  BY <1>4 DEF EditNode
  <2>2. IsNode(new)  BY EditsAssumption DEF IsNode
  <2>3. \A d \in DOMAIN ns : IsNode(ns[d])  BY <1>1, <2>2
  <2> HIDE DEF ns
  <2> QED  BY <1>1, <2>1, <2>3, TypedEdit
<1> QED  BY <1>2, <1>3, <1>4

LEMMA TypedScope ==
    ASSUME RecordInv, RunsTyped, NEW r \in Runs,
           bind(r) \/ Unbind(r) \/ execute(r) \/ apply_dynamics(r) \/ capture(r) \/ release(r)
    PROVE  RunsTyped'
<1>1. DOMAIN run = Runs /\ DOMAIN run[r] = RunFields /\ (run[r].st # "none" => AreNodes(run[r].nodes))
  BY DEF RecordInv, RunKept
<1>2. plan' = plan /\ made' = made  BY DEF bind, Unbind, execute, apply_dynamics, capture, release
<1>3. CASE bind(r)
  <2>1. /\ run'[r].tensors = run[r].tensors /\ run'[r].nodes = run[r].nodes /\ run'[r].bound = run[r].nodes
        /\ run'[r].st \in {"bound", "replaying"} /\ run[r].st # "none"
        /\ \A p \in Runs \ {r} : run'[p] = run[p]
    BY <1>1, <1>3 DEF bind, RunFields
  <2>2. TypedRun(run'[r], made)  BY <1>1, <2>1 DEF RunsTyped, TypedRun, AreNodes
  <2>3. \A p \in Runs : TypedRun(run'[p], made')  BY <1>2, <2>1, <2>2 DEF RunsTyped
  <2> QED  BY <1>2, <2>3, RunsNow
<1>4. CASE Unbind(r) \/ execute(r) \/ apply_dynamics(r) \/ capture(r) \/ release(r)
  <2>1. \A p \in Runs :
           \/ run'[p] = run[p]
           \/ /\ run'[p].tensors = run[p].tensors /\ run'[p].nodes = run[p].nodes
              /\ run'[p].st \in {"open", "captured"}
    BY <1>1, <1>4 DEF Unbind, execute, apply_dynamics, capture, release, RunFields
  <2> QED  BY <1>2, <2>1, RunsKeepTypes
<1> QED  BY <1>3, <1>4

\* A node whose shader still has the call's fields gets a word for each.
LEMMA NewMetaIs ==
    ASSUME plan \in Plans, ApplyInv, ApplyTyped, RunsTyped, apply.on, NEW c \in Calls, c \in apply.todo,
           DOMAIN apply.got = Fields,
           meta_types(Shaders[run[apply.run].nodes[c].shader].fields, TypesOf(c))
    PROVE  NewMeta(c) \in Seq(Nat)
           /\ Len(NewMeta(c)) = Len(Shaders[run[apply.run].nodes[c].shader].fields)
<1> DEFINE call == plan.calls[c]
           k == Len(call.sources)
           bound == run[apply.run].bound[c]
           fields == Shaders[run[apply.run].nodes[c].shader].fields
           e(i) == IF i \in PerRunFields(c) THEN apply.got[<<c, i>>] ELSE bound.meta[i]
           m == [i \in 1..k |-> e(i)]
<1>1. apply.run \in Runs /\ InScope(apply.run) /\ c \in PerRun  BY DEF ApplyInv, Applying
<1>2. DOMAIN call.sources = 1..k /\ k \in Nat
  <2>1. call.sources \in Seq(Range(call.sources))  BY PlanIs
  <2> HIDE DEF call
  <2> QED  BY <2>1
<1>3. Len(fields) = k
  <2>1. fields = TypesOf(c)  BY DEF meta_types
  <2>2. Len(TypesOf(c)) = k  BY <1>2 DEF TypesOf
  <2> QED  BY <2>1, <2>2
<1>4. bound.meta \in Seq(Nat) /\ Len(bound.meta) = k
  <2>1. IsNode(bound) /\ bound.shader = run[apply.run].nodes[c].shader
    BY <1>1 DEF RunsTyped, TypedRun, InScope
  <2> HIDE DEF bound
  <2> QED  BY <1>3, <2>1 DEF IsNode
<1>5. \A i \in PerRunFields(c) : apply.got[<<c, i>>] \in Nat
  <2>1. \A i \in PerRunFields(c) : <<c, i>> \in Fields  BY <1>1 DEF Fields
  <2> QED  BY <2>1, NumbersAssumption DEF ApplyTyped
<1>6. \A i \in 1..k : e(i) \in Nat
  <2> HIDE DEF bound, k
  <2>1. \A i \in 1..k : bound.meta[i] \in Nat  BY <1>4
  <2> QED  BY <1>5, <2>1
<1>7. NewMeta(c) = m  BY <1>2 DEF NewMeta
<1>8. m \in Seq(Nat) /\ Len(m) = k
  <2> HIDE DEF e, k
  <2> QED  BY <1>2, <1>6
<1> HIDE DEF m, k, fields
<1> QED  BY <1>3, <1>7, <1>8 DEF fields

LEMMA TypedSet ==
    ASSUME PlaceInv, RecordInv, ApplyInv, ApplyTyped, RunsTyped, NEW c \in Calls, set_meta(c)
    PROVE  RunsTyped'
<1> DEFINE r == apply.run
           m == NewMeta(c)
<1>1. plan' = plan /\ made' = made /\ apply.on /\ plan \in Plans  BY DEF set_meta, PlaceInv
<1>2. r \in Runs /\ InScope(r)  BY <1>1 DEF ApplyInv, Applying
<1>3. CASE run' = run  BY <1>1, <1>3, RunsKeepTypes
<1>4. CASE /\ meta_types(Shaders[run[r].nodes[c].shader].fields, TypesOf(c))
           /\ run' = [run EXCEPT ![r].nodes[c].meta = m] /\ DOMAIN apply.got = Fields /\ c \in apply.todo
  <2>1. m \in Seq(Nat) /\ Len(m) = Len(Shaders[run[r].nodes[c].shader].fields)
    BY <1>1, <1>4, NewMetaIs
  <2>2. DOMAIN run = Runs /\ DOMAIN run[r] = RunFields /\ AreNodes(run[r].nodes)
    BY <1>2 DEF RecordInv, RunKept, InScope
  <2> HIDE DEF m, r
  <2>3. /\ run'[r].st = run[r].st /\ run'[r].bound = run[r].bound /\ run'[r].tensors = run[r].tensors
        /\ run'[r].nodes = [run[r].nodes EXCEPT ![c].meta = m]
        /\ \A p \in Runs \ {r} : run'[p] = run[p]
    BY <1>2, <1>4, <2>2 DEF RunFields
  <2>4. /\ DOMAIN run'[r].nodes = Calls
        /\ run'[r].nodes[c].meta = m /\ run'[r].nodes[c].shader = run[r].nodes[c].shader
        /\ \A d \in Calls \ {c} : run'[r].nodes[d] = run[r].nodes[d]
    BY <2>2, <2>3 DEF AreNodes
  <2>5. TypedRun(run[r], made) /\ DOMAIN run[r].nodes = Calls  BY <1>2, <2>2 DEF RunsTyped, AreNodes
  <2>6. IsNode(run'[r].nodes[c])  BY <2>1, <2>4, <2>5 DEF TypedRun, IsNode
  <2>7. TypedRun(run'[r], made)  BY <2>3, <2>4, <2>5, <2>6 DEF TypedRun
  <2>8. \A p \in Runs : TypedRun(run'[p], made')  BY <1>1, <2>3, <2>7 DEF RunsTyped
  <2> QED  BY <1>1, <2>8, RunsNow
<1> QED  BY <1>3, <1>4 DEF set_meta

LEMMA DynamicsStep == DynamicsTyped /\ [DeferredNext]_deferred => DynamicsTyped'
<1> SUFFICES ASSUME DynamicsTyped, [DeferredNext]_deferred PROVE DynamicsTyped'  OBVIOUS
<1>1. ASSUME NEW d \in DOMAIN Dynamics, NEW v \in Dynamics[d], set(d, v) PROVE DynamicsTyped'
  BY <1>1, ValuesAssumption DEF set, DynamicsTyped
<1>2. CASE dynamic' = dynamic  BY <1>2 DEF DynamicsTyped
<1>3. CASE \/ \E c \in DOMAIN Given : resolver(c) \/ DropResolver(c) \/ \E v \in Given[c] : resolve(c, v)
           \/ \E t \in Threads : ReadStep(t) \/ Forget(t) \/ \E c \in Cells : StartValue(t, c)
           \/ UNCHANGED deferred
  BY <1>2, <1>3 DEF resolver, DropResolver, resolve, ReadStep, Look, ReadInput, Keep, Forget, StartValue, deferred
<1> QED  BY <1>1, <1>3 DEF DeferredNext, CellStep

\* What a call's per-run field is read from is a dynamic.
LEMMA FieldIs ==
    ASSUME plan \in Plans, NEW f \in Fields
    PROVE  plan.calls[f[1]].sources[f[2]].from \in DOMAIN Dynamics
<1>1. PICK c \in PerRun : f \in {<<c, i>> : i \in PerRunFields(c)}  BY DEF Fields
<1>2. PICK i \in PerRunFields(c) : f = <<c, i>>  BY <1>1
<1>3. c \in Calls /\ i \in DOMAIN plan.calls[c].sources /\ plan.calls[c].sources[i].per_run
  BY DEF PerRun, PerRunFields
<1>4. plan.calls[c].sources[i].from \in DOMAIN Dynamics  BY <1>3, PlanIs
<1> QED  BY <1>2, <1>4

LEMMA ApplyTypedNext ==
    ASSUME PlaceInv, ApplyInv, DynamicsTyped, ApplyTyped, [Next]_vars
    PROVE  ApplyTyped'
<1>1. CASE apply' = apply  BY <1>1 DEF ApplyTyped
<1>2. ASSUME NEW r \in Runs, apply_dynamics(r) PROVE ApplyTyped'
  <2>1. apply'.on = TRUE /\ apply'.got = <<>>  BY <1>2 DEF apply_dynamics
  <2>2. DOMAIN <<>> = {}  OBVIOUS
  <2> QED  BY <2>1, <2>2 DEF ApplyTyped
<1>3. DOMAIN apply = {"on", "run", "got", "todo", "before"}  BY DEF ApplyInv
<1>4. CASE apply' = [apply EXCEPT !.on = FALSE]  BY <1>3, <1>4 DEF ApplyTyped
<1>5. ASSUME NEW f \in Fields, read_dynamic(f) PROVE ApplyTyped'
  <2> DEFINE v == dynamic[plan.calls[f[1]].sources[f[2]].from]
             got == [g \in DOMAIN apply.got \cup {f} |-> IF g = f THEN v ELSE apply.got[g]]
  <2>1. CASE v # None /\ apply' = [apply EXCEPT !.got = got]
    <3>1. v \in Values  BY <2>1, FieldIs DEF PlaceInv, DynamicsTyped
    <3>2. apply'.on = apply.on /\ apply'.got = got /\ apply.on  BY <1>3, <1>5, <2>1 DEF read_dynamic
    <3> HIDE DEF v
    <3>3. \A g \in DOMAIN got : got[g] \in Values  BY <3>1, <3>2 DEF ApplyTyped
    <3> QED  BY <3>2, <3>3 DEF ApplyTyped
  <2>2. CASE apply' = [apply EXCEPT !.on = FALSE]  BY <1>4, <2>2
  <2> QED  BY <1>5, <2>1, <2>2 DEF read_dynamic
<1>6. ASSUME NEW c \in Calls, set_meta(c) PROVE ApplyTyped'
  <2>1. CASE apply' = [apply EXCEPT !.todo = @ \ {c}]  BY <1>3, <2>1 DEF ApplyTyped
  <2> QED  BY <1>4, <1>6, <2>1 DEF set_meta
<1>7. CASE ReturnApply  BY <1>4, <1>7 DEF ReturnApply
<1>8. CASE UNCHANGED planvars \/ finish \/ (\E op \in Runs : Start(op)) \/ Take \/ Build
  BY <1>1, <1>8 DEF planvars, finish, Start, Take, GiveBack, Build
<1>9. CASE \/ \E to \in Runs : \E from \in Runs, id \in DOMAIN run[to].tensors : fill_from(to, from, id)
           \/ \E r \in Runs : \E ts, ns : edit(r, ts, ns)
           \/ \E r \in Runs : bind(r) \/ Unbind(r) \/ execute(r) \/ capture(r) \/ release(r)
  BY <1>1, <1>9 DEF fill_from, edit, bind, Unbind, execute, capture, release
<1> QED  BY <1>2, <1>5, <1>6, <1>7, <1>8, <1>9, StepIs

LEMMA SpecTypedNext ==
    ASSUME SpecTyped, [Next]_vars
    PROVE  SpecTyped'
<1>1. CASE spec' = spec  BY <1>1 DEF SpecTyped
<1>2. CASE finish  BY <1>2 DEF finish, SpecTyped
<1>3. CASE Build
  <2>1. spec' \in {spec, "moved"}  BY <1>3 DEF Build, GiveBack
  <2> QED  BY <2>1 DEF SpecTyped
<1>4. CASE UNCHANGED planvars \/ (\E op \in Runs : Start(op)) \/ Take
  BY <1>1, <1>4 DEF planvars, Start, Take, GiveBack
<1>5. CASE \/ \E to \in Runs : \E from \in Runs, id \in DOMAIN run[to].tensors : fill_from(to, from, id)
           \/ \E r \in Runs : \E ts, ns : edit(r, ts, ns)
           \/ \E r \in Runs : bind(r) \/ Unbind(r) \/ execute(r) \/ apply_dynamics(r) \/ capture(r) \/ release(r)
  BY <1>1, <1>5 DEF fill_from, edit, bind, Unbind, execute, apply_dynamics, capture, release
<1>6. CASE (\E f \in Fields : read_dynamic(f)) \/ (\E c \in Calls : set_meta(c)) \/ ReturnApply
  BY <1>1, <1>6 DEF read_dynamic, set_meta, ReturnApply
<1> QED  BY <1>2, <1>3, <1>4, <1>5, <1>6, StepIs

LEMMA RunsTypedNext ==
    ASSUME DeferredInv, PlaceInv, RecordInv, WorkOK, PlannedInv, ReadInv, ApplyInv, ApplyTyped, RunsTyped, [Next]_vars
    PROVE  RunsTyped'
<1>1. ASSUME plan' = plan, made' = made, run' = run PROVE RunsTyped'  BY <1>1, RunsKeepTypes
<1>2. CASE UNCHANGED vars \/ CellStepOfAny \/ \E t \in Threads, c \in DOMAIN Inputs : Read(t, c)
  BY <1>1, <1>2 DEF vars, planvars, CellStepOfAny, Read
<1>3. CASE finish \/ (\E op \in Runs : Start(op)) \/ Ask \/ Take
  BY <1>1, <1>3 DEF finish, Start, Ask, Take, GiveBack, planvars
<1>4. CASE Build  BY <1>4, TypedBuild
<1>5. ASSUME NEW r \in Runs,
             \/ \E from \in Runs, id \in DOMAIN run[r].tensors : fill_from(r, from, id)
             \/ \E id \in DOMAIN run[r].tensors, new \in EditTensors : EditTensor(r, id, new)
             \/ \E i, j \in DOMAIN run[r].tensors : SwapTensors(r, i, j)
             \/ \E c \in DOMAIN run[r].nodes, new \in EditNodes : EditNode(r, c, new)
      PROVE  RunsTyped'
  <2>1. CASE \E from \in Runs, id \in DOMAIN run[r].tensors : fill_from(r, from, id)
    BY <2>1, TypedFill
  <2> QED  BY <1>5, <2>1, TypedEdits
<1>6. ASSUME NEW r \in Runs,
             bind(r) \/ Unbind(r) \/ execute(r) \/ apply_dynamics(r) \/ capture(r) \/ release(r)
      PROVE  RunsTyped'
  BY <1>6, TypedScope
<1>7. CASE (\E f \in Fields : read_dynamic(f)) \/ ReturnApply
  BY <1>1, <1>7 DEF read_dynamic, ReturnApply
<1>8. ASSUME NEW c \in Calls, set_meta(c) PROVE RunsTyped'  BY <1>8, TypedSet
<1>9. CASE PlannerStep
  BY <1>3, <1>4, <1>5, <1>6, <1>7, <1>8, <1>9 DEF PlannerStep
<1> QED  BY <1>2, <1>9 DEF Next

LEMMA TypedInit == Init => TypedInv
<1> SUFFICES ASSUME Init PROVE TypedInv  OBVIOUS
<1>1. DynamicsTyped  BY DEF Init, DeferredInit, DynamicsTyped
<1>2. SpecTyped /\ ApplyTyped  BY DEF Init, SpecTyped, ApplyTyped
<1>3. \A r \in Runs : run[r] = NoRun  BY DEF Init
<1>4. TypedRun(NoRun, made)  BY DEF TypedRun, NoRun
<1>5. RunsTyped  BY <1>3, <1>4 DEF RunsTyped
<1> QED  BY <1>1, <1>2, <1>5 DEF TypedInv

\* Tensors have lengths and kinds and nodes a word for each field of their shader, with
\* any values that other threads give, edits that fit or not, and dynamics set at any
\* time: no node is made of a value that was not read (RunSpec::build, Run::edit,
\* Run::apply_dynamics).
THEOREM PlanTyped == Spec => []TypeOK
<1> DEFINE I == DeferredInv /\ ReadInv /\ PlaceInv /\ RecordInv /\ WorkOK /\ PlannedInv /\ FitInv /\ ApplyInv
<1>1. I /\ TypedInv /\ [Next]_vars => TypedInv'
  <2> SUFFICES ASSUME I, TypedInv, [Next]_vars PROVE TypedInv'  OBVIOUS
  <2>1. DynamicsTyped'  BY PlanStep, DynamicsStep DEF TypedInv
  <2>2. SpecTyped' /\ ApplyTyped'  BY SpecTypedNext, ApplyTypedNext DEF TypedInv
  <2>3. RunsTyped'  BY RunsTypedNext DEF TypedInv
  <2> QED  BY <2>1, <2>2, <2>3 DEF TypedInv
<1>2. I /\ TypedInv => TypeOK
  <2> SUFFICES ASSUME I, TypedInv PROVE TypeOK  OBVIOUS
  <2>1. DeferredTypeOK
    BY DEF DeferredInv, Types, TypedInv, DynamicsTyped, DeferredTypeOK, FrameSet, ReadSet, NotGivenYet
  <2>2. \A r \in Runs : RunOK(r)
    BY DEF TypedInv, RunsTyped, TypedRun, IsTensor, IsNode, RunOK
  <2> QED  BY <2>1, <2>2 DEF TypeOK, TypedInv, SpecTyped, ApplyTyped, WorkOK, PlaceInv, FitInv
<1>3. Spec => []I  BY ReadsHold, ApplyHolds, PTL
<1> QED  BY <1>1, <1>2, <1>3, TypedInit, PTL DEF Spec

=============================================================================
