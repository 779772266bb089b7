---------------------------- MODULE CommandProofs ----------------------------
(***************************************************************************)
(* Facts about sequences of commands that the proofs about devices need:   *)
(* what WithoutNew leaves of a sequence, as the sequence grows and         *)
(* shrinks, and which words NodeWords gives a node.                        *)
(***************************************************************************)
EXTENDS Commands, TLAPS, WellFoundedInduction, SequenceTheorems

-----------------------------------------------------------------------------
(* Induction, over sets instead of predicates.                             *)

\* A set of natural numbers that is not empty has a least one.
LEMMA Least ==
    ASSUME NEW T, T \subseteq Nat, T # {}
    PROVE  \E m \in T : \A n \in T : m <= n
<1> DEFINE R == OpToRel(<, Nat)
<1>1. IsWellFoundedOn(R, Nat)  BY NatLessThanWellFounded
<1>2. PICK m \in T : \A y \in T : ~(<<y, m>> \in R)
  <2> HIDE DEF R
  <2> QED  BY <1>1, WFMin
<1>3. \A y \in T : ~(y < m)  BY <1>2 DEF OpToRel
<1> QED  BY <1>3

\* What holds of the empty sequence and goes on to hold when an element is
\* appended holds of every sequence.
LEMMA SequencesGrow ==
    ASSUME NEW S, NEW T, <<>> \in T,
           \A q \in Seq(S), c \in S : q \in T => Append(q, c) \in T
    PROVE  \A q \in Seq(S) : q \in T
<1> DEFINE Out == {q \in Seq(S) : q \notin T}
           Lengths == {Len(q) : q \in Out}
<1> SUFFICES ASSUME Out # {} PROVE FALSE  OBVIOUS
<1>1. PICK m \in Lengths : \A n \in Lengths : m <= n
  <2>1. Lengths # {} /\ Lengths \subseteq Nat  OBVIOUS
  <2> HIDE DEF Lengths
  <2> QED  BY <2>1, Least
<1>2. PICK q \in Out : Len(q) = m  BY <1>1
<1>3. PICK p \in Seq(S), c \in S : q = Append(p, c)  BY <1>2, SequenceEmptyOrAppend
<1>4. Len(p) \in Nat /\ Len(q) = Len(p) + 1  BY <1>3, AppendProperties, LenProperties
<1>5. p \in T
  <2> SUFFICES ASSUME p \notin T PROVE FALSE  OBVIOUS
  <2>1. Len(p) \in Lengths  BY <1>3
  <2> QED  BY <1>1, <1>2, <1>4, <2>1
<1> QED  BY <1>2, <1>3, <1>5

-----------------------------------------------------------------------------
(* WithoutNew.                                                             *)

\* The recursion of WithoutNew is one for every sequence, and its function.
UpTo(q, f) ==
    f = [k \in 0..Len(q) |-> IF k = 0 THEN <<>>
                             ELSE IF q[k].op = "new" THEN f[k - 1]
                             ELSE Append(f[k - 1], q[k])]

LEMMA UpToAt ==
    ASSUME NEW q, NEW f, UpTo(q, f), NEW k \in 0..Len(q)
    PROVE  f[k] = IF k = 0 THEN <<>>
                  ELSE IF q[k].op = "new" THEN f[k - 1] ELSE Append(f[k - 1], q[k])
BY DEF UpTo

LEMMA UpToEnds ==
    ASSUME NEW S, NEW q \in Seq(S), NEW f, UpTo(q, f)
    PROVE  WithoutNew(q) = f[Len(q)]
<1> DEFINE g == CHOOSE g : UpTo(q, g)
<1>1. UpTo(q, g)  OBVIOUS
<1>2. WithoutNew(q) = g[Len(q)]  BY Zenon DEF WithoutNew, UpTo
<1> DEFINE Differ == {k \in 0..Len(q) : f[k] # g[k]}
<1> HIDE DEF g
<1>3. Differ = {}
  <2> SUFFICES ASSUME Differ # {} PROVE FALSE  OBVIOUS
  <2>1. PICK m \in Differ : \A n \in Differ : m <= n
    <3>1. Differ \subseteq Nat  OBVIOUS
    <3> HIDE DEF Differ
    <3> QED  BY <3>1, Least
  <2>2. m # 0  BY <1>1 DEF UpTo
  <2>3. f[m - 1] = g[m - 1]  BY <2>1, <2>2
  <2> QED  BY <1>1, <2>1, <2>2, <2>3 DEF UpTo
<1> QED  BY <1>2, <1>3

LEMMA UpToExists == ASSUME NEW S PROVE \A q \in Seq(S) : \E f : UpTo(q, f)
<1> DEFINE T == {q \in Seq(S) : \E f : UpTo(q, f)}
<1>1. <<>> \in T
  <2> UpTo(<<>>, [k \in 0..0 |-> <<>>])  BY DEF UpTo
  <2> QED  OBVIOUS
<1>2. ASSUME NEW q \in Seq(S), NEW c \in S, q \in T PROVE Append(q, c) \in T
  <2>1. PICK f : UpTo(q, f)  BY <1>2
  <2> DEFINE n == Len(q) + 1
             last == IF c.op = "new" THEN f[Len(q)] ELSE Append(f[Len(q)], c)
             g == [k \in 0..n |-> IF k = n THEN last ELSE f[k]]
             p == Append(q, c)
  <2>2. p \in Seq(S) /\ Len(p) = n /\ p[n] = c /\ \A k \in 1..Len(q) : p[k] = q[k]  OBVIOUS
  <2>3. DOMAIN g = 0..n /\ g[n] = last /\ \A k \in 0..Len(q) : g[k] = f[k]  OBVIOUS
  <2>0. n = Len(q) + 1 /\ Len(q) \in Nat  OBVIOUS
  <2> HIDE DEF p, g, n, last
  <2>4. UpTo(p, g)
    <3> DEFINE h == [k \in 0..Len(p) |-> IF k = 0 THEN <<>>
                                         ELSE IF p[k].op = "new" THEN g[k - 1]
                                         ELSE Append(g[k - 1], p[k])]
    <3>1. g[n] = h[n]  BY <2>0, <2>2, <2>3 DEF last
    <3>2. ASSUME NEW k \in 1..Len(q) PROVE g[k] = h[k]
      <4>1. f[k] = IF q[k].op = "new" THEN f[k - 1] ELSE Append(f[k - 1], q[k])
        BY <2>0, <2>1, UpToAt
      <4>2. g[k] = f[k] /\ g[k - 1] = f[k - 1] /\ p[k] = q[k]  BY <2>2, <2>3
      <4> QED  BY <2>0, <2>2, <4>1, <4>2
    <3>3. g[0] = h[0]
      <4>1. f[0] = <<>>  BY <2>0, <2>1, UpToAt
      <4> QED  BY <2>0, <2>2, <2>3, <4>1
    <3> HIDE DEF h
    <3>4. \A k \in 0..n : g[k] = h[k]  BY <2>0, <3>1, <3>2, <3>3
    <3>5. DOMAIN h = 0..n  BY <2>2 DEF h
    <3>6. g = h
      <4>1. g = [k \in 0..n |-> g[k]] /\ h = [k \in 0..n |-> h[k]]
        BY <3>5, <2>3 DEF g, h
      <4> QED  BY <4>1, <3>4
    <3> QED  BY <3>6 DEF UpTo, h
  <2> QED  BY <2>2, <2>4 DEF p
<1> HIDE DEF T
<1>3. \A q \in Seq(S) : q \in T  BY <1>1, <1>2, SequencesGrow
<1> QED  BY <1>3 DEF T

\* The empty sequence.
LEMMA WithoutNewEmpty == WithoutNew(<<>>) = <<>>
<1>1. PICK f : UpTo(<<>>, f)  BY UpToExists, EmptySeq
<1>2. f[0] = <<>>  BY <1>1 DEF UpTo
<1> QED  BY <1>1, <1>2, UpToEnds, EmptySeq

\* One command more: it stays, unless it is a new node's.
LEMMA WithoutNewAppend ==
    ASSUME NEW S, NEW q \in Seq(S), NEW c \in S
    PROVE  WithoutNew(Append(q, c)) =
               IF c.op = "new" THEN WithoutNew(q) ELSE Append(WithoutNew(q), c)
<1> DEFINE p == Append(q, c)
           n == Len(q) + 1
<1>1. p \in Seq(S) /\ Len(p) = n /\ n \in Nat /\ Len(q) \in Nat /\ p[n] = c
      /\ \A k \in 1..Len(q) : p[k] = q[k]
  BY AppendProperties, LenProperties
<1> HIDE DEF p
<1>2. PICK f : UpTo(p, f)  BY <1>1, UpToExists
<1> DEFINE g == [k \in 0..Len(q) |-> f[k]]
<1>3. UpTo(q, g)
  <2> DEFINE h == [k \in 0..Len(q) |-> IF k = 0 THEN <<>>
                                       ELSE IF q[k].op = "new" THEN g[k - 1]
                                       ELSE Append(g[k - 1], q[k])]
  <2>1. ASSUME NEW k \in 0..Len(q) PROVE g[k] = h[k]
    <3>1. f[k] = IF k = 0 THEN <<>> ELSE IF p[k].op = "new" THEN f[k - 1] ELSE Append(f[k - 1], p[k])
      BY <1>1, <1>2, UpToAt
    <3>2. k # 0 => p[k] = q[k] /\ g[k - 1] = f[k - 1]  BY <1>1
    <3> QED  BY <3>1, <3>2
  <2>2. g = h  BY <2>1
  <2> QED  BY <2>2 DEF UpTo
<1>4. WithoutNew(q) = f[Len(q)]
  <2>1. WithoutNew(q) = g[Len(q)]
    <3> HIDE DEF g
    <3> QED  BY <1>3, UpToEnds
  <2> QED  BY <1>1, <2>1
<1>5. WithoutNew(p) = f[n]  BY <1>1, <1>2, UpToEnds
<1>6. f[n] = IF p[n].op = "new" THEN f[n - 1] ELSE Append(f[n - 1], p[n])
  BY <1>1, <1>2, UpToAt
<1> QED  BY <1>1, <1>4, <1>5, <1>6 DEF p

LEMMA WithoutNewType ==
    ASSUME NEW S
    PROVE  \A q \in Seq(S) : WithoutNew(q) \in Seq(S)
<1> DEFINE T == {q \in Seq(S) : WithoutNew(q) \in Seq(S)}
<1>1. <<>> \in T  BY WithoutNewEmpty, EmptySeq
<1>2. ASSUME NEW q \in Seq(S), NEW c \in S, q \in T PROVE Append(q, c) \in T
  <2>1. WithoutNew(q) \in Seq(S)  BY <1>2
  <2>2. Append(q, c) \in Seq(S) /\ Append(WithoutNew(q), c) \in Seq(S)  BY <2>1, AppendProperties
  <2> QED  BY <2>1, <2>2, WithoutNewAppend
<1> HIDE DEF T
<1>3. \A q \in Seq(S) : q \in T  BY <1>1, <1>2, SequencesGrow
<1> QED  BY <1>3 DEF T

LEMMA ConcatAppend ==
    ASSUME NEW S, NEW p \in Seq(S), NEW q \in Seq(S), NEW c \in S
    PROVE  p \o Append(q, c) = Append(p \o q, c)
<1>1. <<c>> \in Seq(S)  OBVIOUS
<1>2. Append(q, c) = q \o <<c>>  BY AppendIsConcat
<1>3. Append(p \o q, c) = (p \o q) \o <<c>>  BY AppendIsConcat, ConcatProperties
<1> QED  BY <1>1, <1>2, <1>3, ConcatAssociative

LEMMA WithoutNewConcat ==
    ASSUME NEW S, NEW p \in Seq(S)
    PROVE  \A q \in Seq(S) : WithoutNew(p \o q) = WithoutNew(p) \o WithoutNew(q)
<1> DEFINE T == {q \in Seq(S) : WithoutNew(p \o q) = WithoutNew(p) \o WithoutNew(q)}
<1>0. WithoutNew(p) \in Seq(S)  BY WithoutNewType
<1>1. <<>> \in T  BY <1>0, WithoutNewEmpty, EmptySeq, ConcatEmptySeq
<1>2. ASSUME NEW q \in Seq(S), NEW c \in S, q \in T PROVE Append(q, c) \in T
  <2>1. p \o q \in Seq(S) /\ WithoutNew(q) \in Seq(S)  BY ConcatProperties, WithoutNewType
  <2>2. WithoutNew(p \o Append(q, c)) =
            IF c.op = "new" THEN WithoutNew(p \o q) ELSE Append(WithoutNew(p \o q), c)
    <3>1. p \o Append(q, c) = Append(p \o q, c)  BY ConcatAppend
    <3> QED  BY <2>1, <3>1, WithoutNewAppend
  <2>3. WithoutNew(p) \o WithoutNew(Append(q, c)) =
            IF c.op = "new" THEN WithoutNew(p) \o WithoutNew(q)
            ELSE Append(WithoutNew(p) \o WithoutNew(q), c)
    <3>1. WithoutNew(p) \o Append(WithoutNew(q), c) = Append(WithoutNew(p) \o WithoutNew(q), c)
      BY <1>0, <2>1, ConcatAppend
    <3> QED  BY <3>1, WithoutNewAppend
  <2>4. WithoutNew(p \o q) = WithoutNew(p) \o WithoutNew(q)  BY <1>2
  <2> QED  BY <2>2, <2>3, <2>4, AppendProperties
<1> HIDE DEF T
<1>3. \A q \in Seq(S) : q \in T  BY <1>1, <1>2, SequencesGrow
<1> QED  BY <1>3 DEF T

\* The oldest command gone: so it is from what stays, if it does.
LEMMA WithoutNewTail ==
    ASSUME NEW S, NEW q \in Seq(S), q # <<>>
    PROVE  /\ Head(q).op = "new" => WithoutNew(Tail(q)) = WithoutNew(q)
           /\ Head(q).op # "new" => /\ WithoutNew(q) # <<>>
                                    /\ Head(WithoutNew(q)) = Head(q)
                                    /\ Tail(WithoutNew(q)) = WithoutNew(Tail(q))
<1> DEFINE c == Head(q)
           rest == Tail(q)
           one == <<c>>
           w == WithoutNew(rest)
<1>1. c \in S /\ rest \in Seq(S)  BY HeadTailProperties
<1>2. one \in Seq(S) /\ one = Append(<<>>, c)  BY <1>1
<1>3. q = one \o rest  BY <1>1
<1>4. w \in Seq(S)  BY <1>1, WithoutNewType
<1>5. WithoutNew(one) = IF c.op = "new" THEN <<>> ELSE one
  BY <1>1, <1>2, WithoutNewAppend, WithoutNewEmpty, EmptySeq
<1> HIDE DEF c, rest, w
<1>6. WithoutNew(q) = WithoutNew(one) \o w
  <2> HIDE DEF one
  <2> QED  BY <1>1, <1>2, <1>3, WithoutNewConcat DEF w
<1>7. ASSUME c.op = "new" PROVE WithoutNew(q) = w  BY <1>4, <1>5, <1>6, <1>7, ConcatEmptySeq
<1>8. ASSUME c.op # "new" PROVE WithoutNew(q) # <<>> /\ Head(WithoutNew(q)) = c /\ Tail(WithoutNew(q)) = w
  <2>1. WithoutNew(q) = one \o w /\ one = <<c>> /\ one \in Seq(S)  BY <1>2, <1>5, <1>6, <1>8
  <2> HIDE DEF one
  <2>2. Len(one) = 1 /\ one[1] = c  BY <2>1
  <2>3. /\ one \o w \in Seq(S) /\ Len(one \o w) = 1 + Len(w) /\ Len(w) \in Nat
        /\ \A i \in 1 .. 1 + Len(w) : (one \o w)[i] = IF i <= 1 THEN one[i] ELSE w[i - 1]
    BY <1>4, <2>1, <2>2, ConcatProperties, LenProperties
  <2>4. one \o w # <<>> /\ Head(one \o w) = c  BY <2>2, <2>3
  <2>5. Tail(one \o w) = w
    <3>1. /\ Tail(one \o w) \in Seq(S) /\ Len(Tail(one \o w)) = Len(w)
          /\ \A i \in 1 .. Len(w) : Tail(one \o w)[i] = (one \o w)[i + 1]
      BY <2>3, <2>4, HeadTailProperties
    <3>2. \A i \in 1 .. Len(w) : Tail(one \o w)[i] = w[i]  BY <2>3, <3>1
    <3> QED  BY <1>4, <3>1, <3>2, SeqEqual
  <2> QED  BY <2>1, <2>4, <2>5
<1> QED  BY <1>7, <1>8 DEF c, rest, w

\* What stays is every command that isn't a new node's.
Elements(q) == {q[k] : k \in DOMAIN q}

LEMMA ElementsAppend ==
    ASSUME NEW S, NEW q \in Seq(S), NEW c \in S
    PROVE  Elements(Append(q, c)) = Elements(q) \cup {c}
<1> DEFINE p == Append(q, c)
<1>1. DOMAIN p = 1..(Len(q) + 1) /\ DOMAIN q = 1..Len(q) /\ Len(q) \in Nat
      /\ p[Len(q) + 1] = c /\ \A k \in 1..Len(q) : p[k] = q[k]
  BY AppendProperties, LenProperties
<1> HIDE DEF p
<1>2. Elements(p) = Elements(q) \cup {c}  BY <1>1 DEF Elements
<1> QED  BY <1>2 DEF p

LEMMA WithoutNewElements ==
    ASSUME NEW S
    PROVE  \A q \in Seq(S) : Elements(WithoutNew(q)) = {c \in Elements(q) : c.op # "new"}
<1> DEFINE T == {q \in Seq(S) : Elements(WithoutNew(q)) = {c \in Elements(q) : c.op # "new"}}
<1>1. <<>> \in T  BY WithoutNewEmpty, EmptySeq DEF Elements
<1>2. ASSUME NEW q \in Seq(S), NEW c \in S, q \in T PROVE Append(q, c) \in T
  <2>1. WithoutNew(q) \in Seq(S) /\ Append(q, c) \in Seq(S)  BY WithoutNewType, AppendProperties
  <2>2. Elements(Append(q, c)) = Elements(q) \cup {c}  BY ElementsAppend
  <2>3. Elements(WithoutNew(Append(q, c))) =
            Elements(WithoutNew(q)) \cup (IF c.op = "new" THEN {} ELSE {c})
    <3>1. CASE c.op = "new"  BY <3>1, WithoutNewAppend
    <3>2. CASE c.op # "new"
      <4>1. WithoutNew(Append(q, c)) = Append(WithoutNew(q), c)  BY <3>2, WithoutNewAppend
      <4> QED  BY <2>1, <3>2, <4>1, ElementsAppend
    <3> QED  BY <3>1, <3>2
  <2> QED  BY <1>2, <2>1, <2>2, <2>3
<1> HIDE DEF T
<1>3. \A q \in Seq(S) : q \in T  BY <1>1, <1>2, SequencesGrow
<1> QED  BY <1>3 DEF T

\* Where there are no new nodes, everything stays.
LEMMA WithoutNewNone ==
    ASSUME NEW S, NEW q \in Seq(S), \A k \in DOMAIN q : q[k].op # "new"
    PROVE  WithoutNew(q) = q
<1> DEFINE T == {r \in Seq(S) : (\A c \in Elements(r) : c.op # "new") => WithoutNew(r) = r}
<1>1. <<>> \in T  BY EmptySeq, WithoutNewEmpty
<1>2. ASSUME NEW r \in Seq(S), NEW c \in S, r \in T PROVE Append(r, c) \in T
  <2> DEFINE p == Append(r, c)
  <2>1. p \in Seq(S) /\ Elements(p) = Elements(r) \cup {c}  BY AppendProperties, ElementsAppend
  <2>2. WithoutNew(p) = IF c.op = "new" THEN WithoutNew(r) ELSE Append(WithoutNew(r), c)
    BY WithoutNewAppend
  <2>3. ASSUME \A d \in Elements(p) : d.op # "new" PROVE WithoutNew(p) = p
    <3>1. c.op # "new" /\ \A d \in Elements(r) : d.op # "new"  BY <2>1, <2>3
    <3>2. WithoutNew(r) = r  BY <1>2, <3>1
    <3> QED  BY <2>2, <3>1, <3>2
  <2> HIDE DEF p
  <2>4. p \in T  BY <2>1, <2>3
  <2> QED  BY <2>4 DEF p
<1> HIDE DEF T
<1>3. q \in T  BY <1>1, <1>2, SequencesGrow
<1> QED  BY <1>3 DEF T, Elements

LEMMA ElementsConcat ==
    ASSUME NEW S, NEW p \in Seq(S), NEW q \in Seq(S)
    PROVE  Elements(p \o q) = Elements(p) \cup Elements(q)
<1> DEFINE r == p \o q
           m == Len(p)
           n == Len(q)
<1>1. /\ m \in Nat /\ n \in Nat /\ DOMAIN p = 1..m /\ DOMAIN q = 1..n /\ DOMAIN r = 1..(m + n)
      /\ \A k \in 1..m : r[k] = p[k]
      /\ \A k \in 1..n : r[m + k] = q[k]
      /\ \A k \in (m + 1)..(m + n) : r[k] = q[k - m]
  BY ConcatProperties, LenProperties
<1> HIDE DEF r, m, n
<1>2. Elements(r) \subseteq Elements(p) \cup Elements(q)
  <2> SUFFICES ASSUME NEW k \in 1..(m + n) PROVE r[k] \in Elements(p) \cup Elements(q)
    BY <1>1 DEF Elements
  <2>1. CASE k <= m
    <3>1. k \in 1..m /\ r[k] = p[k]  BY <1>1, <2>1
    <3> QED  BY <1>1, <3>1 DEF Elements
  <2>2. CASE k > m
    <3>1. k - m \in 1..n /\ r[k] = q[k - m]  BY <1>1, <2>2
    <3> QED  BY <1>1, <3>1 DEF Elements
  <2> QED  BY <1>1, <2>1, <2>2
<1>3. Elements(p) \subseteq Elements(r)  BY <1>1 DEF Elements
<1>4. Elements(q) \subseteq Elements(r)
  <2> SUFFICES ASSUME NEW k \in 1..n PROVE q[k] \in Elements(r)  BY <1>1 DEF Elements
  <2>1. m + k \in 1..(m + n)  BY <1>1
  <2> QED  BY <1>1, <2>1 DEF Elements
<1> QED  BY <1>2, <1>3, <1>4 DEF r

LEMMA ElementsTail ==
    ASSUME NEW S, NEW q \in Seq(S), q # <<>>
    PROVE  Elements(q) = {Head(q)} \cup Elements(Tail(q))
<1> DEFINE r == Tail(q)
           n == Len(q)
<1>1. /\ n \in Nat \ {0} /\ DOMAIN q = 1..n /\ DOMAIN r = 1..(n - 1) /\ Head(q) = q[1]
      /\ \A k \in 1..(n - 1) : r[k] = q[k + 1]
  BY HeadTailProperties, LenProperties, EmptySeq
<1> HIDE DEF r, n
<1>2. ASSUME NEW k \in 1..n PROVE q[k] \in {Head(q)} \cup Elements(r)
  <2>1. CASE k = 1  BY <1>1, <2>1
  <2>2. CASE k # 1
    <3>1. k - 1 \in 1..(n - 1) /\ r[k - 1] = q[k]  BY <1>1, <2>2
    <3> QED  BY <1>1, <3>1 DEF Elements
  <2> QED  BY <2>1, <2>2
<1>3. ASSUME NEW k \in 1..(n - 1) PROVE r[k] \in Elements(q)
  <2>1. k + 1 \in 1..n  BY <1>1
  <2> QED  BY <1>1, <2>1 DEF Elements
<1>4. Head(q) \in Elements(q)  BY <1>1 DEF Elements
<1>5. Elements(r) \subseteq Elements(q)  BY <1>1, <1>3 DEF Elements
<1>6. Elements(q) \subseteq {Head(q)} \cup Elements(r)  BY <1>1, <1>2 DEF Elements
<1> QED  BY <1>4, <1>5, <1>6 DEF r

LEMMA TailOfConcat ==
    ASSUME NEW S, NEW p \in Seq(S), NEW q \in Seq(S), p # <<>>
    PROVE  p \o q # <<>> /\ Head(p \o q) = Head(p) /\ Tail(p \o q) = Tail(p) \o q
<1> DEFINE r == p \o q
           rest == Tail(p)
           one == <<Head(p)>>
<1>1. rest \in Seq(S) /\ one \in Seq(S) /\ Len(one) = 1 /\ Head(p) \in S /\ one[1] = Head(p)
  BY HeadTailProperties
<1>2. p = one \o rest  OBVIOUS
<1> HIDE DEF rest, one
<1> DEFINE w == rest \o q
<1>0. rest \in Seq(S) /\ one \in Seq(S)  BY <1>1
<1>3. (one \o rest) \o q = one \o w  BY <1>0, ConcatAssociative
<1>4. w \in Seq(S) /\ r = one \o w  BY <1>1, <1>2, <1>3, ConcatProperties
<1> HIDE DEF w, r
<1>5. /\ r \in Seq(S) /\ Len(r) = 1 + Len(w) /\ Len(w) \in Nat
      /\ \A i \in 1 .. 1 + Len(w) : r[i] = IF i <= 1 THEN one[i] ELSE w[i - 1]
  <2>1. /\ one \o w \in Seq(S) /\ Len(one \o w) = Len(one) + Len(w)
        /\ \A i \in 1 .. Len(one) + Len(w) :
              (one \o w)[i] = IF i <= Len(one) THEN one[i] ELSE w[i - Len(one)]
    BY <1>1, <1>4, ConcatProperties
  <2> QED  BY <1>1, <1>4, <2>1, LenProperties
<1>6. r # <<>> /\ Head(r) = Head(p)  BY <1>1, <1>5
<1>7. Tail(r) = w
  <2>1. /\ Tail(r) \in Seq(S) /\ Len(Tail(r)) = Len(w)
        /\ \A i \in 1 .. Len(w) : Tail(r)[i] = r[i + 1]
    BY <1>5, <1>6, HeadTailProperties
  <2>2. \A i \in 1 .. Len(w) : Tail(r)[i] = w[i]  BY <1>5, <2>1
  <2> QED  BY <1>4, <2>1, <2>2, SeqEqual
<1> QED  BY <1>6, <1>7 DEF r, w, rest

LEMMA ElementsType ==
    ASSUME NEW S, NEW q \in Seq(S)
    PROVE  Elements(q) \subseteq S
BY ElementOfSeq, LenProperties DEF Elements

-----------------------------------------------------------------------------
(* Commands in the order of their calls.                                   *)

\* A command has the operands its operation needs.
WellFormed(c) ==
    /\ c.op = "write" => c.to \in Buffers /\ c.value \in Values
    /\ c.op = "copy" => c.from \in Buffers /\ c.to \in Locations
    /\ c.op = "clear" => c.to \in Buffers
    /\ c.op = "run" => c.node \in Nodes /\ c.from \in Buffers /\ c.to \in Buffers
    /\ c.op \in {"meta", "new"} => c.node \in Nodes /\ c.value \in Words

Sound(c, built) == c \in Command /\ WellFormed(c) /\ c.node \in built \cup {None}

\* The commands of the calls.
LEMMA CommandTypes ==
    ASSUME NEW id \in Nat
    PROVE  /\ \A b \in Buffers, v \in Values : \A built :
                  Sound(write(id, b, v), built) /\ write(id, b, v).op = "write"
           /\ \A a \in Buffers, b \in Locations : \A built :
                  Sound(copy(id, a, b), built) /\ copy(id, a, b).op = "copy"
           /\ \A b \in Buffers : \A built :
                  Sound(clear(id, b), built) /\ clear(id, b).op = "clear"
           /\ \A n \in Nodes, a, b \in Buffers : run(id, n, a, b).op = "run"
                  /\ \A built : n \in built => Sound(run(id, n, a, b), built)
           /\ \A n \in Nodes, w \in Words : meta(id, n, w).op = "meta"
                  /\ \A built : n \in built => Sound(meta(id, n, w), built)
           /\ \A n \in Nodes, w \in Words :
                  /\ new(id, n, w) \in Command /\ WellFormed(new(id, n, w))
                  /\ new(id, n, w).op = "new" /\ new(id, n, w).node = n
                  /\ new(id, n, w).value = w
<1>1. ASSUME NEW b \in Buffers, NEW v \in Values, NEW built
      PROVE  Sound(write(id, b, v), built) /\ write(id, b, v).op = "write"
  BY DEF Sound, WellFormed, Command, Locations, write
<1>2. ASSUME NEW a \in Buffers, NEW b \in Locations, NEW built
      PROVE  Sound(copy(id, a, b), built) /\ copy(id, a, b).op = "copy"
  BY DEF Sound, WellFormed, Command, Locations, copy
<1>3. ASSUME NEW b \in Buffers, NEW built
      PROVE  Sound(clear(id, b), built) /\ clear(id, b).op = "clear"
  BY DEF Sound, WellFormed, Command, Locations, clear
<1>4. ASSUME NEW n \in Nodes, NEW a \in Buffers, NEW b \in Buffers
      PROVE  run(id, n, a, b).op = "run" /\ \A built : n \in built => Sound(run(id, n, a, b), built)
  BY DEF Sound, WellFormed, Command, Locations, run
<1>5. ASSUME NEW n \in Nodes, NEW w \in Words
      PROVE  meta(id, n, w).op = "meta" /\ \A built : n \in built => Sound(meta(id, n, w), built)
  BY DEF Sound, WellFormed, Command, Locations, meta
<1>6. ASSUME NEW n \in Nodes, NEW w \in Words
      PROVE  /\ new(id, n, w) \in Command /\ WellFormed(new(id, n, w))
             /\ new(id, n, w).op = "new" /\ new(id, n, w).node = n
             /\ new(id, n, w).value = w
  BY DEF WellFormed, Command, Locations, new, meta
<1> QED  BY <1>1, <1>2, <1>3, <1>4, <1>5, <1>6

\* Commands are about nodes that were built; a new node's words come before
\* every other command about it.
Ordered(q, built) ==
    /\ q \in Seq(Command)
    /\ \A k \in DOMAIN q : Sound(q[k], built)
    /\ \A j, k \in DOMAIN q : j < k /\ q[k].op = "new" => q[j].node # q[k].node

LEMMA OrderedConcat ==
    ASSUME NEW built, NEW q, NEW r \in Seq(Command), Ordered(q, built),
           \A k \in DOMAIN r : Sound(r[k], built) /\ r[k].op # "new"
    PROVE  Ordered(q \o r, built)
<1> DEFINE p == q \o r
           m == Len(q)
           n == Len(r)
<1>1. /\ p \in Seq(Command)
      /\ m \in Nat /\ n \in Nat /\ DOMAIN q = 1..m /\ DOMAIN r = 1..n /\ DOMAIN p = 1..(m + n)
      /\ \A k \in 1..m : p[k] = q[k]
      /\ \A k \in (m + 1)..(m + n) : k - m \in 1..n /\ p[k] = r[k - m]
  BY ConcatProperties, LenProperties DEF Ordered
<1> HIDE DEF p, m, n
<1>2. ASSUME NEW k \in DOMAIN p PROVE k \in 1..m \/ k \in (m + 1)..(m + n)  BY <1>1
<1>3. ASSUME NEW k \in DOMAIN p PROVE Sound(p[k], built)  BY <1>1, <1>2 DEF Ordered
<1>4. ASSUME NEW j \in DOMAIN p, NEW k \in DOMAIN p, j < k, p[k].op = "new"
      PROVE  p[j].node # p[k].node
  <2>1. k \in 1..m  BY <1>1, <1>2, <1>4
  <2>2. j \in 1..m  BY <1>1, <1>4, <2>1
  <2> QED  BY <1>1, <1>4, <2>1, <2>2 DEF Ordered
<1>5. Ordered(p, built)  BY <1>1, <1>3, <1>4 DEF Ordered
<1> QED  BY <1>5 DEF p

LEMMA OrderedAppend ==
    ASSUME NEW built, NEW q, NEW c, Ordered(q, built), Sound(c, built), c.op # "new"
    PROVE  Ordered(Append(q, c), built)
<1> DEFINE r == <<c>>
<1>1. r \in Seq(Command) /\ DOMAIN r = {1} /\ r[1] = c  BY DEF Sound
<1>2. Append(q, c) = q \o r  BY AppendIsConcat DEF Ordered, Sound
<1> HIDE DEF r
<1> QED  BY <1>1, <1>2, OrderedConcat

LEMMA OrderedTail ==
    ASSUME NEW built, NEW q, Ordered(q, built), q # <<>>
    PROVE  Ordered(Tail(q), built)
<1> DEFINE r == Tail(q)
           n == Len(q)
<1>1. /\ r \in Seq(Command)
      /\ n \in Nat \ {0} /\ DOMAIN q = 1..n /\ DOMAIN r = 1..(n - 1)
      /\ \A k \in 1..(n - 1) : r[k] = q[k + 1]
  BY HeadTailProperties, LenProperties, EmptySeq DEF Ordered
<1> HIDE DEF r, n
<1>2. \A k \in 1..(n - 1) : k + 1 \in 1..n  BY <1>1
<1>3. \A k \in DOMAIN r : Sound(r[k], built)  BY <1>1, <1>2 DEF Ordered
<1>4. ASSUME NEW j \in DOMAIN r, NEW k \in DOMAIN r, j < k, r[k].op = "new"
      PROVE  r[j].node # r[k].node
  <2>1. /\ j + 1 < k + 1 /\ j + 1 \in DOMAIN q /\ k + 1 \in DOMAIN q
        /\ r[j] = q[j + 1] /\ r[k] = q[k + 1]
    BY <1>1, <1>2, <1>4
  <2> QED  BY <1>4, <2>1 DEF Ordered
<1>5. Ordered(r, built)  BY <1>1, <1>3, <1>4 DEF Ordered
<1> QED  BY <1>5 DEF r

\* A new node's words, wherever they go.
LEMMA OrderedInsert ==
    ASSUME NEW built, NEW p \in Seq(Command), NEW q \in Seq(Command), NEW c \in Command,
           Ordered(p \o q, built), WellFormed(c), c.op = "new", c.node \notin built
    PROVE  Ordered(Append(p, c) \o q, built \cup {c.node})
<1> DEFINE now == p \o q
           then == Append(p, c) \o q
           m == Len(p)
           n == Len(q)
           at(k) == IF k <= m THEN k ELSE k - 1
<1>1. /\ m \in Nat /\ n \in Nat
      /\ DOMAIN now = 1..(m + n)
      /\ \A k \in 1..(m + n) : now[k] = IF k <= m THEN p[k] ELSE q[k - m]
  BY ConcatProperties, LenProperties
<1>2. /\ then \in Seq(Command) /\ DOMAIN then = 1..(m + n + 1) /\ then[m + 1] = c
      /\ \A k \in 1..(m + n + 1) : k # m + 1 => then[k] = IF k <= m THEN p[k] ELSE q[k - m - 1]
  <2> DEFINE a == Append(p, c)
  <2>1. a \in Seq(Command) /\ Len(a) = m + 1 /\ a[m + 1] = c /\ \A k \in 1..m : a[k] = p[k]
    BY AppendProperties
  <2> HIDE DEF a, m, n
  <2>2. /\ a \o q \in Seq(Command) /\ Len(a \o q) = m + 1 + n
        /\ \A k \in 1..(m + 1 + n) : (a \o q)[k] = IF k <= m + 1 THEN a[k] ELSE q[k - (m + 1)]
    <3>1. /\ a \o q \in Seq(Command) /\ Len(a \o q) = Len(a) + n
          /\ \A k \in 1..(Len(a) + n) : (a \o q)[k] = IF k <= Len(a) THEN a[k] ELSE q[k - Len(a)]
      BY <2>1, ConcatProperties DEF n
    <3> QED  BY <2>1, <3>1
  <2>3. DOMAIN (a \o q) = 1..(m + n + 1)  BY <1>1, <2>2, LenProperties
  <2>4. (a \o q)[m + 1] = c  BY <1>1, <2>1, <2>2
  <2>5. ASSUME NEW k \in 1..(m + n + 1), k # m + 1
        PROVE  (a \o q)[k] = IF k <= m THEN p[k] ELSE q[k - m - 1]
    BY <1>1, <2>1, <2>2, <2>5
  <2>6. then = a \o q  BY DEF a
  <2> HIDE DEF then
  <2> QED  BY <2>2, <2>3, <2>4, <2>5, <2>6
<1> HIDE DEF now, then, m, n
<1>3. ASSUME NEW k \in DOMAIN then, k # m + 1 PROVE at(k) \in DOMAIN now /\ then[k] = now[at(k)]
  <2>1. CASE k <= m
    <3>1. at(k) = k /\ k \in 1..(m + n)  BY <1>1, <1>2, <2>1
    <3> QED  BY <1>1, <1>2, <1>3, <2>1, <3>1
  <2>2. CASE k > m
    <3>1. m \in Nat /\ n \in Nat /\ k \in Nat /\ k <= m + n + 1 /\ ~(k <= m)  BY <1>1, <1>2, <2>2
    <3>2. k - 1 \in 1..(m + n) /\ ~(k - 1 <= m) /\ k - m - 1 = k - 1 - m  BY <1>3, <3>1
    <3>3. at(k) = k - 1  BY <3>1
    <3> HIDE DEF at
    <3>4. then[k] = q[k - 1 - m]  BY <1>2, <1>3, <3>1, <3>2
    <3>5. now[k - 1] = q[k - 1 - m]  BY <1>1, <3>2
    <3> QED  BY <1>1, <3>2, <3>3, <3>4, <3>5
  <2> QED  BY <1>1, <1>2, <2>1, <2>2
<1>4. ASSUME NEW k \in DOMAIN now PROVE Sound(now[k], built)  BY DEF Ordered, now
<1>5. c.node \in Nodes  BY DEF WellFormed
<1>6. ASSUME NEW k \in DOMAIN then PROVE Sound(then[k], built \cup {c.node})
  <2>1. CASE k = m + 1  BY <1>2, <2>1 DEF Sound
  <2>2. CASE k # m + 1  BY <1>3, <1>4, <2>2 DEF Sound
  <2> QED  BY <2>1, <2>2
<1>7. ASSUME NEW j \in DOMAIN then, NEW k \in DOMAIN then, j < k, then[k].op = "new"
      PROVE  then[j].node # then[k].node
  <2> HIDE DEF at
  <2>1. CASE k = m + 1
    <3>1. j # m + 1  BY <1>7, <2>1
    <3>2. then[j].node \in built \cup {None}  BY <1>3, <1>4, <3>1 DEF Sound
    <3> QED  BY <1>2, <1>5, <2>1, <3>2, NoneAssumption
  <2>2. CASE j = m + 1
    <3>1. k # m + 1  BY <1>7, <2>2
    <3>2. then[k].node \in Nodes /\ then[k].node \in built \cup {None}
      BY <1>3, <1>4, <1>7, <3>1 DEF Sound, WellFormed
    <3> QED  BY <1>2, <2>2, <3>2, NoneAssumption
  <2>3. CASE k # m + 1 /\ j # m + 1
    <3>1. at(j) < at(k)  BY <1>1, <1>2, <1>7, <2>3 DEF at
    <3>2. then[k] = now[at(k)] /\ then[j] = now[at(j)] /\ at(j) \in DOMAIN now /\ at(k) \in DOMAIN now
      BY <1>3, <2>3
    <3>3. Ordered(now, built)  BY DEF now
    <3> QED  BY <1>7, <3>1, <3>2, <3>3 DEF Ordered
  <2> QED  BY <2>1, <2>2, <2>3
<1>8. Ordered(then, built \cup {c.node})  BY <1>2, <1>6, <1>7 DEF Ordered
<1> QED  BY <1>8 DEF then

-----------------------------------------------------------------------------
(* The words of nodes, and the memory.                                     *)

LEMMA NewsAre == \A q, n : News(q, n) = {c \in Elements(q) : c.op = "new" /\ c.node = n}
BY DEF News, Elements

\* There is one write of a new node's words.
LEMMA NewsOne ==
    ASSUME NEW built, NEW q, Ordered(q, built), NEW n, NEW c \in News(q, n), NEW d \in News(q, n)
    PROVE  c = d
<1>1. DOMAIN q = 1..Len(q) /\ Len(q) \in Nat  BY LenProperties DEF Ordered
<1>2. PICK j \in DOMAIN q : q[j] = c  BY NewsAre DEF Elements
<1>3. PICK k \in DOMAIN q : q[k] = d  BY NewsAre DEF Elements
<1>4. q[j].op = "new" /\ q[k].op = "new" /\ q[j].node = n /\ q[k].node = n  BY <1>2, <1>3, NewsAre
<1>5. ~(j < k) /\ ~(k < j)  BY <1>4 DEF Ordered
<1>6. j = k  BY <1>1, <1>5
<1> QED  BY <1>2, <1>3, <1>6

\* What NodeWords gives a node that was built.
LEMMA NodeWordsAt ==
    ASSUME NEW built, NEW q, Ordered(q, built), NEW words \in [Nodes -> Words],
           NEW n \in Nodes, n \in built
    PROVE  /\ \A c \in News(q, n) : NodeWords(q, words, built)[n] = c.value
           /\ News(q, n) = {} => NodeWords(q, words, built)[n] = words[n]
           /\ NodeWords(q, words, built)[n] \in Words
<1> DEFINE d == CHOOSE d \in News(q, n) : TRUE
<1>1. NodeWords(q, words, built)[n] = IF News(q, n) = {} THEN words[n] ELSE d.value
  BY DEF NodeWords
<1>2. ASSUME NEW c \in News(q, n) PROVE d = c /\ c.value \in Words
  <2>1. d \in News(q, n)  OBVIOUS
  <2> HIDE DEF d
  <2>2. d = c  BY <2>1, NewsOne
  <2>3. c \in Elements(q) /\ c.op = "new"  BY NewsAre
  <2>4. WellFormed(c)  BY <2>3 DEF Ordered, Sound, Elements
  <2> QED  BY <2>2, <2>3, <2>4 DEF WellFormed
<1> HIDE DEF d
<1> QED  BY <1>1, <1>2

LEMMA NodeWordsType ==
    ASSUME NEW built, NEW q, Ordered(q, built), NEW words \in [Nodes -> Words]
    PROVE  /\ NodeWords(q, words, built) \in [Nodes -> Words \cup {None}]
           /\ \A n \in Nodes : NodeWords(q, words, built)[n] # None <=> n \in built
<1>1. ASSUME NEW n \in Nodes PROVE n \notin built => NodeWords(q, words, built)[n] = None
  BY DEF NodeWords
<1>2. NodeWords(q, words, built) = [n \in Nodes |-> NodeWords(q, words, built)[n]]
  BY DEF NodeWords
<1> QED  BY <1>1, <1>2, NodeWordsAt, NoneAssumption

LEMMA NodeWordsSame ==
    ASSUME NEW p, NEW q, NEW words, NEW built, \A n \in Nodes : News(p, n) = News(q, n)
    PROVE  NodeWords(p, words, built) = NodeWords(q, words, built)
<1> DEFINE at(news, n) == IF n \notin built THEN None ELSE IF news = {} THEN words[n]
                          ELSE (CHOOSE c \in news : TRUE).value
<1>1. NodeWords(p, words, built) = [n \in Nodes |-> at(News(p, n), n)]  BY DEF NodeWords
<1>2. NodeWords(q, words, built) = [n \in Nodes |-> at(News(q, n), n)]  BY DEF NodeWords
<1> HIDE DEF at
<1> QED  BY <1>1, <1>2

\* Commands that are called later leave them alone.
LEMMA NodeWordsConcat ==
    ASSUME NEW p \in Seq(Command), NEW q \in Seq(Command), NEW words, NEW built,
           \A k \in DOMAIN q : q[k].op # "new"
    PROVE  NodeWords(p \o q, words, built) = NodeWords(p, words, built)
<1>1. Elements(p \o q) = Elements(p) \cup Elements(q)  BY ElementsConcat
<1>2. \A c \in Elements(q) : c.op # "new"  BY DEF Elements
<1>3. \A n : News(p \o q, n) = News(p, n)  BY <1>1, <1>2, NewsAre
<1> QED  BY <1>3, NodeWordsSame

LEMMA NodeWordsAppend ==
    ASSUME NEW p \in Seq(Command), NEW c \in Command, NEW words, NEW built, c.op # "new"
    PROVE  NodeWords(Append(p, c), words, built) = NodeWords(p, words, built)
<1>1. Elements(Append(p, c)) = Elements(p) \cup {c}  BY ElementsAppend
<1>2. \A n : News(Append(p, c), n) = News(p, n)  BY <1>1, NewsAre
<1> QED  BY <1>2, NodeWordsSame

\* A new node has the words it was built with, while their write is on its way.
LEMMA NodeWordsInsert ==
    ASSUME NEW built, NEW q, Ordered(q, built), NEW n \in Nodes, n \notin built,
           NEW c, c.op = "new", c.node = n, NEW words \in [Nodes -> Words],
           NEW more, more = built \cup {n}, NEW insert, Ordered(insert, more),
           Elements(insert) = Elements(q) \cup {c}
    PROVE  /\ NodeWords(insert, words, more)[n] = c.value
           /\ \A m \in Nodes : m # n =>
                  NodeWords(insert, words, more)[m] = NodeWords(q, words, built)[m]
<1> DEFINE now == NodeWords(q, words, built)
           then == NodeWords(insert, words, more)
<1>1. ASSUME NEW m, m # n PROVE News(insert, m) = News(q, m)  BY <1>1, NewsAre
<1>2. c \in News(insert, n) /\ n \in more  BY NewsAre
<1>3. then[n] = c.value  BY <1>2, NodeWordsAt
<1>4. ASSUME NEW m \in Nodes, m # n PROVE then[m] = now[m]
  <2>1. CASE m \notin built  BY <1>4, <2>1 DEF NodeWords
  <2>2. CASE m \in built
    <3>1. News(insert, m) = News(q, m) /\ m \in more  BY <1>1, <1>4, <2>2
    <3>2. CASE News(q, m) = {}
      <4>1. now[m] = words[m]  BY <2>2, <3>2, NodeWordsAt
      <4>2. then[m] = words[m]  BY <3>1, <3>2, NodeWordsAt
      <4> QED  BY <4>1, <4>2
    <3>3. CASE News(q, m) # {}
      <4>1. PICK d : d \in News(q, m)  BY <3>3
      <4>2. now[m] = d.value  BY <2>2, <4>1, NodeWordsAt
      <4>3. then[m] = d.value  BY <3>1, <4>1, NodeWordsAt
      <4> QED  BY <4>2, <4>3
    <3> QED  BY <3>2, <3>3
  <2> QED  BY <2>1, <2>2
<1> HIDE DEF now, then
<1> QED  BY <1>3, <1>4 DEF now, then

\* The oldest command does with the device's words what the contract asks for;
\* a new node's write does nothing the contract could tell.
LEMMA OldestDoes ==
    ASSUME NEW built, NEW q, Ordered(q, built), q # <<>>,
           NEW words \in [Nodes -> Words], NEW contents, NEW c, c = Head(q)
    PROVE  /\ c.op = "new" =>
                  /\ NodeWords(Tail(q), MetaWords(words, c), built) = NodeWords(q, words, built)
                  /\ Contents(contents, words, c) = contents
           /\ c.op # "new" =>
                  /\ NodeWords(Tail(q), MetaWords(words, c), built)
                         = MetaWords(NodeWords(q, words, built), c)
                  /\ Contents(contents, words, c)
                         = Contents(contents, NodeWords(q, words, built), c)
<1> DEFINE r == Tail(q)
           done == MetaWords(words, c)
           now == NodeWords(q, words, built)
           then == NodeWords(r, done, built)
<1>1. Ordered(r, built)  BY OrderedTail
<1>2. Elements(q) = {c} \cup Elements(r)  BY ElementsTail DEF Ordered
<1>3. Sound(c, built)
  BY LenProperties, EmptySeq DEF Ordered
<1> HIDE DEF r
<1>4. done \in [Nodes -> Words]  BY <1>3 DEF MetaWords, Sound, WellFormed
<1>5. now \in [Nodes -> Words \cup {None}] /\ then \in [Nodes -> Words \cup {None}]
  <2> HIDE DEF done
  <2> QED  BY <1>1, <1>4, NodeWordsType
\* About the oldest command's node no new node's write follows.
<1>6. ASSUME c.node \in Nodes PROVE News(r, c.node) = {}
  <2> SUFFICES ASSUME NEW d \in News(r, c.node) PROVE FALSE  OBVIOUS
  <2>1. /\ DOMAIN q = 1..Len(q) /\ Len(q) \in Nat \ {0} /\ c = q[1]
        /\ DOMAIN r = 1..(Len(q) - 1) /\ \A k \in 1..(Len(q) - 1) : r[k] = q[k + 1]
    BY HeadTailProperties, LenProperties, EmptySeq DEF Ordered, r
  <2>2. PICK k \in DOMAIN r : r[k] = d  BY NewsAre DEF Elements
  <2>3. /\ k + 1 \in DOMAIN q /\ 1 \in DOMAIN q /\ 1 < k + 1
        /\ q[k + 1].op = "new" /\ q[1].node = q[k + 1].node
    BY <2>1, <2>2, NewsAre
  <2> QED  BY <2>3 DEF Ordered
<1>7. ASSUME NEW n \in Nodes, n \in built, c.op \in {"meta", "new"} => n # c.node
      PROVE  then[n] = now[n]
  <2>1. done[n] = words[n]  BY <1>3, <1>7 DEF MetaWords, Sound, WellFormed
  <2>2. News(r, n) = News(q, n)
    BY <1>2, <1>7, NewsAre
  <2>3. CASE News(q, n) = {}
    <3>1. now[n] = words[n]  BY <1>7, <2>3, NodeWordsAt
    <3>2. then[n] = done[n]
      <4> HIDE DEF done
      <4> QED  BY <1>1, <1>4, <1>7, <2>2, <2>3, NodeWordsAt
    <3> QED  BY <2>1, <3>1, <3>2
  <2>4. CASE News(q, n) # {}
    <3>1. PICK d : d \in News(q, n)  BY <2>4
    <3>2. now[n] = d.value  BY <1>7, <3>1, NodeWordsAt
    <3>3. then[n] = d.value
      <4> HIDE DEF done
      <4> QED  BY <1>1, <1>4, <1>7, <2>2, <3>1, NodeWordsAt
    <3> QED  BY <3>2, <3>3
  <2> QED  BY <2>3, <2>4
<1>8. ASSUME NEW n \in Nodes, n \notin built PROVE then[n] = None /\ now[n] = None
  BY <1>8 DEF NodeWords
<1>9. ASSUME c.op \in {"meta", "new"}
      PROVE  /\ c.node \in Nodes /\ c.node \in built /\ c.value \in Words
             /\ then[c.node] = c.value
  <2>1. c.node \in Nodes /\ c.value \in Words  BY <1>3, <1>9 DEF Sound, WellFormed
  <2>2. c.node \in built  BY <1>3, <2>1, NoneAssumption DEF Sound
  <2>3. done[c.node] = c.value  BY <1>9, <2>1 DEF MetaWords
  <2>4. then[c.node] = done[c.node]
    <3> HIDE DEF done
    <3> QED  BY <1>1, <1>4, <1>6, <2>1, <2>2, NodeWordsAt
  <2> QED  BY <2>1, <2>2, <2>3, <2>4
<1>10. ASSUME c.op = "new" PROVE then = now /\ Contents(contents, words, c) = contents
  <2>1. c \in News(q, c.node)  BY <1>2, <1>10, NewsAre
  <2>2. now[c.node] = c.value  BY <1>9, <1>10, <2>1, NodeWordsAt
  <2>3. \A n \in Nodes : then[n] = now[n]  BY <1>7, <1>8, <1>9, <1>10, <2>2
  <2>4. Contents(contents, words, c) = contents  BY <1>10 DEF Contents
  <2> HIDE DEF now, then
  <2> QED  BY <1>5, <2>3, <2>4
<1>11. ASSUME c.op # "new"
       PROVE  then = MetaWords(now, c) /\ Contents(contents, words, c) = Contents(contents, now, c)
  <2>1. CASE c.op = "meta"
    <3>1. \A n \in Nodes : n # c.node => then[n] = now[n]  BY <1>7, <1>8
    <3>2. MetaWords(now, c) = [now EXCEPT ![c.node] = c.value]  BY <2>1 DEF MetaWords
    <3>3. Contents(contents, words, c) = Contents(contents, now, c)  BY <2>1 DEF Contents
    <3> HIDE DEF now, then
    <3> QED  BY <1>5, <1>9, <2>1, <3>1, <3>2, <3>3
  <2>2. CASE c.op # "meta"
    <3>1. \A n \in Nodes : then[n] = now[n]  BY <1>7, <1>8, <1>11, <2>2
    <3>2. MetaWords(now, c) = now  BY <1>11, <2>2 DEF MetaWords
    <3>3. Contents(contents, words, c) = Contents(contents, now, c)
      <4>1. CASE c.op = "run"
        <5>1. c.node \in Nodes /\ c.node \in built  BY <1>3, <4>1, NoneAssumption DEF Sound, WellFormed
        <5>2. News(q, c.node) = {}  BY <1>2, <1>6, <4>1, <5>1, NewsAre
        <5>3. now[c.node] = words[c.node]  BY <5>1, <5>2, NodeWordsAt
        <5> HIDE DEF now
        <5> QED  BY <4>1, <5>3 DEF Contents
      <4>2. CASE c.op # "run"  BY <4>2 DEF Contents
      <4> QED  BY <4>1, <4>2
    <3> HIDE DEF now, then
    <3> QED  BY <1>5, <3>1, <3>2, <3>3
  <2> QED  BY <2>1, <2>2
<1> QED  BY <1>10, <1>11 DEF r

LEMMA NewRuns ==
    ASSUME NEW built, NEW q, Ordered(q, built), q # <<>>,
           NEW words \in [Nodes -> Words], NEW contents, NEW c, c = Head(q), c.op = "new"
    PROVE  /\ NodeWords(Tail(q), MetaWords(words, c), built) = NodeWords(q, words, built)
           /\ Contents(contents, words, c) = contents
BY OldestDoes

LEMMA OldestRuns ==
    ASSUME NEW built, NEW q, Ordered(q, built), q # <<>>,
           NEW words \in [Nodes -> Words], NEW contents, NEW c, c = Head(q), c.op # "new"
    PROVE  /\ NodeWords(Tail(q), MetaWords(words, c), built)
                  = MetaWords(NodeWords(q, words, built), c)
           /\ Contents(contents, words, c) = Contents(contents, NodeWords(q, words, built), c)
BY OldestDoes

\* The types of the memory, after a command.
LEMMA MemoryTypes ==
    ASSUME NEW built, NEW c, Sound(c, built),
           NEW contents \in [Locations -> Values], NEW words \in [Nodes -> Words]
    PROVE  /\ Contents(contents, words, c) \in [Locations -> Values]
           /\ MetaWords(words, c) \in [Nodes -> Words]
<1>1. MetaWords(words, c) \in [Nodes -> Words]  BY DEF MetaWords, Sound, WellFormed
<1>2. Buffers \subseteq Locations  BY DEF Locations
<1> DEFINE into(v) == [contents EXCEPT ![c.to] = v]
<1>3. CASE c.op = "write"
  <2>1. Contents(contents, words, c) = into(c.value)  BY <1>3 DEF Contents
  <2> QED  BY <1>1, <1>2, <1>3, <2>1 DEF Sound, WellFormed
<1>4. CASE c.op = "copy"
  <2>1. Contents(contents, words, c) = into(contents[c.from])  BY <1>4 DEF Contents
  <2> QED  BY <1>1, <1>2, <1>4, <2>1 DEF Sound, WellFormed
<1>5. CASE c.op = "clear"
  <2>1. Contents(contents, words, c) = into(Zero)  BY <1>5 DEF Contents
  <2> QED  BY <1>1, <1>2, <1>5, <2>1, ZeroAssumption DEF Sound, WellFormed
<1>6. CASE c.op = "run"
  <2>1. Effect(words[c.node], contents[c.from]) \in Values
    BY <1>2, <1>6, EffectAssumption DEF Sound, WellFormed
  <2>2. Contents(contents, words, c) = into(Effect(words[c.node], contents[c.from]))
    BY <1>6 DEF Contents
  <2> QED  BY <1>1, <1>2, <1>6, <2>1, <2>2 DEF Sound, WellFormed
<1>7. CASE c.op \notin {"write", "copy", "clear", "run"}
  <2>1. Contents(contents, words, c) = contents  BY <1>7 DEF Contents
  <2> QED  BY <1>1, <2>1
<1> QED  BY <1>3, <1>4, <1>5, <1>6, <1>7

-----------------------------------------------------------------------------
(* Commands and the numbers of the calls that queued them.                 *)

\* Two multiples of m differ by m at least.
LEMMA MultiplesApart ==
    ASSUME NEW m \in Nat \ {0}, NEW p \in Int, NEW q \in Int, p < q
    PROVE  p * m + m <= q * m
<1>1. PICK d \in Nat : q = p + 1 + d
  <2>1. q - p - 1 \in Nat /\ q = p + 1 + (q - p - 1)  OBVIOUS
  <2> QED  BY <2>1
<1>2. q * m = p * m + m + d * m  BY <1>1
<1>3. d * m \in Nat /\ p * m \in Int  OBVIOUS
<1> QED  BY <1>2, <1>3

LEMMA RemainderIs ==
    ASSUME NEW m \in Nat \ {0}, NEW q \in Nat, NEW r \in 0..(m - 1)
    PROVE  (r + q * m) % m = r
<1> DEFINE n == r + q * m
           d == n \div m
           e == n % m
<1>0. q * m \in Nat /\ n \in Nat  OBVIOUS
<1>1. n = d * m + e /\ d \in Int /\ e \in 0..(m - 1)
  <2> HIDE DEF n
  <2> QED  BY <1>0, SMT
<1>2. d * m \in Int  BY <1>1
<1> HIDE DEF d, e
<1>3. d = q
  <2>1. CASE d < q
    <3>1. d * m + m <= q * m  BY <1>1, <2>1, MultiplesApart
    <3> QED  BY <1>0, <1>1, <1>2, <3>1
  <2>2. CASE q < d
    <3>1. q * m + m <= d * m  BY <1>1, <2>2, MultiplesApart
    <3> QED  BY <1>0, <1>1, <1>2, <3>1
  <2> QED  BY <1>1, <2>1, <2>2
<1>4. e = r  BY <1>0, <1>1, <1>3
<1> QED  BY <1>4 DEF e

\* A command has the number of its call; so has what a replay queues.
LEMMA NumberIs ==
    ASSUME NEW call \in 1..MaxCalls
    PROVE  /\ \A c : c.id = call => Number(c) = call
           /\ \A k \in Nat : \A c : c.id = call + k * MaxCalls => Number(c) = call
<1>1. MaxCalls \in Nat \ {0} /\ call \in Nat  BY CallsAssumption
<1>2. ASSUME NEW k \in Nat, NEW c, c.id = call + k * MaxCalls PROVE Number(c) = call
  <2> DEFINE i == c.id
  <2>1. i - 1 = (call - 1) + k * MaxCalls /\ call - 1 \in 0..(MaxCalls - 1)
    BY <1>1, <1>2
  <2>2. (i - 1) % MaxCalls = call - 1  BY <1>1, <2>1, RemainderIs
  <2> QED  BY <1>1, <2>2 DEF Number
<1>3. ASSUME NEW c, c.id = call PROVE Number(c) = call
  <2>1. c.id = call + 0 * MaxCalls  BY <1>1, <1>3
  <2> QED  BY <1>2, <2>1
<1> QED  BY <1>2, <1>3

\* Commands that differ in their ids, none of a later call than the nth.
Apart(q) == \A j, k \in DOMAIN q : j # k => q[j].id # q[k].id
Counted(q, n) == Apart(q) /\ \A c \in Elements(q) : Number(c) \in 1..n

LEMMA CountedConcat ==
    ASSUME NEW q \in Seq(Command), NEW r \in Seq(Command), NEW n \in Nat, Counted(q, n),
           Apart(r), \A c \in Elements(r) : Number(c) = n + 1
    PROVE  Counted(q \o r, n + 1)
<1> DEFINE p == q \o r
           i == Len(q)
<1>1. /\ DOMAIN q = 1..i /\ DOMAIN r = 1..Len(r) /\ DOMAIN p = 1..(i + Len(r))
      /\ i \in Nat /\ Len(r) \in Nat
      /\ \A k \in 1..i : p[k] = q[k]
      /\ \A k \in (i + 1)..(i + Len(r)) : p[k] = r[k - i]
  BY ConcatProperties, LenProperties
<1>2. Elements(p) = Elements(q) \cup Elements(r)  BY ElementsConcat
<1> HIDE DEF p, i
<1>3. \A c \in Elements(p) : Number(c) \in 1..(n + 1)
  <2>1. ASSUME NEW c \in Elements(q) PROVE Number(c) \in 1..(n + 1)  BY DEF Counted
  <2>2. ASSUME NEW c \in Elements(r) PROVE Number(c) \in 1..(n + 1)  OBVIOUS
  <2> QED  BY <1>2, <2>1, <2>2
<1>4. ASSUME NEW j \in 1..i, NEW k \in (i + 1)..(i + Len(r)) PROVE p[j].id # p[k].id
  <2>1. k - i \in DOMAIN r /\ j \in DOMAIN q  BY <1>1
  <2>2. p[k] \in Elements(r) /\ p[j] \in Elements(q)  BY <1>1, <2>1 DEF Elements
  <2>3. Number(p[k]) = n + 1 /\ Number(p[j]) \in 1..n  BY <2>2 DEF Counted
  <2>4. Number(p[j]) # Number(p[k])  BY <2>3
  <2> QED  BY <2>4 DEF Number
<1>5. ASSUME NEW j \in 1..i, NEW k \in 1..i, j # k PROVE p[j].id # p[k].id
  BY <1>1, <1>5 DEF Counted, Apart
<1>6. ASSUME NEW j \in (i + 1)..(i + Len(r)), NEW k \in (i + 1)..(i + Len(r)), j # k
      PROVE p[j].id # p[k].id
  <2>1. j - i \in DOMAIN r /\ k - i \in DOMAIN r /\ j - i # k - i  BY <1>1, <1>6
  <2> QED  BY <1>1, <2>1 DEF Apart
<1>7. Apart(p)
  <2>1. DOMAIN p = 1..i \cup (i + 1)..(i + Len(r))  BY <1>1
  <2> QED  BY <1>4, <1>5, <1>6, <2>1 DEF Apart
<1> QED  BY <1>3, <1>7 DEF Counted, p

LEMMA CountedTail ==
    ASSUME NEW q \in Seq(Command), NEW n, Counted(q, n), q # <<>>
    PROVE  Counted(Tail(q), n) /\ Head(q) \notin Elements(Tail(q))
<1> DEFINE r == Tail(q)
<1>1. /\ r \in Seq(Command) /\ DOMAIN q = 1..Len(q) /\ DOMAIN r = 1..(Len(q) - 1)
      /\ Len(q) \in Nat \ {0} /\ Head(q) = q[1]
      /\ \A k \in 1..(Len(q) - 1) : r[k] = q[k + 1]
  BY HeadTailProperties, LenProperties, EmptySeq
<1>2. Elements(r) \subseteq Elements(q)  BY ElementsTail
<1> HIDE DEF r
<1>3. \A k \in DOMAIN r : k + 1 \in DOMAIN q /\ r[k] = q[k + 1]  BY <1>1
<1>4. Apart(r)
  <2>1. ASSUME NEW j \in DOMAIN r, NEW k \in DOMAIN r, j # k PROVE r[j].id # r[k].id
    <3>1. j + 1 \in DOMAIN q /\ k + 1 \in DOMAIN q /\ j + 1 # k + 1  BY <1>1, <1>3, <2>1
    <3> QED  BY <1>3, <3>1 DEF Counted, Apart
  <2> QED  BY <2>1 DEF Apart
<1>5. ASSUME NEW k \in DOMAIN r PROVE r[k] # q[1]
  <2>1. 1 \in DOMAIN q /\ k + 1 \in DOMAIN q /\ k + 1 # 1  BY <1>1, <1>3
  <2>2. q[k + 1].id # q[1].id  BY <2>1 DEF Counted, Apart
  <2> QED  BY <1>3, <2>2
<1>6. Head(q) \notin Elements(r)  BY <1>1, <1>5 DEF Elements
<1> QED  BY <1>2, <1>4, <1>6 DEF Counted, r

\* One command more, of a call of its own.
LEMMA CountedAppend ==
    ASSUME NEW q \in Seq(Command), NEW n \in 0..(MaxCalls - 1), Counted(q, n),
           NEW c \in Command, c.id = n + 1
    PROVE  Counted(Append(q, c), n + 1)
<1>1. n \in Nat /\ n + 1 \in 1..MaxCalls  BY CallsAssumption
<1>2. Number(c) = n + 1  BY <1>1, NumberIs
<1> DEFINE r == <<c>>
<1>3. r \in Seq(Command) /\ Elements(r) = {c} /\ Apart(r) /\ Append(q, c) = q \o r
  BY AppendIsConcat DEF Elements, Apart
<1> HIDE DEF r
<1> QED  BY <1>1, <1>2, <1>3, CountedConcat

\* What a capture holds: runs of nodes that are built.
Runs(q, built) ==
    q \in Seq(Command) /\ \A k \in DOMAIN q : Sound(q[k], built) /\ q[k].op = "run"

LEMMA RunsEmpty == ASSUME NEW built PROVE Runs(<<>>, built)
BY EmptySeq DEF Runs

LEMMA RunsAppend ==
    ASSUME NEW built, NEW q, Runs(q, built), NEW c, Sound(c, built), c.op = "run"
    PROVE  Runs(Append(q, c), built)
<1> DEFINE p == Append(q, c)
<1>1. q \in Seq(Command) /\ c \in Command  BY DEF Runs, Sound
<1>2. /\ p \in Seq(Command) /\ DOMAIN q = 1..Len(q) /\ DOMAIN p = 1..(Len(q) + 1)
      /\ Len(q) \in Nat /\ p[Len(q) + 1] = c /\ \A k \in 1..Len(q) : p[k] = q[k]
  BY <1>1, AppendProperties, LenProperties
<1> HIDE DEF p
<1> QED  BY <1>2 DEF Runs, p

LEMMA RunsMore ==
    ASSUME NEW built, NEW more, built \subseteq more, NEW q, Runs(q, built)
    PROVE  Runs(q, more)
BY DEF Runs, Sound

\* A replay asks for the same runs again.
LEMMA AgainRuns ==
    ASSUME NEW built, NEW q, Runs(q, built), NEW call \in 1..MaxCalls
    PROVE  /\ Runs(Again(q, call), built) /\ Apart(Again(q, call))
           /\ \A c \in Elements(Again(q, call)) : Number(c) = call
<1> DEFINE p == Again(q, call)
<1>1. /\ MaxCalls \in Nat \ {0} /\ call \in Nat
      /\ q \in Seq(Command) /\ Len(q) \in Nat /\ DOMAIN q = 1..Len(q)
  BY CallsAssumption, LenProperties DEF Runs
<1>2. /\ DOMAIN p = 1..Len(q)
      /\ \A k \in 1..Len(q) : p[k] = [q[k] EXCEPT !.id = call + k * MaxCalls]
  BY <1>1 DEF Again
<1> HIDE DEF p
<1>3. ASSUME NEW k \in 1..Len(q)
      PROVE  /\ p[k].id = call + k * MaxCalls /\ Sound(p[k], built) /\ p[k].op = "run"
             /\ Number(p[k]) = call
  <2>1. Sound(q[k], built) /\ q[k].op = "run"  BY <1>1 DEF Runs
  <2> DEFINE id == call + k * MaxCalls
             c == q[k]
  <2>2. id \in Nat /\ p[k] = [c EXCEPT !.id = id]  BY <1>1, <1>2
  <2>3. c \in Command /\ WellFormed(c) /\ c.node \in built \cup {None}  BY <2>1 DEF Sound
  <2>4. c.op = "run"  BY <2>1
  <2>5. id = call + k * MaxCalls  OBVIOUS
  <2> HIDE DEF id, c
  <2>6. /\ p[k] \in Command /\ p[k].id = id /\ p[k].op = c.op /\ p[k].node = c.node
        /\ p[k].from = c.from /\ p[k].to = c.to
    BY <2>2, <2>3 DEF Command
  <2>7. Sound(p[k], built)  BY <2>3, <2>4, <2>6 DEF Sound, WellFormed
  <2>8. k \in Nat  BY <1>1
  <2>9. Number(p[k]) = call  BY <2>5, <2>6, <2>8, NumberIs
  <2> QED  BY <2>4, <2>5, <2>6, <2>7, <2>9
<1>4. p \in Seq(Command)
  <2>1. \A k \in 1..Len(q) : p[k] \in Command  BY <1>3 DEF Sound
  <2>2. p = [k \in 1..Len(q) |-> p[k]]  BY <1>1 DEF p, Again
  <2> QED  BY <1>1, <2>1, <2>2
<1>5. Runs(p, built)  BY <1>2, <1>3, <1>4 DEF Runs
<1>6. ASSUME NEW j \in 1..Len(q), NEW k \in 1..Len(q), j # k PROVE p[j].id # p[k].id
  <2>1. p[j].id = call + j * MaxCalls /\ p[k].id = call + k * MaxCalls  BY <1>3
  <2>2. j \in Int /\ k \in Int /\ j * MaxCalls \in Int /\ k * MaxCalls \in Int  BY <1>1
  <2>3. CASE j < k
    <3>1. j * MaxCalls + MaxCalls <= k * MaxCalls  BY <1>1, <2>2, <2>3, MultiplesApart
    <3> QED  BY <1>1, <2>1, <2>2, <3>1
  <2>4. CASE k < j
    <3>1. k * MaxCalls + MaxCalls <= j * MaxCalls  BY <1>1, <2>2, <2>4, MultiplesApart
    <3> QED  BY <1>1, <2>1, <2>2, <3>1
  <2> QED  BY <1>6, <2>2, <2>3, <2>4
<1>7. Apart(p)  BY <1>2, <1>6 DEF Apart
<1>8. \A c \in Elements(p) : Number(c) = call  BY <1>2, <1>3 DEF Elements
<1> QED  BY <1>5, <1>7, <1>8 DEF p

\* A thread that waits for a, waits for what is there of the calls before it.
Awaits(q, waiting, a) ==
    waiting \subseteq Elements(q) /\ \A c \in Elements(q) : c \in waiting \/ Number(c) >= a

LEMMA AwaitsMore ==
    ASSUME NEW q, NEW p, NEW waiting, NEW a, Awaits(q, waiting, a),
           \A c \in Elements(p) : c \in Elements(q) \/ Number(c) >= a,
           Elements(q) \subseteq Elements(p)
    PROVE  Awaits(p, waiting, a)
BY DEF Awaits

LEMMA AwaitsTail ==
    ASSUME NEW q \in Seq(Command), q # <<>>, NEW n, Counted(q, n),
           NEW waiting, NEW a, Awaits(q, waiting, a)
    PROVE  Awaits(Tail(q), waiting \ {Head(q)}, a)
<1>1. Elements(q) = {Head(q)} \cup Elements(Tail(q))  BY ElementsTail
<1>2. Head(q) \notin Elements(Tail(q))  BY CountedTail
<1> QED  BY <1>1, <1>2 DEF Awaits

\* What a thread waits for that blocks when all but host writes is submitted.
LEMMA WaitsForQueued ==
    ASSUME NEW q \in Seq(Command)
    PROVE  {WithoutNew(q)[k] : k \in {j \in DOMAIN WithoutNew(q) : Queued(WithoutNew(q)[j])}}
               = {c \in Elements(q) : Queued(c)}
<1> DEFINE r == WithoutNew(q)
<1>1. Elements(r) = {c \in Elements(q) : c.op # "new"}  BY WithoutNewElements
<1> HIDE DEF r
<1>2. {r[k] : k \in {j \in DOMAIN r : Queued(r[j])}} = {c \in Elements(r) : Queued(c)}
  BY DEF Elements
<1>3. {c \in Elements(r) : Queued(c)} = {c \in Elements(q) : Queued(c)}
  BY <1>1 DEF Queued
<1> QED  BY <1>2, <1>3 DEF r

=============================================================================
