----------------------------- MODULE PoolProofs -----------------------------
(***************************************************************************)
(* Every raw buffer has one owner, and every range of a tensor that        *)
(* byte_range accepts is inside the buffer the pool or the backend gave    *)
(* it, for any number of threads, buffers and kinds, any sizes and limits. *)
(* The pool's count plays no part in that: recycle keeps or hands back,    *)
(* and either is safe.  The count is the sum of what the pool holds, by a  *)
(* theory of sums over finite sets.                                        *)
(***************************************************************************)
EXTENDS Pool, TLAPS, FiniteSetTheorems, WellFoundedInduction

\* Rounding up is the least multiple that is not less (next_multiple_of).
LEMMA UpToRounds ==
    ASSUME NEW n \in Nat, NEW m \in {4, 8, 1}
    PROVE  /\ UpTo(n, m) \in Nat
           /\ UpTo(n, m) % m = 0
           /\ UpTo(n, m) >= n
           /\ UpTo(n, m) < n + m
<1>1. CASE m = 4  BY <1>1 DEF UpTo
<1>2. CASE m = 8  BY <1>2 DEF UpTo
<1>3. CASE m = 1  BY <1>3 DEF UpTo
<1>4. QED  BY <1>1, <1>2, <1>3

\* No product of a sized tensor wraps, nor of a range of it.
LEMMA NoWrap ==
    ASSUME NEW n \in Nat, n < Word
    PROVE  Wrap(n) = n
BY DEF Wrap

\* Elements of a sized tensor keep their bits.
LEMMA BitsInside ==
    ASSUME NEW kind \in DataKind, NEW tensor_len, Sized(kind, tensor_len),
           NEW len \in Nat, len <= tensor_len
    PROVE  /\ len * bits_per_elem(kind) \in Nat
           /\ Wrap(len * bits_per_elem(kind)) = len * bits_per_elem(kind)
<1>1. tensor_len \in Nat /\ tensor_len * bits_per_elem(kind) < Word  BY DEF Sized
<1>2. CASE kind = "F32"
  BY <1>1, <1>2, WordAssumption, NoWrap DEF bits_per_elem, DataType
<1>3. CASE kind \in {"F16", "Bf16"}
  BY <1>1, <1>3, WordAssumption, NoWrap DEF bits_per_elem, DataType
<1>4. CASE kind = "Int8"
  BY <1>1, <1>4, WordAssumption, NoWrap DEF bits_per_elem, DataType
<1>5. CASE kind = "Int4"
  BY <1>1, <1>5, WordAssumption, NoWrap DEF bits_per_elem, DataType
<1>6. QED  BY <1>2, <1>3, <1>4, <1>5 DEF DataKind

\* Every range that byte_range accepts, and that upload_at, download_range and
\* copy_into then hand to the backend, lies inside the buffer alloc asked for.
THEOREM AcceptedInside ==
    ASSUME NEW kind \in DataKind, NEW tensor_len, Sized(kind, tensor_len),
           NEW offset \in Nat, NEW len \in Nat, NEW write \in BOOLEAN,
           byte_range(kind, tensor_len, offset, len, write)
    PROVE  RangeInside(kind, tensor_len, offset, len)
<1> DEFINE bits == bits_per_elem(kind)
           range == ByteRange(kind, offset, len)
<1>1. tensor_len \in Nat /\ offset <= tensor_len /\ len <= tensor_len
  BY DEF Sized, byte_range
<1>2. /\ Wrap(offset * bits) = offset * bits /\ offset * bits \in Nat
      /\ Wrap(len * bits) = len * bits /\ len * bits \in Nat
      /\ Wrap(tensor_len * bits) = tensor_len * bits /\ tensor_len * bits \in Nat
  BY <1>1, BitsInside
<1>3. (offset * bits) % 32 = 0
  BY <1>2 DEF byte_range, OnWord, COPY_ALIGN
<1>4. offset * bits + len * bits <= tensor_len * bits
  <2>1. bits \in {4, 8, 16, 32}  BY DEF bits_per_elem, DataType, DataKind
  <2>2. offset + len <= tensor_len  BY DEF byte_range
  <2>3. QED  BY <1>1, <2>1, <2>2
<1> DEFINE o == offset * bits
           n == len * bits
           t == tensor_len * bits
<1>5. /\ range.start = o \div 8
      /\ range.bytes = UpTo((n + 7) \div 8, 4)
      /\ range.exact = (n + 7) \div 8
      /\ buffer_bytes(kind, tensor_len) = UpTo((t + 7) \div 8, 4)
  BY <1>2 DEF ByteRange, bytes_for, buffer_bytes, COPY_ALIGN
<1>6. /\ o \in Nat /\ n \in Nat /\ t \in Nat
      /\ o % 32 = 0
      /\ o + n <= t
  BY <1>2, <1>3, <1>4
<1> HIDE DEF o, n, t
<1>7. o \div 8 \in Nat /\ (o \div 8) % 4 = 0 /\ (n + 7) \div 8 \in Nat /\ (t + 7) \div 8 \in Nat
      /\ o \div 8 + (n + 7) \div 8 <= (t + 7) \div 8
  BY <1>6
<1>8. /\ UpTo((n + 7) \div 8, 4) % 4 = 0
      /\ UpTo((n + 7) \div 8, 4) >= (n + 7) \div 8
      /\ o \div 8 + UpTo((n + 7) \div 8, 4) <= UpTo((t + 7) \div 8, 4)
  BY <1>7 DEF UpTo
<1>9. QED  BY <1>5, <1>7, <1>8 DEF RangeInside, COPY_ALIGN

\* Every accepted write moves its own elements only (upload_at, copy_into).
THEOREM AcceptedWritesOwn ==
    ASSUME NEW kind \in DataKind, NEW tensor_len, Sized(kind, tensor_len),
           NEW offset \in Nat, NEW len \in Nat,
           byte_range(kind, tensor_len, offset, len, TRUE)
    PROVE  WritesOwn(kind, tensor_len, offset, len)
<1> DEFINE bits == bits_per_elem(kind)
           range == ByteRange(kind, offset, len)
<1>1. /\ tensor_len \in Nat /\ offset <= tensor_len /\ len <= tensor_len
      /\ offset + len <= tensor_len /\ offset + len \in Nat
  BY DEF Sized, byte_range
<1>2. /\ Wrap(offset * bits) = offset * bits /\ offset * bits \in Nat
      /\ Wrap(len * bits) = len * bits /\ len * bits \in Nat
      /\ Wrap((offset + len) * bits) = (offset + len) * bits
  BY <1>1, BitsInside
<1>3. bits \in {4, 8, 16, 32}  BY DEF bits_per_elem, DataType, DataKind
<1> DEFINE o == offset * bits
           n == len * bits
<1>4. /\ range.start = o \div 8
      /\ range.bytes = UpTo((n + 7) \div 8, 4)
  BY <1>2 DEF ByteRange, bytes_for, COPY_ALIGN
<1>5. o \in Nat /\ n \in Nat /\ o % 32 = 0
  BY <1>2 DEF byte_range, OnWord, COPY_ALIGN
<1>6. (offset + len) * bits = o + n  BY <1>1, <1>3
<1>7. CASE offset + len = tensor_len
  <2> HIDE DEF o, n
  <2>1. (o \div 8) * 8 = o  BY <1>5
  <2>2. QED  BY <2>1, <1>4, <1>7 DEF WritesOwn, o
<1>8. CASE offset + len # tensor_len
  <2>1. (o + n) % 32 = 0
    BY <1>2, <1>6, <1>8 DEF byte_range, OnWord, COPY_ALIGN
  <2> HIDE DEF o, n
  <2>2. /\ (o \div 8) * 8 = o
        /\ (o \div 8 + UpTo((n + 7) \div 8, 4)) * 8 = o + n
    BY <1>5, <2>1 DEF UpTo
  <2>3. QED  BY <2>2, <1>4, <1>6 DEF WritesOwn, o
<1>9. QED  BY <1>7, <1>8

\* What a whole download holds has the tensor's length, padding left out.
LEMMA DownloadsComeBack ==
    ASSUME NEW kind \in DataKind, NEW len, Sized(kind, len)
    PROVE  download_range(kind, len) = len
<1>1. /\ len \in Nat /\ len % elems_per_host_word(kind) = 0
      /\ Wrap(len * bits_per_elem(kind)) = len * bits_per_elem(kind)
  BY BitsInside DEF Sized
<1>2. CASE kind = "F32"
  BY <1>1, <1>2 DEF download_range, from_bytes_len, bytes_for, bits_per_elem, elems_per_host_word, DataType
<1>3. CASE kind \in {"F16", "Bf16"}
  <2>1. DataType[kind].word_bytes = 2 /\ elems_per_host_word(kind) = 1 /\ bits_per_elem(kind) = 16
    BY <1>3 DEF DataType, elems_per_host_word, bits_per_elem
  <2>2. bytes_for(kind, len) = len * 2
    <3>1. bytes_for(kind, len) = (len * 16 + 7) \div 8  BY <1>1, <2>1 DEF bytes_for
    <3>2. (len * 16 + 7) \div 8 = len * 2  BY <1>1
    <3>3. QED  BY <3>1, <3>2
  <2>3. (len * 2 + 2 - 1) \div 2 = len  BY <1>1
  <2>4. QED  BY <1>1, <2>1, <2>2, <2>3 DEF download_range, from_bytes_len
<1>4. CASE kind = "Int8"
  BY <1>1, <1>4 DEF download_range, from_bytes_len, bytes_for, bits_per_elem, elems_per_host_word, DataType
<1>5. CASE kind = "Int4"
  BY <1>1, <1>5 DEF download_range, from_bytes_len, bytes_for, bits_per_elem, elems_per_host_word, DataType
<1>6. QED  BY <1>2, <1>3, <1>4, <1>5 DEF DataKind

\* copy_to never fails on a length: the tensor it makes from a download takes all of
\* it, and has the length of the one it copies.
THEOREM CopiesFit ==
    ASSUME NEW kind \in DataKind, NEW len, Sized(kind, len), len < Word
    PROVE  copy_to(kind, len) /\ whole_words(kind, len) = len
<1>1. download_range(kind, len) = len  BY DownloadsComeBack
<1>2. whole_words(kind, len) = len  BY DEF whole_words, Sized, UpTo, Wrap
<1>3. byte_range(kind, len, 0, len, TRUE)
  <2>1. bits_per_elem(kind) \in Nat  BY DEF bits_per_elem, DataType, DataKind
  <2>2. Wrap(0 * bits_per_elem(kind)) = 0  BY <2>1, WordAssumption DEF Wrap
  <2>3. len \in Nat /\ 0 + len = len  BY DEF Sized
  <2>4. QED  BY <2>2, <2>3 DEF byte_range, OnWord, COPY_ALIGN
<1>4. QED  BY <1>1, <1>2, <1>3 DEF copy_to, upload, upload_at, same_len, same_kind

-----------------------------------------------------------------------------

\* The types of everything but the count.
Types ==
    /\ made \in [Buffers -> Keys \cup {None}]
    /\ tensor \in [Buffers -> Keys \cup {None}]
    /\ blocks \in [Keys -> Seq(Buffers)]
    /\ freeing \in [Threads -> SUBSET Buffers]
    /\ step \in [Threads -> {"idle", "alloc_raw", "drain", "retry"}]
    /\ wants \in [Threads -> Keys \cup {None}]

\* The pool keeps a buffer once, under the key it was made for.
Kept ==
    \A k \in Keys : \A i, j \in DOMAIN blocks[k] :
        made[blocks[k][i]] = k /\ (blocks[k][i] = blocks[k][j] => i = j)

\* A tensor's key is the one its buffer was made for.
Matched == \A b \in Buffers : tensor[b] # None => made[b] = tensor[b]

\* A thread in alloc knows what it wants, and starts to drain with nothing to free.
InAlloc ==
    \A t \in Threads :
        /\ step[t] # "idle" => wants[t] \in Keys
        /\ step[t] \in {"alloc_raw", "drain"} => freeing[t] = {}

\* No buffer is in two of the three homes, and each that is alive is in one.
Apart ==
    /\ Held \cap Pooled = {}
    /\ \A t \in Threads :
          /\ freeing[t] \cap (Held \cup Pooled) = {}
          /\ \A u \in Threads : t # u => freeing[t] \cap freeing[u] = {}
    /\ {b \in Buffers : made[b] # None} = Held \cup Pooled \cup UNION {freeing[t] : t \in Threads}

PoolInv == Types /\ Kept /\ Matched /\ InAlloc /\ Apart

-----------------------------------------------------------------------------

\* What is in the pool, buffer by buffer.
LEMMA PooledIs ==
    \A b : b \in Pooled <=> \E k \in Keys : \E j \in DOMAIN blocks[k] : blocks[k][j] = b
BY DEF Pooled, InPool

LEMMA PooledIsNext ==
    \A b : b \in Pooled' <=> \E k \in Keys : \E j \in DOMAIN blocks'[k] : blocks'[k][j] = b
BY DEF Pooled, InPool

\* take removes the buffer it returns, and no other.
LEMMA TakePops ==
    ASSUME Types, Kept, NEW k \in Keys, NEW b \in Buffers, take(k, b)
    PROVE  /\ blocks' \in [Keys -> Seq(Buffers)]
           /\ b \in Pooled /\ made[b] = k
           /\ Pooled' = Pooled \ {b}
           /\ made' = made => Kept'
<1> DEFINE n == Len(blocks[k])
<1>1. blocks[k] \in Seq(Buffers) /\ n \in Nat \ {0} /\ b = blocks[k][n] /\ DOMAIN blocks[k] = 1..n
  BY DEF Types, take
<1>2. /\ Popped(k) \in Seq(Buffers) /\ DOMAIN Popped(k) = 1..(n - 1)
      /\ \A i \in 1..(n - 1) : Popped(k)[i] = blocks[k][i]
  BY <1>1 DEF Popped
<1>3. /\ blocks' \in [Keys -> Seq(Buffers)]
      /\ blocks'[k] = Popped(k)
      /\ \A q \in Keys : q # k => blocks'[q] = blocks[q]
  BY <1>2 DEF Types, take
<1>4. b \in Pooled /\ made[b] = k
  BY <1>1, PooledIs DEF Kept
<1>5. ASSUME NEW c PROVE c \in Pooled' <=> c \in Pooled /\ c # b
  <2>1. ASSUME NEW q \in Keys, NEW i \in DOMAIN blocks'[q], blocks'[q][i] = c
        PROVE  c \in Pooled /\ c # b
    <3>1. i \in DOMAIN blocks[q] /\ blocks[q][i] = c  BY <1>1, <1>2, <1>3, <2>1
    <3>2. c = b => q = k /\ i = n  BY <1>1, <1>4, <3>1 DEF Kept
    <3>3. q = k => i # n  BY <1>1, <1>2, <1>3, <2>1
    <3>4. QED  BY <3>1, <3>2, <3>3, PooledIs
  <2>2. ASSUME NEW q \in Keys, NEW i \in DOMAIN blocks[q], blocks[q][i] = c, c # b
        PROVE  c \in Pooled'
    <3>1. i \in DOMAIN blocks'[q] /\ blocks'[q][i] = c  BY <1>1, <1>2, <1>3, <2>2
    <3>2. QED  BY <3>1, PooledIsNext
  <2>3. QED  BY <2>1, <2>2, PooledIs, PooledIsNext
<1>6. ASSUME made' = made PROVE Kept'
  <2> SUFFICES ASSUME NEW q \in Keys, NEW i \in DOMAIN blocks'[q], NEW j \in DOMAIN blocks'[q]
               PROVE  made[blocks'[q][i]] = q /\ (blocks'[q][i] = blocks'[q][j] => i = j)
    BY <1>6 DEF Kept
  <2>1. ASSUME NEW l \in DOMAIN blocks'[q] PROVE l \in DOMAIN blocks[q] /\ blocks'[q][l] = blocks[q][l]
    <3>1. CASE q = k  BY <1>1, <1>2, <1>3, <3>1
    <3>2. CASE q # k  BY <1>3, <3>2
    <3>3. QED  BY <3>1, <3>2
  <2>2. QED  BY <2>1 DEF Kept
<1>7. Pooled' = Pooled \ {b}  BY <1>5
<1>8. QED  BY <1>3, <1>4, <1>6, <1>7

\* A buffer that is kept is in the pool from then on, with all that were.
LEMMA Pushed ==
    ASSUME Types, Kept, NEW k \in Keys, NEW b \in Buffers, b \notin Pooled, made[b] = k,
           made' = made,
           blocks' = [blocks EXCEPT ![k] = Append(@, b)]
    PROVE  /\ blocks' \in [Keys -> Seq(Buffers)]
           /\ Pooled' = Pooled \cup {b}
           /\ Kept'
<1> DEFINE n == Len(blocks[k])
<1>1. blocks[k] \in Seq(Buffers) /\ n \in Nat /\ DOMAIN blocks[k] = 1..n
  BY DEF Types
<1>2. /\ blocks' \in [Keys -> Seq(Buffers)]
      /\ DOMAIN blocks'[k] = 1..(n + 1)
      /\ blocks'[k][n + 1] = b
      /\ \A i \in 1..n : blocks'[k][i] = blocks[k][i]
      /\ \A q \in Keys : q # k => blocks'[q] = blocks[q]
  <2>1. Append(blocks[k], b) \in Seq(Buffers)  BY <1>1
  <2>2. blocks'[k] = Append(blocks[k], b)  BY DEF Types
  <2>3. QED  BY <1>1, <2>1, <2>2 DEF Types
<1>3. ASSUME NEW q \in Keys, NEW i \in DOMAIN blocks'[q]
      PROVE  \/ i \in DOMAIN blocks[q] /\ blocks'[q][i] = blocks[q][i]
             \/ q = k /\ i = n + 1 /\ blocks'[q][i] = b
  BY <1>1, <1>2
<1>4. ASSUME NEW q \in Keys, NEW i \in DOMAIN blocks[q]
      PROVE  i \in DOMAIN blocks'[q] /\ blocks'[q][i] = blocks[q][i] /\ blocks[q][i] # b
  BY <1>1, <1>2, PooledIs
<1>5. Pooled' = Pooled \cup {b}
  <2>1. n + 1 \in DOMAIN blocks'[k]  BY <1>1, <1>2
  <2>2. ASSUME NEW c PROVE c \in Pooled' <=> c \in Pooled \/ c = b
    BY <1>2, <1>3, <1>4, <2>1, PooledIs, PooledIsNext
  <2>3. QED  BY <2>2
<1>6. Kept'
  <2> SUFFICES ASSUME NEW q \in Keys, NEW i \in DOMAIN blocks'[q], NEW j \in DOMAIN blocks'[q]
               PROVE  made[blocks'[q][i]] = q /\ (blocks'[q][i] = blocks'[q][j] => i = j)
    BY DEF Kept
  <2>1. QED  BY <1>3, <1>4 DEF Kept
<1>7. QED  BY <1>2, <1>5, <1>6

\* Where the pool and what was made stay, Kept does.
LEMMA PoolStays ==
    ASSUME blocks' = blocks
    PROVE  Pooled' = Pooled /\ (Kept /\ made' = made => Kept')
BY DEF Pooled, InPool, Kept

-----------------------------------------------------------------------------
\* One lemma for each step.

LEMMA InitInv == Init => PoolInv
<1> SUFFICES ASSUME Init PROVE PoolInv  OBVIOUS
<1>1. Types  BY DEF Init, Types
<1>2. Pooled = {}  BY PooledIs DEF Init
<1>3. QED  BY <1>1, <1>2 DEF Init, PoolInv, Kept, Matched, InAlloc, Apart, Held

LEMMA AllocKeeps ==
    ASSUME PoolInv, NEW t \in Threads, NEW k \in Keys, alloc(t, k)
    PROVE  PoolInv'
<1>1. CASE \E b \in Buffers : take(k, b) /\ tensor' = [tensor EXCEPT ![b] = k] /\ UNCHANGED <<step, wants>>
  <2>1. PICK b \in Buffers : take(k, b) /\ tensor' = [tensor EXCEPT ![b] = k] /\ UNCHANGED <<step, wants>>
    BY <1>1
  <2>2. UNCHANGED <<made, freeing>>  BY DEF alloc
  <2>3. /\ blocks' \in [Keys -> Seq(Buffers)] /\ b \in Pooled /\ made[b] = k
        /\ Pooled' = Pooled \ {b} /\ Kept'
    BY <2>1, <2>2, TakePops DEF PoolInv
  <2>4. Types'  BY <2>1, <2>2, <2>3 DEF PoolInv, Types
  <2>5. k # None  BY NoneAssumption
  <2>6. Held' = Held \cup {b}  BY <2>1, <2>5 DEF PoolInv, Types, Held
  <2>7. Matched'  BY <2>1, <2>2, <2>3 DEF PoolInv, Types, Matched
  <2>8. InAlloc'  BY <2>1, <2>2 DEF PoolInv, InAlloc
  <2>9. Apart'
    <3>1. b \notin Held  BY <2>3 DEF PoolInv, Apart
    <3>2. QED  BY <2>2, <2>3, <2>6, <3>1 DEF PoolInv, Apart
  <2>10. QED  BY <2>3, <2>4, <2>7, <2>8, <2>9 DEF PoolInv
<1>2. CASE /\ blocks[k] = <<>>
           /\ step' = [step EXCEPT ![t] = "alloc_raw"]
           /\ wants' = [wants EXCEPT ![t] = k]
           /\ UNCHANGED <<tensor, pool>>
  <2>1. UNCHANGED <<made, freeing, tensor, blocks>>  BY <1>2 DEF alloc, pool
  <2>2. Pooled' = Pooled /\ Kept' /\ Held' = Held  BY <2>1, PoolStays DEF PoolInv, Held
  <2>3. Types'  BY <1>2, <2>1 DEF PoolInv, Types
  <2>4. InAlloc'  BY <1>2, <2>1 DEF PoolInv, Types, InAlloc, alloc, Idle
  <2>5. Apart' /\ Matched'  BY <2>1, <2>2 DEF PoolInv, Apart, Matched
  <2>6. QED  BY <2>2, <2>3, <2>4, <2>5 DEF PoolInv
<1>3. QED  BY <1>1, <1>2 DEF alloc

LEMMA MadeKeeps ==
    ASSUME PoolInv, NEW t \in Threads, step[t] # "idle", freeing[t] = {}, Made(t)
    PROVE  PoolInv'
<1>1. PICK b \in Buffers :
        /\ made[b] = None
        /\ made' = [made EXCEPT ![b] = wants[t]]
        /\ tensor' = [tensor EXCEPT ![b] = wants[t]]
  BY DEF Made
<1>2. /\ step' = [step EXCEPT ![t] = "idle"]
      /\ UNCHANGED <<blocks, freeing, wants>>
  BY DEF Made, pool
<1>3. wants[t] \in Keys /\ wants[t] # None  BY NoneAssumption DEF PoolInv, InAlloc
<1>4. Types'  BY <1>1, <1>2, <1>3 DEF PoolInv, Types
<1>5. b \notin Held /\ b \notin Pooled /\ \A u \in Threads : b \notin freeing[u]
  BY <1>1 DEF PoolInv, Apart
<1>6. Pooled' = Pooled  BY <1>2, PoolStays
<1>7. Held' = Held \cup {b}  BY <1>1, <1>3 DEF PoolInv, Types, Held
<1>8. {c \in Buffers : made'[c] # None} = {c \in Buffers : made[c] # None} \cup {b}
  BY <1>1, <1>3 DEF PoolInv, Types
<1>9. Kept'
  <2>1. \A c \in Pooled : made'[c] = made[c]  BY <1>1, <1>5 DEF PoolInv, Types
  <2>2. QED  BY <1>2, <2>1, PooledIs DEF PoolInv, Kept
<1>10. Matched'  BY <1>1 DEF PoolInv, Types, Matched
<1>11. InAlloc'  BY <1>2 DEF PoolInv, Types, InAlloc
<1>12. Apart'  BY <1>2, <1>5, <1>6, <1>7, <1>8 DEF PoolInv, Apart
<1>13. QED  BY <1>4, <1>9, <1>10, <1>11, <1>12 DEF PoolInv

\* A step that only moves a thread on in alloc.
LEMMA MovesOn ==
    ASSUME PoolInv, NEW t \in Threads, NEW s \in {"idle", "drain"},
           step[t] \in {"alloc_raw", "retry"}, s = "drain" => step[t] = "alloc_raw",
           step' = [step EXCEPT ![t] = s],
           UNCHANGED <<made, tensor, pool, freeing, wants>>
    PROVE  PoolInv'
<1>1. Pooled' = Pooled /\ Kept' /\ Held' = Held  BY PoolStays DEF PoolInv, Held, pool
<1>2. Types'  BY DEF PoolInv, Types, pool
<1>3. InAlloc'  BY DEF PoolInv, Types, InAlloc
<1>4. Apart' /\ Matched'  BY <1>1 DEF PoolInv, Apart, Matched
<1>5. QED  BY <1>1, <1>2, <1>3, <1>4 DEF PoolInv

LEMMA AllocRawKeeps ==
    ASSUME PoolInv, NEW t \in Threads, alloc_raw(t)
    PROVE  PoolInv'
<1>1. step[t] = "alloc_raw" /\ freeing[t] = {}  BY DEF alloc_raw, PoolInv, InAlloc
<1>2. CASE Made(t)  BY <1>1, <1>2, MadeKeeps
<1>3. CASE step' = [step EXCEPT ![t] = "drain"] /\ UNCHANGED <<made, tensor, pool, freeing, wants>>
  BY <1>1, <1>3, MovesOn
<1>4. QED  BY <1>2, <1>3 DEF alloc_raw

LEMMA RetryKeeps ==
    ASSUME PoolInv, NEW t \in Threads, Retry(t)
    PROVE  PoolInv'
<1>1. step[t] = "retry" /\ freeing[t] = {}  BY DEF Retry
<1>2. CASE Made(t)  BY <1>1, <1>2, MadeKeeps
<1>3. CASE step' = [step EXCEPT ![t] = "idle"] /\ UNCHANGED <<made, tensor, pool, freeing, wants>>
  BY <1>1, <1>3, MovesOn
<1>4. QED  BY <1>2, <1>3 DEF Retry

LEMMA DrainKeeps ==
    ASSUME PoolInv, NEW t \in Threads, drain(t)
    PROVE  PoolInv'
<1>1. /\ step[t] = "drain" /\ freeing[t] = {}
      /\ blocks' = [k \in Keys |-> <<>>]
      /\ freeing' = [freeing EXCEPT ![t] = Pooled]
      /\ step' = [step EXCEPT ![t] = "retry"]
      /\ UNCHANGED <<made, tensor, wants>>
  BY DEF drain, PoolInv, InAlloc
<1>2. Pooled' = {}  BY <1>1, PooledIsNext
<1>3. Pooled \subseteq Buffers  BY PooledIs DEF PoolInv, Types
<1>4. Types'  BY <1>1, <1>3 DEF PoolInv, Types
<1>5. Kept'  BY <1>1 DEF Kept
<1>6. Held' = Held /\ Matched'  BY <1>1 DEF PoolInv, Held, Matched
<1>7. InAlloc'  BY <1>1 DEF PoolInv, Types, InAlloc
<1>8. freeing'[t] = Pooled /\ \A u \in Threads : u # t => freeing'[u] = freeing[u]
  BY <1>1 DEF PoolInv, Types
<1>9. UNION {freeing'[u] : u \in Threads} = Pooled \cup UNION {freeing[u] : u \in Threads}
  <2>1. ASSUME NEW c PROVE c \in UNION {freeing'[u] : u \in Threads} <=>
                           c \in Pooled \/ c \in UNION {freeing[u] : u \in Threads}
    BY <1>1, <1>8
  <2>2. QED  BY <2>1
<1>10. Apart'  BY <1>1, <1>2, <1>6, <1>8, <1>9 DEF PoolInv, Apart
<1>11. QED  BY <1>4, <1>5, <1>6, <1>7, <1>10 DEF PoolInv

LEMMA FreeKeeps ==
    ASSUME PoolInv, NEW t \in Threads, Free(t)
    PROVE  PoolInv'
<1>1. PICK b \in freeing[t] :
        /\ made' = [made EXCEPT ![b] = None]
        /\ freeing' = [freeing EXCEPT ![t] = @ \ {b}]
  BY DEF Free
<1>2. b \in Buffers /\ UNCHANGED <<tensor, blocks, step, wants>>
  BY DEF Free, pool, PoolInv, Types
<1>3. Types'  BY <1>1, <1>2 DEF PoolInv, Types
<1>4. b \notin Held /\ b \notin Pooled  BY <1>1 DEF PoolInv, Apart
<1>5. Pooled' = Pooled /\ Held' = Held  BY <1>2, PoolStays DEF Held
<1>6. Kept'
  <2>1. \A c \in Pooled : made'[c] = made[c]  BY <1>1, <1>4 DEF PoolInv, Types
  <2>2. QED  BY <1>2, <2>1, PooledIs DEF PoolInv, Kept
<1>7. Matched'  BY <1>1, <1>2, <1>4 DEF PoolInv, Types, Matched, Held
<1>8. InAlloc'  BY <1>1, <1>2 DEF PoolInv, Types, InAlloc
<1>9. freeing'[t] = freeing[t] \ {b} /\ \A u \in Threads : u # t => freeing'[u] = freeing[u]
  BY <1>1 DEF PoolInv, Types
<1>10. {c \in Buffers : made'[c] # None} = {c \in Buffers : made[c] # None} \ {b}
  BY <1>1, <1>2 DEF PoolInv, Types
<1>11. UNION {freeing'[u] : u \in Threads} = (UNION {freeing[u] : u \in Threads}) \ {b}
  <2>1. ASSUME NEW c PROVE c \in UNION {freeing'[u] : u \in Threads} <=>
                           c \in UNION {freeing[u] : u \in Threads} /\ c # b
    BY <1>1, <1>9 DEF PoolInv, Apart
  <2>2. QED  BY <2>1
<1>12. Apart'  BY <1>4, <1>5, <1>9, <1>10, <1>11 DEF PoolInv, Apart
<1>13. QED  BY <1>3, <1>6, <1>7, <1>8, <1>12 DEF PoolInv

LEMMA DropKeeps ==
    ASSUME PoolInv, NEW t \in Threads, NEW b \in Buffers, DropTensor(t, b)
    PROVE  PoolInv'
<1>1. /\ step[t] = "idle" /\ freeing[t] = {} /\ tensor[b] # None
      /\ tensor' = [tensor EXCEPT ![b] = None]
      /\ recycle(t, b)
      /\ UNCHANGED <<made, step, wants>>
  BY DEF DropTensor, Idle
<1>2. tensor[b] \in Keys /\ made[b] = tensor[b] /\ b \in Held
  BY <1>1 DEF PoolInv, Types, Matched, Held
<1>3. b \notin Pooled /\ \A u \in Threads : b \notin freeing[u]  BY <1>2 DEF PoolInv, Apart
<1>4. Held' = Held \ {b}  BY <1>1 DEF PoolInv, Types, Held
<1>5. Matched'  BY <1>1 DEF PoolInv, Types, Matched
<1>6. CASE freeing' = [freeing EXCEPT ![t] = {b}] /\ UNCHANGED pool
  <2>1. blocks' = blocks /\ Pooled' = Pooled /\ Kept'  BY <1>1, <1>6, PoolStays DEF pool, PoolInv
  <2>2. Types'  BY <1>1, <1>6, <2>1 DEF PoolInv, Types
  <2>3. InAlloc'  BY <1>1, <1>6 DEF PoolInv, Types, InAlloc
  <2>4. freeing'[t] = {b} /\ \A u \in Threads : u # t => freeing'[u] = freeing[u]
    BY <1>6 DEF PoolInv, Types
  <2>5. UNION {freeing'[u] : u \in Threads} = (UNION {freeing[u] : u \in Threads}) \cup {b}
    <3>1. ASSUME NEW c PROVE c \in UNION {freeing'[u] : u \in Threads} <=>
                             c \in UNION {freeing[u] : u \in Threads} \/ c = b
      BY <1>1, <2>4
    <3>2. QED  BY <3>1
  <2>6. Apart'  BY <1>1, <1>2, <1>3, <1>4, <2>1, <2>4, <2>5 DEF PoolInv, Apart
  <2>7. QED  BY <1>5, <2>1, <2>2, <2>3, <2>6 DEF PoolInv
<1>7. CASE blocks' = [blocks EXCEPT ![tensor[b]] = Append(@, b)] /\ UNCHANGED freeing
  <2>1. /\ blocks' \in [Keys -> Seq(Buffers)]
        /\ Pooled' = Pooled \cup {b}
        /\ Kept'
    BY <1>1, <1>2, <1>3, <1>7, Pushed DEF PoolInv
  <2>2. Types'  BY <1>1, <1>7, <2>1 DEF PoolInv, Types
  <2>3. InAlloc'  BY <1>1, <1>7 DEF PoolInv, InAlloc
  <2>4. Apart'  BY <1>1, <1>2, <1>3, <1>4, <1>7, <2>1 DEF PoolInv, Apart
  <2>5. QED  BY <1>5, <2>1, <2>2, <2>3, <2>4 DEF PoolInv
<1>8. QED  BY <1>1, <1>6, <1>7 DEF recycle

LEMMA NextKeeps == PoolInv /\ [Next]_vars => PoolInv'
<1> SUFFICES ASSUME PoolInv, [Next]_vars PROVE PoolInv'  OBVIOUS
<1>1. CASE UNCHANGED vars
  <2>1. UNCHANGED <<made, tensor, blocks, freeing, step, wants>>  BY <1>1 DEF vars, pool
  <2>2. Pooled' = Pooled /\ Kept' /\ Held' = Held  BY <2>1, PoolStays DEF PoolInv, Held
  <2>3. QED  BY <2>1, <2>2 DEF PoolInv, Types, Matched, InAlloc, Apart
<1>2. CASE Next
  <2>1. PICK t \in Threads :
          \/ \E k \in Keys : alloc(t, k)
          \/ \E b \in Buffers : DropTensor(t, b)
          \/ alloc_raw(t) \/ drain(t) \/ Retry(t) \/ Free(t)
    BY <1>2 DEF Next
  <2>2. QED  BY <2>1, AllocKeeps, DropKeeps, AllocRawKeeps, DrainKeeps, RetryKeeps, FreeKeeps
<1>3. QED  BY <1>1, <1>2

LEMMA InvHolds == Spec => []PoolInv
<1>1. QED  BY InitInv, NextKeeps, PTL DEF Spec

-----------------------------------------------------------------------------

\* No raw buffer has two owners, and none that is alive has none: whatever threads
\* allocate, drop, drain and free at once (BufferPool, ComputeDevice::alloc, Tensor::drop).
THEOREM BuffersHaveOneHome == Spec => []OneHome
<1>1. PoolInv => OneHome  BY DEF PoolInv, Kept, Apart, OneHome
<1>2. QED  BY <1>1, InvHolds, PTL

\* A key's length is Sized and its buffer holds it.
LEMMA KeysAreSized ==
    ASSUME NEW k \in Keys
    PROVE  /\ k[1] \in DataKind /\ Sized(k[1], k[2]) /\ k[2] \in Nat
           /\ Size[k] \in Nat /\ Size[k] >= buffer_bytes(k[1], k[2])
<1>1. k[1] \in DataKind  BY AsksAssumption DEF Keys, KeyOf
<1>2. QED  BY <1>1, AsksAssumption, SizeAssumption DEF Sized

\* What byte_range lets a tensor's transfers move is inside the raw buffer that the
\* pool or the backend gave it, and a write moves the range's own elements only.
THEOREM RangesAreInside == Spec => []RangesFit
<1>1. ASSUME PoolInv PROVE RangesFit
  <2> SUFFICES ASSUME NEW b \in Held,
                      NEW offset \in 0..tensor[b][2], NEW n \in 0..tensor[b][2], NEW write \in BOOLEAN,
                      byte_range(tensor[b][1], tensor[b][2], offset, n, write)
               PROVE  /\ WritesOwn(tensor[b][1], tensor[b][2], offset, n) \/ ~ write
                      /\ ByteRange(tensor[b][1], offset, n).start
                           + ByteRange(tensor[b][1], offset, n).bytes <= SizeOf(b)
    BY DEF RangesFit
  <2> DEFINE key == tensor[b]
  <2>1. key \in Keys /\ SizeOf(b) = Size[key]
    BY <1>1 DEF PoolInv, Types, Matched, Held, SizeOf
  <2>2. /\ key[1] \in DataKind /\ Sized(key[1], key[2]) /\ key[2] \in Nat
        /\ Size[key] \in Nat /\ Size[key] >= buffer_bytes(key[1], key[2])
    BY <2>1, KeysAreSized
  <2>3. offset \in Nat /\ n \in Nat  BY <2>2
  <2>4. RangeInside(key[1], key[2], offset, n)  BY <2>2, <2>3, AcceptedInside
  <2>5. write => WritesOwn(key[1], key[2], offset, n)  BY <2>2, <2>3, AcceptedWritesOwn
  <2> DEFINE range == ByteRange(key[1], offset, n)
             whole == buffer_bytes(key[1], key[2])
  <2>6. range.start + range.bytes <= whole  BY <2>4 DEF RangeInside
  <2>7. range.start \in Nat /\ range.bytes \in Nat /\ whole \in Nat
    <3>1. offset <= key[2] /\ n <= key[2]  BY <2>2, <2>3
    <3>2. /\ Wrap(offset * bits_per_elem(key[1])) \in Nat
          /\ bytes_for(key[1], n) \in Nat /\ bytes_for(key[1], key[2]) \in Nat
      BY <2>2, <2>3, <3>1, BitsInside DEF bytes_for
    <3>3. UpTo(bytes_for(key[1], n), 4) \in Nat /\ UpTo(bytes_for(key[1], key[2]), 4) \in Nat
      BY <3>2, UpToRounds
    <3>4. Wrap(offset * bits_per_elem(key[1])) \div 8 \in Nat  BY <3>2
    <3>5. QED  BY <3>3, <3>4 DEF ByteRange, buffer_bytes, COPY_ALIGN
  <2>8. QED  BY <2>1, <2>2, <2>5, <2>6, <2>7
<1>2. QED  BY <1>1, InvHolds, PTL

-----------------------------------------------------------------------------
(* Sums, by induction on a finite set.                                     *)

LEMMA Least ==
    ASSUME NEW T, T \subseteq Nat, T # {}
    PROVE  \E m \in T : \A n \in T : m <= n
<1> DEFINE R == OpToRel(<, Nat)
<1>1. IsWellFoundedOn(R, Nat)  BY NatLessThanWellFounded
<1>2. PICK m \in T : \A y \in T : ~(<<y, m>> \in R)
  <2> HIDE DEF R
  <2> QED  BY <1>1, WFMin
<1>3. \A y \in T : ~(y < m)  BY <1>2 DEF OpToRel
<1> QED  BY <1>3

\* A set of finite sets that is not empty has one with no other inside.
LEMMA LeastSet ==
    ASSUME NEW B, B # {}, \A s \in B : IsFiniteSet(s)
    PROVE  \E s \in B : \A x \in s : s \ {x} \notin B
<1> DEFINE Sizes == {Cardinality(s) : s \in B}
<1>1. Sizes \subseteq Nat /\ Sizes # {}  BY FS_CardinalityType
<1>2. PICK m \in Sizes : \A n \in Sizes : m <= n
  <2> HIDE DEF Sizes
  <2> QED  BY <1>1, Least
<1>3. PICK s \in B : Cardinality(s) = m  BY <1>2
<1>4. ASSUME NEW x \in s, s \ {x} \in B PROVE FALSE
  <2>1. Cardinality(s \ {x}) = m - 1  BY <1>3, FS_RemoveElement
  <2>2. m - 1 \in Sizes  BY <1>4, <2>1
  <2>3. m \in Nat /\ m <= m - 1  BY <1>1, <1>2, <2>2
  <2>4. QED  BY <2>3
<1>5. QED  BY <1>4

One(s) == CHOOSE x \in s : TRUE

\* The recursion of MapThenSumSet, for the numbers f gives.
Sums(f, S, g) ==
    g = [s \in SUBSET S |-> IF s = {} THEN 0 ELSE f[One(s)] + g[s \ {One(s)}]]

Sum(f, S) == (CHOOSE g : Sums(f, S, g))[S]

LEMMA SumsAt ==
    ASSUME NEW f, NEW S, NEW g, Sums(f, S, g), NEW s \in SUBSET S
    PROVE  g[s] = IF s = {} THEN 0 ELSE f[One(s)] + g[s \ {One(s)}]
BY DEF Sums

\* Two solutions are one, and where another f is the same on the set, one of it too.
LEMMA SumsAgree ==
    ASSUME NEW S, IsFiniteSet(S), NEW f, NEW h, \A x \in S : f[x] = h[x],
           NEW g, Sums(f, S, g), NEW k, Sums(h, S, k)
    PROVE  g[S] = k[S]
<1> DEFINE B == {s \in SUBSET S : g[s] # k[s]}
<1> SUFFICES ASSUME B # {} PROVE FALSE  OBVIOUS
<1>1. \A s \in B : IsFiniteSet(s)  BY FS_Subset
<1>2. PICK s \in B : \A x \in s : s \ {x} \notin B
  <2> HIDE DEF B
  <2> QED  BY <1>1, LeastSet
<1>3. s \in SUBSET S /\ g[s] # k[s]  OBVIOUS
<1>4. s # {}  BY <1>3, SumsAt
<1>5. One(s) \in s  BY <1>4 DEF One
<1>6. g[s] = f[One(s)] + g[s \ {One(s)}] /\ k[s] = h[One(s)] + k[s \ {One(s)}]
  <2>1. s \in SUBSET S  BY <1>3
  <2>2. g[s] = f[One(s)] + g[s \ {One(s)}]  BY <1>4, <2>1, SumsAt
  <2>3. k[s] = h[One(s)] + k[s \ {One(s)}]
    <3>1. k[s] = IF s = {} THEN 0 ELSE h[One(s)] + k[s \ {One(s)}]  BY <2>1 DEF Sums
    <3>2. QED  BY <1>4, <3>1
  <2>4. QED  BY <2>2, <2>3
<1>7. g[s \ {One(s)}] = k[s \ {One(s)}]  BY <1>2, <1>3, <1>5
<1>8. f[One(s)] = h[One(s)]  BY <1>3, <1>5
<1>9. QED  BY <1>3, <1>6, <1>7, <1>8

\* A solution for a set holds those for its subsets.
LEMMA SumsInside ==
    ASSUME NEW f, NEW S, NEW g, Sums(f, S, g), NEW T \in SUBSET S
    PROVE  Sums(f, T, [s \in SUBSET T |-> g[s]])
<1> DEFINE k == [s \in SUBSET T |-> g[s]]
           r == [s \in SUBSET T |-> IF s = {} THEN 0 ELSE f[One(s)] + k[s \ {One(s)}]]
<1>1. ASSUME NEW s \in SUBSET T PROVE k[s] = r[s]
  <2>1. k[s] = g[s] /\ k[s \ {One(s)}] = g[s \ {One(s)}]  OBVIOUS
  <2>2. g[s] = IF s = {} THEN 0 ELSE f[One(s)] + g[s \ {One(s)}]  BY SumsAt
  <2>3. r[s] = IF s = {} THEN 0 ELSE f[One(s)] + k[s \ {One(s)}]  OBVIOUS
  <2> HIDE DEF k, r
  <2>4. QED  BY <2>1, <2>2, <2>3
<1>2. k = [s \in SUBSET T |-> k[s]] /\ r = [s \in SUBSET T |-> r[s]]  OBVIOUS
<1> HIDE DEF k
<1>3. k = r
  <2> HIDE DEF r
  <2> QED  BY <1>1, <1>2
<1>4. Sums(f, T, k)  BY <1>3 DEF Sums
<1>5. QED  BY <1>4 DEF k

LEMMA SumIsThat ==
    ASSUME NEW f, NEW S, IsFiniteSet(S), NEW g, Sums(f, S, g)
    PROVE  Sum(f, S) = g[S]
<1> DEFINE k == CHOOSE k : Sums(f, S, k)
<1>1. Sums(f, S, k)  OBVIOUS
<1>2. Sum(f, S) = k[S]  BY DEF Sum
<1> HIDE DEF k
<1>3. QED  BY <1>1, <1>2, SumsAgree

LEMMA SumsExist ==
    ASSUME NEW f, NEW S, IsFiniteSet(S)
    PROVE  \E g : Sums(f, S, g)
<1> DEFINE B == {T \in SUBSET S : ~ \E g : Sums(f, T, g)}
<1> SUFFICES ASSUME B # {} PROVE FALSE  OBVIOUS
<1>1. \A T \in B : IsFiniteSet(T)  BY FS_Subset
<1>2. PICK T \in B : \A x \in T : T \ {x} \notin B
  <2> HIDE DEF B
  <2> QED  BY <1>1, LeastSet
<1>3. T \in SUBSET S /\ IsFiniteSet(T) /\ ~ \E g : Sums(f, T, g)  BY <1>1
<1> DEFINE g == [u \in SUBSET T |-> IF u = {} THEN 0 ELSE f[One(u)] + Sum(f, u \ {One(u)})]
           r == [u \in SUBSET T |-> IF u = {} THEN 0 ELSE f[One(u)] + g[u \ {One(u)}]]
<1>4. \A u \in SUBSET T : u # T => \E k : Sums(f, u, k)
  <2> SUFFICES ASSUME NEW u \in SUBSET T, u # T PROVE \E k : Sums(f, u, k)  OBVIOUS
  <2>1. PICK x \in T : x \notin u  OBVIOUS
  <2>2. PICK k : Sums(f, T \ {x}, k)  BY <1>2, <1>3
  <2>3. u \in SUBSET (T \ {x})  BY <2>1
  <2>4. QED  BY <2>2, <2>3, SumsInside
<1>5. \A u \in SUBSET T : u # T => g[u] = Sum(f, u)
  <2> SUFFICES ASSUME NEW u \in SUBSET T, u # T PROVE g[u] = Sum(f, u)  OBVIOUS
  <2>1. PICK k : Sums(f, u, k)  BY <1>4
  <2>2. IsFiniteSet(u)  BY <1>3, FS_Subset
  <2>3. Sum(f, u) = k[u]  BY <2>1, <2>2, SumIsThat
  <2>4. k[u] = IF u = {} THEN 0 ELSE f[One(u)] + k[u \ {One(u)}]  BY <2>1, SumsAt
  <2>5. ASSUME u # {} PROVE k[u \ {One(u)}] = Sum(f, u \ {One(u)})
    <3> DEFINE v == u \ {One(u)}
               kv == [s \in SUBSET v |-> k[s]]
    <3>1. Sums(f, v, kv)
      <4>1. v \in SUBSET u  OBVIOUS
      <4> HIDE DEF v
      <4>2. QED  BY <2>1, <4>1, SumsInside
    <3>2. IsFiniteSet(v)  BY <2>2, FS_Subset
    <3>3. kv[v] = k[v]  OBVIOUS
    <3> HIDE DEF v, kv
    <3>4. Sum(f, v) = kv[v]  BY <3>1, <3>2, SumIsThat
    <3>5. QED  BY <3>3, <3>4 DEF v
  <2>6. g[u] = IF u = {} THEN 0 ELSE f[One(u)] + Sum(f, u \ {One(u)})  OBVIOUS
  <2> HIDE DEF g
  <2>7. QED  BY <2>3, <2>4, <2>5, <2>6
<1>6. ASSUME NEW u \in SUBSET T PROVE g[u] = r[u]
  <2>1. CASE u = {}  BY <2>1
  <2>2. CASE u # {}
    <3>1. One(u) \in u  BY <2>2 DEF One
    <3>2. g[u \ {One(u)}] = Sum(f, u \ {One(u)})
      <4>1. u \ {One(u)} \in SUBSET T /\ u \ {One(u)} # T  BY <3>1
      <4> HIDE DEF g
      <4>2. QED  BY <1>5, <4>1
    <3>3. g[u] = f[One(u)] + Sum(f, u \ {One(u)})  BY <2>2
    <3>4. r[u] = f[One(u)] + g[u \ {One(u)}]  BY <2>2
    <3> HIDE DEF g, r
    <3>5. QED  BY <3>2, <3>3, <3>4
  <2>3. QED  BY <2>1, <2>2
<1>7. g = [u \in SUBSET T |-> g[u]] /\ r = [u \in SUBSET T |-> r[u]]  OBVIOUS
<1> HIDE DEF g
<1>8. g = r
  <2> HIDE DEF r
  <2> QED  BY <1>6, <1>7
<1>9. Sums(f, T, g)  BY <1>8 DEF Sums
<1>10. QED  BY <1>3, <1>9

\* So a sum is that of its parts, whatever is taken first.
LEMMA SumIs ==
    ASSUME NEW f, NEW S, IsFiniteSet(S)
    PROVE  /\ Sum(f, {}) = 0
           /\ S # {} => One(S) \in S /\ Sum(f, S) = f[One(S)] + Sum(f, S \ {One(S)})
<1>1. Sum(f, {}) = 0
  <2>1. IsFiniteSet({})  BY FS_EmptySet
  <2>2. PICK g : Sums(f, {}, g)  BY <2>1, SumsExist
  <2>3. QED  BY <2>1, <2>2, SumIsThat, SumsAt
<1>2. ASSUME S # {} PROVE One(S) \in S /\ Sum(f, S) = f[One(S)] + Sum(f, S \ {One(S)})
  <2> DEFINE v == S \ {One(S)}
  <2>1. PICK g : Sums(f, S, g)  BY SumsExist
  <2>2. g[S] = f[One(S)] + g[v]  BY <1>2, <2>1, SumsAt
  <2> DEFINE k == [s \in SUBSET v |-> g[s]]
  <2>3. Sums(f, v, k) /\ k[v] = g[v]  BY <2>1, SumsInside
  <2>4. IsFiniteSet(v)  BY FS_Subset
  <2>5. One(S) \in S  BY <1>2 DEF One
  <2> HIDE DEF k
  <2>6. Sum(f, v) = g[v]
    <3> HIDE DEF v
    <3> QED  BY <2>3, <2>4, SumIsThat
  <2>7. Sum(f, S) = g[S]  BY <2>1, SumIsThat
  <2>8. QED  BY <2>2, <2>5, <2>6, <2>7
<1>3. QED  BY <1>1, <1>2

LEMMA SumSame ==
    ASSUME NEW S, IsFiniteSet(S), NEW f, NEW h, \A x \in S : f[x] = h[x]
    PROVE  Sum(f, S) = Sum(h, S)
<1>1. PICK g : Sums(f, S, g)  BY SumsExist
<1>2. PICK k : Sums(h, S, k)  BY SumsExist
<1>3. Sum(f, S) = g[S] /\ Sum(h, S) = k[S]  BY <1>1, <1>2, SumIsThat
<1>4. g[S] = k[S]  BY <1>1, <1>2, SumsAgree
<1>5. QED  BY <1>3, <1>4

LEMMA SumTypes ==
    ASSUME NEW S, IsFiniteSet(S), NEW f, \A x \in S : f[x] \in Nat
    PROVE  Sum(f, S) \in Nat
<1> DEFINE B == {T \in SUBSET S : Sum(f, T) \notin Nat}
<1> SUFFICES ASSUME B # {} PROVE FALSE  OBVIOUS
<1>1. \A T \in B : IsFiniteSet(T)  BY FS_Subset
<1>2. PICK T \in B : \A x \in T : T \ {x} \notin B
  <2> HIDE DEF B
  <2> QED  BY <1>1, LeastSet
<1>3. T \in SUBSET S /\ IsFiniteSet(T) /\ Sum(f, T) \notin Nat  BY <1>1
<1>4. T # {}
  <2>1. Sum(f, {}) = 0  BY <1>3, SumIs
  <2>2. QED  BY <1>3, <2>1
<1>5. One(T) \in T /\ Sum(f, T) = f[One(T)] + Sum(f, T \ {One(T)})  BY <1>3, <1>4, SumIs
<1>6. Sum(f, T \ {One(T)}) \in Nat  BY <1>2, <1>3, <1>5
<1>7. f[One(T)] \in Nat  BY <1>3, <1>5
<1>8. QED  BY <1>3, <1>5, <1>6, <1>7

LEMMA SumAdds ==
    ASSUME NEW S, IsFiniteSet(S), NEW f, \A x \in S : f[x] \in Nat, NEW b \in S
    PROVE  Sum(f, S) = Sum(f, S \ {b}) + f[b]
<1> DEFINE B == {T \in SUBSET S : \E c \in T : Sum(f, T) # Sum(f, T \ {c}) + f[c]}
<1> SUFFICES ASSUME B # {} PROVE FALSE  OBVIOUS
<1>1. \A T \in B : IsFiniteSet(T)  BY FS_Subset
<1>2. PICK T \in B : \A x \in T : T \ {x} \notin B
  <2> HIDE DEF B
  <2> QED  BY <1>1, LeastSet
<1>3. T \in SUBSET S /\ IsFiniteSet(T)  BY <1>1
<1>4. PICK c \in T : Sum(f, T) # Sum(f, T \ {c}) + f[c]  BY <1>2
<1> DEFINE x == One(T)
<1>5. x \in T /\ Sum(f, T) = f[x] + Sum(f, T \ {x})  BY <1>3, <1>4, SumIs
<1>6. \A U \in SUBSET S : Sum(f, U) \in Nat
  <2> SUFFICES ASSUME NEW U \in SUBSET S PROVE Sum(f, U) \in Nat  OBVIOUS
  <2>1. IsFiniteSet(U)  BY FS_Subset
  <2>2. QED  BY <2>1, SumTypes
<1> DEFINE R == T \ {x, c}
<1>7. Sum(f, T \ {x}) \in Nat /\ Sum(f, T \ {c}) \in Nat /\ Sum(f, R) \in Nat /\ f[x] \in Nat /\ f[c] \in Nat
  BY <1>3, <1>5, <1>6
<1> HIDE DEF x
<1>8. c # x
  <2> HIDE DEF R, B
  <2> QED  BY <1>4, <1>5, <1>7
<1>9. Sum(f, T \ {x}) = Sum(f, R) + f[c]
  <2>1. T \ {x} \in SUBSET S /\ T \ {x} \notin B /\ c \in T \ {x} /\ (T \ {x}) \ {c} = R
    BY <1>2, <1>3, <1>5, <1>8
  <2> HIDE DEF R
  <2>2. QED  BY <2>1
<1>10. Sum(f, T \ {c}) = Sum(f, R) + f[x]
  <2>1. T \ {c} \in SUBSET S /\ T \ {c} \notin B /\ x \in T \ {c} /\ (T \ {c}) \ {x} = R
    BY <1>2, <1>3, <1>5, <1>8
  <2> HIDE DEF R
  <2>2. QED  BY <2>1
<1> HIDE DEF R, B
<1>11. QED  BY <1>4, <1>5, <1>7, <1>9, <1>10

-----------------------------------------------------------------------------
(* The pool's count.                                                       *)

\* The recursion of Bytes, where buffers were made for what m says.
BytesOf(m, bufs, g) ==
    g = [s \in SUBSET bufs |-> IF s = {} THEN 0 ELSE Size[m[One(s)]] + g[s \ {One(s)}]]

LEMMA BytesChosen == Bytes(Pooled) = (CHOOSE g : BytesOf(made, Pooled, g))[Pooled]
BY Zenon DEF Bytes, MapThenSumSet, MapThenFoldSet, BytesOf, One, SizeOf

LEMMA BytesChosenNext == Bytes(Pooled)' = (CHOOSE g : BytesOf(made', Pooled', g))[Pooled']
BY Zenon DEF Bytes, MapThenSumSet, MapThenFoldSet, BytesOf, One, SizeOf

Sizes(m) == [b \in Buffers |-> Size[m[b]]]

LEMMA BytesAreSum ==
    ASSUME NEW m, NEW bufs \in SUBSET Buffers, IsFiniteSet(bufs)
    PROVE  (CHOOSE g : BytesOf(m, bufs, g))[bufs] = Sum(Sizes(m), bufs)
<1> DEFINE f == Sizes(m)
<1>0. \A b \in bufs : f[b] = Size[m[b]]  BY DEF Sizes
<1> HIDE DEF f
<1>1. ASSUME NEW g PROVE Sums(f, bufs, g) <=> BytesOf(m, bufs, g)
  <2> DEFINE r == [s \in SUBSET bufs |-> IF s = {} THEN 0 ELSE f[One(s)] + g[s \ {One(s)}]]
             q == [s \in SUBSET bufs |-> IF s = {} THEN 0 ELSE Size[m[One(s)]] + g[s \ {One(s)}]]
  <2>1. ASSUME NEW s \in SUBSET bufs PROVE r[s] = q[s]
    <3>1. s # {} => One(s) \in bufs  BY DEF One
    <3>2. QED  BY <1>0, <3>1
  <2>2. r = [s \in SUBSET bufs |-> r[s]] /\ q = [s \in SUBSET bufs |-> q[s]]  OBVIOUS
  <2>3. r = q
    <3> HIDE DEF r, q
    <3> QED  BY <2>1, <2>2
  <2>4. QED  BY <2>3 DEF Sums, BytesOf
<1> DEFINE k == CHOOSE g : BytesOf(m, bufs, g)
<1>2. \E g : BytesOf(m, bufs, g)  BY <1>1, SumsExist
<1>3. BytesOf(m, bufs, k)  BY <1>2
<1> HIDE DEF k
<1>4. Sum(f, bufs) = k[bufs]  BY <1>1, <1>3, SumIsThat
<1>5. QED  BY <1>4 DEF k, f

CountInv == IsFiniteSet(Pooled) /\ bytes = Bytes(Pooled) /\ bytes <= max_free_bytes

LEMMA PooledSizes ==
    ASSUME PoolInv, NEW b \in Pooled
    PROVE  b \in Buffers /\ made[b] \in Keys /\ Size[made[b]] \in Nat /\ Sizes(made)[b] = Size[made[b]]
<1>1. b \in Buffers /\ made[b] \in Keys  BY PooledIs DEF PoolInv, Types, Kept
<1>2. QED  BY <1>1, SizeAssumption DEF Sizes

\* The count, as a number.
LEMMA Counted ==
    ASSUME PoolInv, CountInv
    PROVE  bytes = Sum(Sizes(made), Pooled) /\ bytes \in Nat
<1>1. Pooled \in SUBSET Buffers  BY PooledSizes
<1>2. bytes = Sum(Sizes(made), Pooled)  BY <1>1, BytesChosen, BytesAreSum DEF CountInv
<1>3. \A b \in Pooled : Sizes(made)[b] \in Nat  BY PooledSizes
<1>4. QED  BY <1>2, <1>3, SumTypes DEF CountInv

LEMMA CountedNext ==
    ASSUME Pooled' \in SUBSET Buffers, IsFiniteSet(Pooled'), bytes' = Sum(Sizes(made'), Pooled'),
           bytes' <= max_free_bytes
    PROVE  CountInv'
<1>1. bytes' = Bytes(Pooled)'
  <2> DEFINE m == made'
             p == Pooled'
  <2>1. (CHOOSE g : BytesOf(m, p, g))[p] = Sum(Sizes(m), p)
    <3> HIDE DEF m, p
    <3>1. p \in SUBSET Buffers /\ IsFiniteSet(p)  BY DEF p
    <3>2. QED  BY <3>1, BytesAreSum
  <2>2. QED  BY <2>1, BytesChosenNext
<1>2. QED  BY <1>1 DEF CountInv

\* Buffers in the pool were made for what they were made for.
LEMMA CountStays ==
    ASSUME PoolInv, CountInv, bytes' = bytes, Pooled' = Pooled,
           \A b \in Pooled : made'[b] = made[b]
    PROVE  CountInv'
<1> DEFINE f == Sizes(made)
           h == Sizes(made')
<1>1. IsFiniteSet(Pooled) /\ \A b \in Pooled : f[b] = h[b]  BY PooledSizes DEF CountInv, Sizes
<1>2. Pooled \in SUBSET Buffers  BY PooledSizes
<1>3. Sum(f, Pooled) = Sum(h, Pooled)
  <2> HIDE DEF f, h
  <2> QED  BY <1>1, SumSame
<1>4. bytes' = Sum(h, Pooled')  BY <1>3, Counted
<1>5. bytes' <= max_free_bytes  BY DEF CountInv
<1>6. QED  BY <1>1, <1>2, <1>4, <1>5, CountedNext

\* One step of the count for each step of a thread: take counts a buffer out, recycle
\* counts one in if it keeps it, drain starts again, the rest leaves the pool alone.
LEMMA TakeCounts ==
    ASSUME PoolInv, CountInv, NEW k \in Keys, NEW b \in Buffers, take(k, b), made' = made
    PROVE  CountInv'
<1> DEFINE f == Sizes(made)
<1>1. b \in Pooled /\ Pooled' = Pooled \ {b} /\ bytes' = bytes - Size[made[b]]
  BY TakePops DEF PoolInv, take, SizeOf
<1>2. IsFiniteSet(Pooled) /\ \A c \in Pooled : f[c] \in Nat  BY PooledSizes DEF CountInv
<1>3. f[b] = Size[made[b]] /\ f[b] \in Nat  BY <1>1, PooledSizes
<1>4. bytes = Sum(f, Pooled) /\ bytes \in Nat  BY Counted
<1> HIDE DEF f
<1>5. Sum(f, Pooled) = Sum(f, Pooled \ {b}) + f[b]  BY <1>1, <1>2, SumAdds
<1>6. IsFiniteSet(Pooled \ {b}) /\ \A c \in Pooled \ {b} : f[c] \in Nat  BY <1>2, FS_RemoveElement
<1>7. Sum(f, Pooled \ {b}) \in Nat  BY <1>6, SumTypes
<1>8. bytes' = Sum(f, Pooled \ {b}) /\ bytes' <= bytes  BY <1>1, <1>3, <1>4, <1>5, <1>7
<1>9. bytes' <= max_free_bytes
  <2>1. bytes <= max_free_bytes  BY DEF CountInv
  <2>2. QED  BY <1>4, <1>7, <1>8, <2>1, BytesAssumption
<1>10. Pooled' \in SUBSET Buffers  BY <1>1, PooledSizes
<1>11. bytes' = Sum(Sizes(made'), Pooled')  BY <1>1, <1>8 DEF f
<1>12. IsFiniteSet(Pooled')  BY <1>1, <1>6
<1>13. QED  BY <1>9, <1>10, <1>11, <1>12, CountedNext

LEMMA RecycleCounts ==
    ASSUME PoolInv, CountInv, NEW t \in Threads, NEW b \in Buffers, DropTensor(t, b)
    PROVE  CountInv'
<1>1. tensor[b] # None /\ recycle(t, b) /\ made' = made  BY DEF DropTensor
<1>2. tensor[b] \in Keys /\ made[b] = tensor[b] /\ b \notin Pooled
  BY <1>1 DEF PoolInv, Types, Matched, Apart, Held
<1>3. CASE UNCHANGED pool
  <2>1. blocks' = blocks /\ bytes' = bytes  BY <1>3 DEF pool
  <2>2. QED  BY <1>1, <2>1, PoolStays, CountStays
<1>4. CASE /\ ~ bytes + SizeOf(b) > max_free_bytes
           /\ bytes' = bytes + SizeOf(b)
           /\ blocks' = [blocks EXCEPT ![tensor[b]] = Append(@, b)]
  <2> DEFINE f == Sizes(made)
  <2>1. Pooled' = Pooled \cup {b}  BY <1>1, <1>2, <1>4, Pushed DEF PoolInv
  <2>2. SizeOf(b) = f[b] /\ f[b] \in Nat  BY <1>2, SizeAssumption DEF Sizes, SizeOf
  <2>3. IsFiniteSet(Pooled) /\ \A c \in Pooled : f[c] \in Nat  BY PooledSizes DEF CountInv
  <2>4. bytes = Sum(f, Pooled) /\ bytes \in Nat  BY Counted
  <2> HIDE DEF f
  <2> DEFINE more == Pooled \cup {b}
  <2>5. IsFiniteSet(more) /\ b \in more /\ more \ {b} = Pooled /\ \A c \in more : f[c] \in Nat
    BY <1>2, <2>2, <2>3, FS_AddElement
  <2> HIDE DEF more
  <2>6. Sum(f, more) = Sum(f, Pooled) + f[b]  BY <2>5, SumAdds
  <2>7. bytes' = Sum(f, more)  BY <1>4, <2>2, <2>4, <2>6
  <2>8. bytes' <= max_free_bytes  BY <1>4, <2>2, <2>4, BytesAssumption
  <2>9. Pooled' = more  BY <2>1 DEF more
  <2>10. Pooled' \in SUBSET Buffers  BY <2>1, PooledSizes
  <2>11. bytes' = Sum(Sizes(made'), Pooled')  BY <1>1, <2>7, <2>9 DEF f
  <2>12. QED  BY <2>5, <2>8, <2>9, <2>10, <2>11, CountedNext
<1>5. QED  BY <1>1, <1>3, <1>4 DEF recycle

LEMMA DrainCounts ==
    ASSUME PoolInv, NEW t \in Threads, drain(t)
    PROVE  CountInv'
<1>1. bytes' = 0 /\ blocks' = [k \in Keys |-> <<>>]  BY DEF drain
<1>2. Pooled' = {}  BY <1>1, PooledIsNext
<1>3. IsFiniteSet({})  BY FS_EmptySet
<1>4. Sum(Sizes(made'), {}) = 0  BY <1>3, SumIs
<1>5. bytes' <= max_free_bytes  BY <1>1, BytesAssumption
<1>6. QED  BY <1>1, <1>2, <1>3, <1>4, <1>5, CountedNext

\* A new raw buffer is none the pool keeps; nor is one that is freed.
LEMMA MadeCounts ==
    ASSUME PoolInv, CountInv, NEW t \in Threads, Made(t) \/ Free(t)
    PROVE  CountInv'
<1>1. blocks' = blocks /\ bytes' = bytes  BY DEF Made, Free, pool
<1>2. \A c \in Pooled : made'[c] = made[c]
  <2>1. CASE Made(t)
    <3>1. PICK b \in Buffers : made[b] = None /\ made' = [made EXCEPT ![b] = wants[t]]
      BY <2>1 DEF Made
    <3>2. b \notin Pooled  BY <3>1, PooledSizes, NoneAssumption
    <3>3. QED  BY <3>1, <3>2, PooledSizes DEF PoolInv, Types
  <2>2. CASE Free(t)
    <3>1. PICK b \in freeing[t] : made' = [made EXCEPT ![b] = None]  BY <2>2 DEF Free
    <3>2. b \notin Pooled  BY <3>1 DEF PoolInv, Apart
    <3>3. QED  BY <3>1, <3>2, PooledSizes DEF PoolInv, Types
  <2>3. QED  BY <2>1, <2>2
<1>3. QED  BY <1>1, <1>2, PoolStays, CountStays

LEMMA InitCounts == Init => CountInv
<1> SUFFICES ASSUME Init PROVE CountInv  OBVIOUS
<1>1. Pooled = {} /\ bytes = 0  BY PooledIs DEF Init
<1>2. IsFiniteSet({}) /\ {} \in SUBSET Buffers  BY FS_EmptySet
<1>3. Sum(Sizes(made), {}) = 0  BY <1>2, SumIs
<1>4. Bytes(Pooled) = 0  BY <1>1, <1>2, <1>3, BytesChosen, BytesAreSum
<1>5. QED  BY <1>1, <1>2, <1>4, BytesAssumption DEF CountInv

LEMMA NextCounts == PoolInv /\ CountInv /\ [Next]_vars => CountInv'
<1> SUFFICES ASSUME PoolInv, CountInv, [Next]_vars PROVE CountInv'  OBVIOUS
<1>1. ASSUME UNCHANGED <<made, pool>> PROVE CountInv'
  <2>1. blocks' = blocks /\ bytes' = bytes /\ made' = made  BY <1>1 DEF pool
  <2>2. QED  BY <2>1, PoolStays, CountStays
<1>2. CASE UNCHANGED vars  BY <1>1, <1>2 DEF vars
<1>3. ASSUME NEW t \in Threads, NEW k \in Keys, alloc(t, k) PROVE CountInv'
  <2>1. made' = made  BY <1>3 DEF alloc
  <2>2. QED  BY <1>1, <1>3, <2>1, TakeCounts DEF alloc
<1>4. ASSUME NEW t \in Threads, alloc_raw(t) \/ Retry(t) PROVE CountInv'
  BY <1>1, <1>4, MadeCounts DEF alloc_raw, Retry
<1>5. QED  BY <1>2, <1>3, <1>4, RecycleCounts, DrainCounts, MadeCounts DEF Next

LEMMA CountHolds == Spec => []CountInv
BY InitCounts, NextCounts, InvHolds, PTL DEF Spec

\* What the pool says it holds is the sum of what its buffers hold, and within the
\* limit, whatever threads take, recycle and drain at once (BufferPool::bytes).
THEOREM PoolCounts == Spec => []CountIsExact
<1>1. CountInv => CountIsExact  BY DEF CountInv, CountIsExact
<1>2. QED  BY <1>1, CountHolds, PTL

\* Every reachable state of the pool is well typed, and its count is never below zero.
THEOREM PoolTyped == Spec => []TypeOK
<1>1. PoolInv /\ CountInv => TypeOK  BY Counted DEF PoolInv, Types, TypeOK
<1>2. QED  BY <1>1, InvHolds, CountHolds, PTL

=============================================================================
