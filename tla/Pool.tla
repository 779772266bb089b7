-------------------------------- MODULE Pool --------------------------------
(***************************************************************************)
(* Threads that allocate and drop tensors of one device: the BufferPool of *)
(* src/backend/pool.rs, under its mutex, and the steps of                  *)
(* ComputeDevice::alloc and Tensor::drop around it (src/safe/mod.rs),      *)
(* between which other threads run.  A key is a kind and a length.         *)
(***************************************************************************)
EXTENDS DataKinds, Sequences, FiniteSets, FiniteSetsExt

CONSTANTS
  Threads,
  Asks,            \* the kinds and lengths callers ask for
  Size,            \* [Keys -> Nat]: size_bytes of a buffer made for a key
  Buffers,         \* names of raw buffers; bound on those alive at once
  Capacity,        \* bytes of device memory
  max_free_bytes,
  None

KeyOf(ask) == <<ask[1], whole_words(ask[1], ask[2])>>
Keys == {KeyOf(ask) : ask \in Asks}

ASSUME AsksAssumption ==
    /\ Asks \subseteq DataKind \X Nat
    /\ \A k \in Keys : Sized(k[1], k[2])
ASSUME SizeAssumption ==
    /\ Size \in [Keys -> Nat]
    /\ \A k \in Keys : Size[k] >= buffer_bytes(k[1], k[2])
ASSUME BytesAssumption == Capacity \in Nat /\ max_free_bytes \in Nat
ASSUME NoneAssumption == None \notin Keys

VARIABLES
  made,     \* the key each raw buffer was made for, or None
  tensor,   \* the kind and length of the tensor that holds it, or None
  blocks,   \* the pool's free buffers of each key
  bytes,    \* what the pool says they hold
  freeing,  \* buffers a thread got from the pool to free
  step,     \* where a thread is in alloc
  wants     \* the key it allocates

pool == <<blocks, bytes>>
vars == <<made, tensor, pool, freeing, step, wants>>

InPool(k) == {blocks[k][j] : j \in DOMAIN blocks[k]}
Pooled == UNION {InPool(k) : k \in Keys}
Held == {b \in Buffers : tensor[b] # None}
SizeOf(b) == Size[made[b]]
Bytes(bufs) == MapThenSumSet(SizeOf, bufs)
Used == Bytes({b \in Buffers : made[b] # None})

Init ==
    /\ made = [b \in Buffers |-> None]
    /\ tensor = [b \in Buffers |-> None]
    /\ blocks = [k \in Keys |-> <<>>]
    /\ bytes = 0
    /\ freeing = [t \in Threads |-> {}]
    /\ step = [t \in Threads |-> "idle"]
    /\ wants = [t \in Threads |-> None]

Idle(t) == step[t] = "idle" /\ freeing[t] = {}

Popped(k) == SubSeq(blocks[k], 1, Len(blocks[k]) - 1)

\* Mutant: take leaves the count alone.
take_Uncounted(k, b) ==
    /\ blocks[k] # <<>>
    /\ b = blocks[k][Len(blocks[k])]
    /\ blocks' = [blocks EXCEPT ![k] = Popped(k)]
    /\ UNCHANGED bytes

\* Mutant: any length of the kind will do.
take_ByKind(k, b) ==
    \E got \in Keys :
        /\ got[1] = k[1]
        /\ blocks[got] # <<>>
        /\ b = blocks[got][Len(blocks[got])]
        /\ blocks' = [blocks EXCEPT ![got] = Popped(got)]
        /\ bytes' = bytes - SizeOf(b)

\* BufferPool::take, when a buffer of the key is kept: b, the last one.
take(k, b) ==
    /\ blocks[k] # <<>>
    /\ b = blocks[k][Len(blocks[k])]
    /\ blocks' = [blocks EXCEPT ![k] = Popped(k)]
    /\ bytes' = bytes - SizeOf(b)

\* alloc: the pool's buffer, or on to alloc_raw.
alloc(t, k) ==
    /\ Idle(t)
    /\ \/ \E b \in Buffers :
             /\ take(k, b)
             /\ tensor' = [tensor EXCEPT ![b] = k]
             /\ UNCHANGED <<step, wants>>
       \/ /\ blocks[k] = <<>>
          /\ step' = [step EXCEPT ![t] = "alloc_raw"]
          /\ wants' = [wants EXCEPT ![t] = k]
          /\ UNCHANGED <<tensor, pool>>
    /\ UNCHANGED <<made, freeing>>

Fits(k) == Used + Size[k] <= Capacity

\* A raw buffer is made, and becomes the tensor alloc returns.
Made(t) ==
    /\ \E b \in Buffers :
          /\ made[b] = None
          /\ made' = [made EXCEPT ![b] = wants[t]]
          /\ tensor' = [tensor EXCEPT ![b] = wants[t]]
    /\ step' = [step EXCEPT ![t] = "idle"]
    /\ UNCHANGED <<pool, freeing, wants>>

alloc_raw(t) ==
    /\ step[t] = "alloc_raw"
    /\ \/ Fits(wants[t]) /\ Made(t)
       \/ /\ ~ Fits(wants[t])
          /\ step' = [step EXCEPT ![t] = "drain"]
          /\ UNCHANGED <<made, tensor, pool, freeing, wants>>

\* Mutant: the buffers are handed out, and kept.
drain_Kept(t) ==
    /\ step[t] = "drain"
    /\ bytes' = 0
    /\ freeing' = [freeing EXCEPT ![t] = Pooled]
    /\ step' = [step EXCEPT ![t] = "retry"]
    /\ UNCHANGED <<made, tensor, blocks, wants>>

drain(t) ==
    /\ step[t] = "drain"
    /\ bytes' = 0
    /\ blocks' = [k \in Keys |-> <<>>]
    /\ freeing' = [freeing EXCEPT ![t] = Pooled]
    /\ step' = [step EXCEPT ![t] = "retry"]
    /\ UNCHANGED <<made, tensor, wants>>

\* Outside the mutex, one buffer after the other.
Free(t) ==
    /\ \E b \in freeing[t] :
          /\ made' = [made EXCEPT ![b] = None]
          /\ freeing' = [freeing EXCEPT ![t] = @ \ {b}]
    /\ UNCHANGED <<tensor, pool, step, wants>>

\* The second alloc_raw, after everything drained is freed.
Retry(t) ==
    /\ step[t] = "retry"
    /\ freeing[t] = {}
    /\ \/ Fits(wants[t]) /\ Made(t)
       \/ /\ ~ Fits(wants[t])
          /\ step' = [step EXCEPT ![t] = "idle"]
          /\ UNCHANGED <<made, tensor, pool, freeing, wants>>

\* Mutant: the kept bytes are not counted.
recycle_Uncounted(t, b) ==
    /\ blocks' = [blocks EXCEPT ![tensor[b]] = Append(@, b)]
    /\ UNCHANGED <<bytes, freeing>>

\* BufferPool::recycle, which hands b back when it would go over the limit.
recycle(t, b) ==
    IF bytes + SizeOf(b) > max_free_bytes
    THEN /\ freeing' = [freeing EXCEPT ![t] = {b}]
         /\ UNCHANGED pool
    ELSE /\ bytes' = bytes + SizeOf(b)
         /\ blocks' = [blocks EXCEPT ![tensor[b]] = Append(@, b)]
         /\ UNCHANGED freeing

\* Tensor::drop, on any thread.
DropTensor(t, b) ==
    /\ Idle(t)
    /\ tensor[b] # None
    /\ tensor' = [tensor EXCEPT ![b] = None]
    /\ recycle(t, b)
    /\ UNCHANGED <<made, step, wants>>

Next ==
    \E t \in Threads :
        \/ \E k \in Keys : alloc(t, k)
        \/ \E b \in Buffers : DropTensor(t, b)
        \/ alloc_raw(t)
        \/ drain(t)
        \/ Retry(t)
        \/ Free(t)

Spec == Init /\ [][Next]_vars

-----------------------------------------------------------------------------

TypeOK ==
    /\ made \in [Buffers -> Keys \cup {None}]
    /\ tensor \in [Buffers -> Keys \cup {None}]
    /\ blocks \in [Keys -> Seq(Buffers)]
    /\ bytes \in Nat
    /\ freeing \in [Threads -> SUBSET Buffers]
    /\ step \in [Threads -> {"idle", "alloc_raw", "drain", "retry"}]
    /\ wants \in [Threads -> Keys \cup {None}]

\* Every buffer alive has one owner: a tensor, the pool, once and under the key it
\* was made for, or a thread that is about to free it; so none leaks, none is freed
\* under a tensor, and none is handed out twice, whatever threads drain at once.
OneHome ==
    /\ \A k \in Keys : \A i, j \in DOMAIN blocks[k] :
          made[blocks[k][i]] = k /\ (blocks[k][i] = blocks[k][j] => i = j)
    /\ Held \cap Pooled = {}
    /\ \A t \in Threads :
          /\ freeing[t] \cap (Held \cup Pooled) = {}
          /\ \A u \in Threads : t # u => freeing[t] \cap freeing[u] = {}
    /\ {b \in Buffers : made[b] # None} = Held \cup Pooled \cup UNION {freeing[t] : t \in Threads}

\* The pool's count is what its buffers hold, and within the limit the caller set
\* (DeviceConfig::pool_bytes, src/safe/mod.rs:22).
CountIsExact == bytes = Bytes(Pooled) /\ bytes <= max_free_bytes

\* Every range of a tensor's elements that byte_range accepts is inside the raw buffer
\* the tensor holds, whoever made that buffer: the SAFETY comments of upload_at and
\* download_range (src/safe/mod.rs:273-275, 289-290).
RangesFit ==
    \A b \in Held :
        LET kind == tensor[b][1]
            len == tensor[b][2]
        IN  \A offset, n \in 0..len, write \in BOOLEAN :
                byte_range(kind, len, offset, n, write) =>
                    /\ WritesOwn(kind, len, offset, n) \/ ~ write
                    /\ ByteRange(kind, offset, n).start + ByteRange(kind, offset, n).bytes <= SizeOf(b)

=============================================================================
