----------------------------- MODULE DataKinds -----------------------------
(***************************************************************************)
(* Element kinds, the bytes of a buffer and of a range of its elements     *)
(* (src/backend/dtype.rs, src/safe/mod.rs).  Lengths and offsets are       *)
(* elements.  Int4 is packed 8 to a host word, so a tensor of it has a     *)
(* length that is a multiple of 8.  Sums and products are those of 64-bit  *)
(* integers: they wrap at Word.                                            *)
(***************************************************************************)
EXTENDS Rules

CONSTANT Word    \* 2^64

ASSUME WordAssumption == Word \in Nat /\ Word > 64

DataKind == {"F32", "F16", "Bf16", "Int8", "Int4"}

\* The three constants of each kind's marker: HostRepr's bytes among them.
DataType ==
    [F32  |-> [bits |-> 32, per_word |-> 1, word_bytes |-> 4],
     F16  |-> [bits |-> 16, per_word |-> 1, word_bytes |-> 2],
     Bf16 |-> [bits |-> 16, per_word |-> 1, word_bytes |-> 2],
     Int8 |-> [bits |-> 8,  per_word |-> 1, word_bytes |-> 1],
     Int4 |-> [bits |-> 4,  per_word |-> 8, word_bytes |-> 4]]

COPY_ALIGN == 4

Wrap(n) == IF n < Word THEN n ELSE n % Word
UpTo(n, m) == IF n % m = 0 THEN n ELSE (n - (n % m)) + m

bits_per_elem(kind) == DataType[kind].bits
elems_per_host_word(kind) == DataType[kind].per_word
bytes_for(kind, len) == (Wrap(len * bits_per_elem(kind)) + 7) \div 8

whole_words(kind, len) == Wrap(UpTo(len, elems_per_host_word(kind)))
buffer_bytes(kind, len) == UpTo(bytes_for(kind, len), COPY_ALIGN)

\* HostData::len of what from_bytes makes of some bytes: the last word is filled
\* with zeros.
from_bytes_len(kind, bytes) ==
    ((bytes + DataType[kind].word_bytes - 1) \div DataType[kind].word_bytes)
      * elems_per_host_word(kind)

OnWord(kind, element) == Wrap(element * bits_per_elem(kind)) % (COPY_ALIGN * 8) = 0

\* byte_range returns a range, and not OutOfRange or Misaligned.
byte_range(kind, tensor_len, offset, len, write) ==
    /\ offset + len <= tensor_len
    /\ OnWord(kind, offset)
    /\ write /\ offset + len # tensor_len => OnWord(kind, offset + len)

\* Its start, what is moved, and what the caller wants.
ByteRange(kind, offset, len) ==
    [start |-> Wrap(offset * bits_per_elem(kind)) \div 8,
     bytes |-> UpTo(bytes_for(kind, len), COPY_ALIGN),
     exact |-> bytes_for(kind, len)]

\* copy_ranges: reading src and writing dst, both of the same kind.
copy_ranges(kind, src_len, src_offset, dst_kind, dst_len, dst_offset, len) ==
    /\ dst_kind = kind
    /\ byte_range(kind, src_len, src_offset, len, FALSE)
    /\ byte_range(dst_kind, dst_len, dst_offset, len, TRUE)

\* Tensor::upload_at and upload reach the backend.
upload_at(kind, tensor_len, offset, data_kind, data_len) ==
    /\ same_kind(kind, data_kind)
    /\ byte_range(kind, tensor_len, offset, data_len, TRUE)

upload(kind, tensor_len, data_kind, data_len) ==
    /\ same_len(tensor_len, data_len)
    /\ upload_at(kind, tensor_len, 0, data_kind, data_len)

\* The length of what download_range returns.
download_range(kind, len) == from_bytes_len(kind, bytes_for(kind, len))

\* A tensor made from another one's download: tensor_from's alloc, then upload.
copy_to(kind, len) ==
    LET data_len == download_range(kind, len)
    IN  upload(kind, whole_words(kind, data_len), kind, data_len)

-----------------------------------------------------------------------------

\* The length is one a tensor has, and its bits do not wrap.
Sized(kind, len) ==
    /\ len \in Nat
    /\ len % elems_per_host_word(kind) = 0
    /\ len * bits_per_elem(kind) < Word

\* What a range moves is inside the buffer, on words (byte_range, the contract of
\* upload_raw, download_raw and copy_raw).
RangeInside(kind, tensor_len, offset, len) ==
    LET range == ByteRange(kind, offset, len) IN
    /\ range.start % COPY_ALIGN = 0
    /\ range.bytes % COPY_ALIGN = 0
    /\ range.exact <= range.bytes
    /\ range.start + range.bytes <= buffer_bytes(kind, tensor_len)

\* What a write moves holds no element but its own: it starts where its first one
\* does, and where it is rounded up there is only padding.
WritesOwn(kind, tensor_len, offset, len) ==
    LET range == ByteRange(kind, offset, len) IN
    /\ range.start * 8 = offset * bits_per_elem(kind)
    /\ \/ (range.start + range.bytes) * 8 = (offset + len) * bits_per_elem(kind)
       \/ offset + len = tensor_len

=============================================================================
