------------------------------- MODULE Buffer -------------------------------
(***************************************************************************)
(* The byte buffer between a socket and its user (utils/buffer.c): a block *)
(* of memory with a read and a write index.  Room is made by moving what   *)
(* is readable to the front, or by growing the block; the bytes behind the *)
(* write index are whatever was there before.                              *)
(*                                                                         *)
(* A connection's input buffer is filled by buffer_socket_read, its output *)
(* buffer by the append functions.  One thread uses a buffer, so an        *)
(* operation is one step.  Memory allocation does not fail.                *)
(***************************************************************************)
EXTENDS Integers, Sequences

CONSTANTS
  Bytes,        \* the bytes told apart
  NUL,          \* one of them
  InitSize,     \* INIT_BUFFER_SIZE
  MaxSize       \* bound on total_size

ASSUME BufferAssumption ==
  /\ NUL \in Bytes
  /\ InitSize \in Nat \ {0}
  /\ MaxSize \in Nat

VARIABLES
  data,       \* the total_size bytes of the block
  total_size,
  readIndex,
  writeIndex,
  call,       \* the last call, and the bytes it passed in or out
  failure     \* whether a byte was written behind the block

indices == <<readIndex, writeIndex>>
block   == <<data, total_size>>
vars    == <<block, indices, call, failure>>

\* buffer_new clears the block.
Init ==
  /\ data = [i \in 0 .. InitSize - 1 |-> NUL]
  /\ total_size = InitSize
  /\ readIndex = 0
  /\ writeIndex = 0
  /\ call = [op |-> "new", bytes |-> << >>]
  /\ failure = "none"

buffer_writeable_size   == total_size - writeIndex
buffer_readable_size    == writeIndex - readIndex
buffer_front_spare_size == readIndex

\* Strings of at most n bytes.
Strings(n) == UNION {[1 .. k -> Bytes] : k \in 0 .. n}

\* memcpy(block + at, s, Len(s)).
Copy(block0, at, s) ==
  [i \in DOMAIN block0 |-> IF at <= i /\ i < at + Len(s) THEN s[i - at + 1] ELSE block0[i]]

\* The bytes of block0 from one index up to another.
Slice(block0, from, to) == [i \in 1 .. to - from |-> block0[from + i - 1]]

Readable == Slice(data, readIndex, writeIndex)

Called(op, s) ==
  /\ failure = "none"
  /\ call' = [op |-> op, bytes |-> s]
  /\ UNCHANGED failure

-----------------------------------------------------------------------------
(***************************************************************************)
(* make_room and memcpy: the bytes new are appended when the block holds   *)
(* block0 up to index end.                                                 *)
(***************************************************************************)
EnoughRoom(block0, end, new) ==
  /\ total_size - end >= Len(new)
  /\ data' = Copy(block0, end, new)
  /\ writeIndex' = end + Len(new)
  /\ UNCHANGED <<total_size, readIndex>>

\* Mutant: the indices are moved, the bytes are not.
MoveIndicesOnly(block0, end, new) ==
  /\ total_size - end < Len(new)
  /\ readIndex + total_size - end >= Len(new)
  /\ data' = Copy(block0, end - readIndex, new)
  /\ readIndex' = 0
  /\ writeIndex' = end - readIndex + Len(new)
  /\ UNCHANGED total_size

\* What is readable is moved to the front, byte by byte from the left.
MoveToFront(block0, end, new) ==
  /\ total_size - end < Len(new)
  /\ readIndex + total_size - end >= Len(new)
  /\ data' = Copy(Copy(block0, 0, Slice(block0, readIndex, end)), end - readIndex, new)
  /\ readIndex' = 0
  /\ writeIndex' = end - readIndex + Len(new)
  /\ UNCHANGED total_size

\* Mutant: the block grows by the bytes that do not fit into it.
GrowByMissing(block0, end, new) ==
  /\ readIndex + total_size - end < Len(new)
  /\ total_size' = end + Len(new) - readIndex
  /\ data' = Copy([i \in 0 .. total_size' - 1 |->
                     IF i < total_size THEN block0[i] ELSE NUL], end, new)
  /\ writeIndex' = end + Len(new)
  /\ UNCHANGED readIndex

\* realloc leaves the new part of the block as it finds it.
Grow(block0, end, new) ==
  /\ readIndex + total_size - end < Len(new)
  /\ total_size + Len(new) <= MaxSize
  /\ total_size' = total_size + Len(new)
  /\ \E found \in [total_size .. total_size' - 1 -> Bytes] :
       data' = Copy([i \in 0 .. total_size' - 1 |->
                       IF i < total_size THEN block0[i] ELSE found[i]], end, new)
  /\ writeIndex' = end + Len(new)
  /\ UNCHANGED readIndex

Append0(block0, end, new) ==
  \/ EnoughRoom(block0, end, new)
  \/ MoveToFront(block0, end, new)
  \/ Grow(block0, end, new)

\* buffer_append, and buffer_append_string of a string without NUL.
buffer_append(s) ==
  /\ Append0(data, writeIndex, s)
  /\ Called("put", s)

\* readv fills the block first, then additional_buffer, which is appended.
\* Nothing changes when it fails or finds the end of the stream.
buffer_socket_read(s) ==
  LET room == buffer_writeable_size
      full == Copy(data, writeIndex, SubSeq(s, 1, room))
  IN
  /\ Len(s) <= room + InitSize
  /\ IF Len(s) <= room
       THEN EnoughRoom(data, writeIndex, s)
       ELSE Append0(full, total_size, SubSeq(s, room + 1, Len(s)))
  /\ Called("put", s)

\* A NUL is not appended; no room is made.
buffer_append_char(c) ==
  /\ c # NUL
  /\ buffer_writeable_size > 0
  /\ data' = [data EXCEPT ![writeIndex] = c]
  /\ writeIndex' = writeIndex + 1
  /\ Called("put", <<c>>)
  /\ UNCHANGED <<total_size, readIndex>>

AppendCharOverflows(c) ==
  /\ failure = "none"
  /\ c # NUL
  /\ buffer_writeable_size = 0
  /\ failure' = "overflow"
  /\ UNCHANGED <<block, indices, call>>

\* buffer_read_char n times, or readIndex += n after a write: the callers in
\* tcp_connection.c and in the echo servers take at most what is readable.
Read(n) ==
  /\ readIndex' = readIndex + n
  /\ Called("get", Slice(data, readIndex, readIndex + n))
  /\ UNCHANGED <<block, writeIndex>>

Next ==
  \/ \E s \in Strings(MaxSize) : buffer_append(s) \/ buffer_socket_read(s)
  \/ \E c \in Bytes : buffer_append_char(c) \/ AppendCharOverflows(c)
  \/ \E n \in 1 .. buffer_readable_size : Read(n)

Spec == Init /\ [][Next]_vars

-----------------------------------------------------------------------------
\* Type invariant.
TypeOK ==
  /\ total_size \in Nat
  /\ data \in [0 .. total_size - 1 -> Bytes]
  /\ readIndex \in Nat
  /\ writeIndex \in Nat
  /\ call \in [op : {"new", "put", "get"}, bytes : Seq(Bytes)]
  /\ failure \in {"none", "overflow"}

\* What is readable lies inside the block.
IndicesAreOrdered == readIndex <= writeIndex /\ writeIndex <= total_size

\* The inductive invariant.
Inv == TypeOK /\ IndicesAreOrdered

\* The buffer implements ByteQueue: what is queued is what is readable.
Queue == INSTANCE ByteQueue WITH
  queue   <- Readable,
  aborted <- failure # "none"

\* Bytes come out once each, unchanged and in order, however the buffer is
\* filled, moved to the front and grown.
ImplementsByteQueue == Queue!Spec
=============================================================================
