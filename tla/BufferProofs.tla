---------------------------- MODULE BufferProofs ----------------------------
(***************************************************************************)
(* Theorems about Buffer, for any bytes and any sizes: the indices stay in *)
(* order, and the buffer is a queue of bytes.                              *)
(***************************************************************************)
EXTENDS Buffer, SequenceTheorems, TLAPS

Blocks(n) == [0 .. n - 1 -> Bytes]

\* What Slice returns.
LEMMA SliceFacts ==
  ASSUME NEW n \in Nat, NEW d \in Blocks(n), NEW from \in Nat, NEW to \in Nat,
         from <= to, to <= n
  PROVE  Slice(d, from, to) \in Seq(Bytes)
<1>1. Slice(d, from, to) \in [1 .. to - from -> Bytes]
  BY DEF Slice, Blocks
<1>2. to - from \in Nat
  OBVIOUS
<1> QED
  BY <1>1, <1>2, SeqDef

\* The three ways of make_room: the string is appended to what is readable,
\* and the indices stay in order.
LEMMA AppendStep ==
  ASSUME TypeOK, NEW block0 \in Blocks(total_size), NEW end \in Nat,
         readIndex <= end, end <= total_size, NEW s \in Seq(Bytes),
         Append0(block0, end, s)
  PROVE  /\ total_size' \in Nat /\ data' \in Blocks(total_size')
         /\ readIndex' \in Nat /\ writeIndex' \in Nat
         /\ IndicesAreOrdered'
         /\ Readable' = Slice(block0, readIndex, end) \o s
<1>0. Len(s) \in Nat
  BY LenProperties
<1>1. CASE EnoughRoom(block0, end, s)
  <2>1. data' \in Blocks(total_size)
    BY <1>0, <1>1, SMTT(60) DEF EnoughRoom, TypeOK, Blocks, Copy
  <2>2. Readable' = Slice(block0, readIndex, end) \o s
    BY <1>0, <1>1, SMTT(60) DEF EnoughRoom, TypeOK, Blocks, Copy, Slice, Readable
  <2> QED
    BY <1>0, <1>1, <2>1, <2>2 DEF EnoughRoom, TypeOK, IndicesAreOrdered
<1>2. CASE MoveToFront(block0, end, s)
  <2>1. data' \in Blocks(total_size)
    BY <1>0, <1>2, SMTT(60) DEF MoveToFront, TypeOK, Blocks, Copy, Slice
  <2>2. Readable' = Slice(block0, readIndex, end) \o s
    BY <1>0, <1>2, SMTT(60) DEF MoveToFront, TypeOK, Blocks, Copy, Slice, Readable
  <2> QED
    BY <1>0, <1>2, <2>1, <2>2 DEF MoveToFront, TypeOK, IndicesAreOrdered
<1>3. CASE Grow(block0, end, s)
  <2>1. data' \in Blocks(total_size')
    BY <1>0, <1>3, SMTT(60) DEF Grow, TypeOK, Blocks, Copy, Slice
  <2>2. Readable' = Slice(block0, readIndex, end) \o s
    BY <1>0, <1>3, SMTT(60) DEF Grow, TypeOK, Blocks, Copy, Slice, Readable
  <2> QED
    BY <1>0, <1>3, <2>1, <2>2 DEF Grow, TypeOK, IndicesAreOrdered
<1> QED
  BY <1>1, <1>2, <1>3 DEF Append0

\* What an operation that writes the bytes s does to the buffer.
Writes(s) ==
  /\ total_size' \in Nat /\ data' \in Blocks(total_size')
  /\ readIndex' \in Nat /\ writeIndex' \in Nat
  /\ IndicesAreOrdered'
  /\ Readable' = Readable \o s

LEMMA StringsAreSequences ==
  ASSUME NEW n \in Nat, NEW s \in Strings(n)
  PROVE  s \in Seq(Bytes)
<1>1. PICK k \in 0 .. n : s \in [1 .. k -> Bytes]
  BY DEF Strings
<1> QED
  BY <1>1, SeqDef

LEMMA AppendWrites ==
  ASSUME Inv, NEW s \in Seq(Bytes), buffer_append(s)
  PROVE  Writes(s)
<1>1. data \in Blocks(total_size)
  BY DEF Inv, TypeOK, Blocks
<1>2. Append0(data, writeIndex, s)
  BY DEF buffer_append
<1>3. TypeOK /\ writeIndex \in Nat /\ readIndex <= writeIndex /\ writeIndex <= total_size
  BY DEF Inv, TypeOK, IndicesAreOrdered
<1> QED
  BY <1>1, <1>2, <1>3, AppendStep DEF Writes, Readable

LEMMA StringSplits ==
  ASSUME NEW s \in Seq(Bytes), NEW k \in Nat, k <= Len(s)
  PROVE  /\ SubSeq(s, 1, k) \in Seq(Bytes) /\ Len(SubSeq(s, 1, k)) = k
         /\ SubSeq(s, k + 1, Len(s)) \in Seq(Bytes)
         /\ SubSeq(s, 1, k) \o SubSeq(s, k + 1, Len(s)) = s
<1>0. Len(s) \in Nat
  BY LenProperties
<1>1. SubSeq(s, 1, k) \in Seq(Bytes) /\ Len(SubSeq(s, 1, k)) = k
  BY <1>0, SubSeqProperties
<1>2. SubSeq(s, k + 1, Len(s)) \in Seq(Bytes)
  BY <1>0, SubSeqProperties
<1>3. SubSeq(s, 1, k) \o SubSeq(s, k + 1, Len(s)) = SubSeq(s, 1, Len(s))
  <2>1. /\ 1 \in 1 .. Len(s) + 1 /\ k \in 1 - 1 .. Len(s)
        /\ Len(s) \in k .. Len(s)
    BY <1>0
  <2> QED
    BY <1>0, <2>1, ConcatAdjacentSubSeq
<1>4. SubSeq(s, 1, Len(s)) = s
  BY SubSeqFull
<1> QED
  BY <1>1, <1>2, <1>3, <1>4

\* The first part fills the block, the rest is appended.
LEMMA FillAndAppend ==
  ASSUME Inv, NEW first \in Seq(Bytes), NEW rest \in Seq(Bytes),
         Len(first) = total_size - writeIndex,
         Append0(Copy(data, writeIndex, first), total_size, rest)
  PROVE  Writes(first \o rest)
<1> DEFINE full == Copy(data, writeIndex, first)
<1>1. /\ data \in Blocks(total_size) /\ TypeOK
      /\ readIndex \in Nat /\ writeIndex \in Nat /\ total_size \in Nat
      /\ readIndex <= writeIndex /\ writeIndex <= total_size
      /\ readIndex <= total_size /\ total_size <= total_size
      /\ writeIndex + Len(first) = total_size /\ writeIndex + Len(first) <= total_size
  BY DEF Inv, TypeOK, Blocks, IndicesAreOrdered
<1>2. /\ full \in Blocks(total_size)
      /\ Slice(full, readIndex, writeIndex + Len(first)) = Readable \o first
  <2>0. Len(first) \in Nat
    BY LenProperties
  <2>1. full \in Blocks(total_size)
    BY <1>1, <2>0, SMTT(60) DEF Copy, Blocks
  <2>2. Slice(full, readIndex, writeIndex + Len(first)) = Readable \o first
    BY <1>1, <2>0, SMTT(60) DEF Readable, Slice, Copy, Blocks
  <2> QED
    BY <2>1, <2>2
<1>3. Append0(full, total_size, rest)
  OBVIOUS
<1> HIDE DEF full
<1>4. /\ total_size' \in Nat /\ data' \in Blocks(total_size')
      /\ readIndex' \in Nat /\ writeIndex' \in Nat
      /\ IndicesAreOrdered'
      /\ Readable' = Slice(full, readIndex, total_size) \o rest
  <2> DEFINE end == total_size
  <2>1. end \in Nat /\ readIndex <= end /\ end <= total_size
    BY <1>1
  <2>2. full \in Blocks(total_size) /\ Append0(full, end, rest)
    BY <1>2, <1>3
  <2> HIDE DEF end
  <2>3. /\ total_size' \in Nat /\ data' \in Blocks(total_size')
        /\ readIndex' \in Nat /\ writeIndex' \in Nat
        /\ IndicesAreOrdered'
        /\ Readable' = Slice(full, readIndex, end) \o rest
    BY <1>1, <2>1, <2>2, AppendStep
  <2> QED
    BY <2>3 DEF end
<1>5. Readable \in Seq(Bytes)
  BY <1>1, SliceFacts DEF Readable
<1>6. (Readable \o first) \o rest = Readable \o (first \o rest)
  BY <1>5, ConcatAssociative
<1> QED
  BY <1>1, <1>2, <1>4, <1>6 DEF Writes

LEMMA SocketReadWrites ==
  ASSUME Inv, NEW s \in Seq(Bytes), buffer_socket_read(s)
  PROVE  Writes(s)
<1> DEFINE room == total_size - writeIndex
           first == SubSeq(s, 1, room)
           rest == SubSeq(s, room + 1, Len(s))
<1>0. /\ data \in Blocks(total_size) /\ TypeOK
      /\ readIndex \in Nat /\ writeIndex \in Nat /\ total_size \in Nat
      /\ readIndex <= writeIndex /\ writeIndex <= total_size
      /\ room \in Nat /\ Len(s) \in Nat
  BY LenProperties DEF Inv, TypeOK, Blocks, IndicesAreOrdered
<1>1. CASE Len(s) <= room
  <2>1. EnoughRoom(data, writeIndex, s)
    BY <1>1 DEF buffer_socket_read, buffer_writeable_size
  <2>2. Append0(data, writeIndex, s)
    BY <2>1 DEF Append0
  <2> HIDE DEF room
  <2> QED
    BY <1>0, <2>2, AppendStep DEF Writes, Readable
<1>2. CASE ~(Len(s) <= room)
  <2>1. Append0(Copy(data, writeIndex, first), total_size, rest)
    BY <1>2 DEF buffer_socket_read, buffer_writeable_size
  <2>2. room = total_size - writeIndex /\ room <= Len(s)
    BY <1>0, <1>2
  <2> HIDE DEF room
  <2>3. /\ first \in Seq(Bytes) /\ Len(first) = room
        /\ rest \in Seq(Bytes) /\ first \o rest = s
    BY <1>0, <2>2, StringSplits
  <2> HIDE DEF first, rest
  <2> QED
    BY <2>1, <2>2, <2>3, FillAndAppend
<1> QED
  BY <1>1, <1>2

LEMMA AppendCharWrites ==
  ASSUME Inv, NEW c \in Bytes, buffer_append_char(c)
  PROVE  Writes(<<c>>)
<1> USE DEF Inv, TypeOK, IndicesAreOrdered, buffer_append_char, buffer_writeable_size
<1>1. data' \in Blocks(total_size)
  BY DEF Blocks
<1>2. Readable' = Readable \o <<c>>
  BY SMTT(60) DEF Readable, Slice
<1> QED
  BY <1>1, <1>2 DEF Writes

\* What is read is the front of what was readable.
LEMMA ReadTakes ==
  ASSUME Inv, NEW n \in 1 .. buffer_readable_size, Read(n)
  PROVE  /\ readIndex' \in Nat /\ IndicesAreOrdered'
         /\ call'.bytes \in Seq(Bytes)
         /\ Readable = call'.bytes \o Readable'
<1> DEFINE taken == Slice(data, readIndex, readIndex + n)
<1>0. /\ data \in Blocks(total_size) /\ n \in Nat
      /\ readIndex \in Nat /\ writeIndex \in Nat /\ total_size \in Nat
      /\ readIndex + n <= writeIndex /\ writeIndex <= total_size
  BY DEF Inv, TypeOK, Blocks, IndicesAreOrdered, buffer_readable_size
<1>1. /\ readIndex' = readIndex + n /\ writeIndex' = writeIndex
      /\ data' = data /\ total_size' = total_size
  BY DEF Read, block
<1>2. call'.bytes = taken
  BY DEF Read, Called
<1>3. taken \in Seq(Bytes)
  <2>1. readIndex + n \in Nat /\ readIndex <= readIndex + n /\ readIndex + n <= total_size
    BY <1>0
  <2> QED
    BY <1>0, <2>1, SliceFacts
<1>4. Readable = taken \o Readable'
  BY <1>0, <1>1, SMTT(60) DEF Readable, Slice, Blocks
<1> QED
  BY <1>0, <1>1, <1>2, <1>3, <1>4 DEF IndicesAreOrdered

-----------------------------------------------------------------------------
LEMMA InitOK == Init => Inv /\ Queue!Init
<1> SUFFICES ASSUME Init PROVE Inv /\ Queue!Init
  OBVIOUS
<1>1. Inv
  <2>1. call \in [op : {"new", "put", "get"}, bytes : Seq(Bytes)]
    BY EmptySeq DEF Init
  <2> QED
    BY <2>1, BufferAssumption DEF Init, Inv, TypeOK, IndicesAreOrdered
<1>2. Readable = << >>
  BY DEF Init, Readable, Slice
<1> QED
  BY <1>1, <1>2 DEF Init, Queue!Init

\* A call that writes keeps the invariant and is a Put of the queue.
LEMMA WriteStep ==
  ASSUME Inv, NEW s \in Seq(Bytes), Writes(s), Called("put", s)
  PROVE  Inv' /\ Queue!Next
<1>1. call' \in [op : {"new", "put", "get"}, bytes : Seq(Bytes)]
  BY DEF Called
<1>2. Inv'
  BY <1>1 DEF Writes, Called, Blocks, Inv, TypeOK
<1>3. Queue!Put
  BY DEF Writes, Called, Queue!Put
<1> QED
  BY <1>2, <1>3 DEF Called, Queue!Next

\* Every step keeps the invariant and is a step of the queue or a stutter.
LEMMA StepOK == Inv /\ [Next]_vars => Inv' /\ [Queue!Next]_Queue!vars
<1> SUFFICES ASSUME Inv, [Next]_vars PROVE Inv' /\ [Queue!Next]_Queue!vars
  OBVIOUS
<1>1. ASSUME NEW s \in Strings(MaxSize), buffer_append(s)
      PROVE  Inv' /\ Queue!Next
  <2>1. s \in Seq(Bytes)
    BY BufferAssumption, StringsAreSequences
  <2>2. Called("put", s)
    BY <1>1 DEF buffer_append
  <2> QED
    BY <1>1, <2>1, <2>2, AppendWrites, WriteStep
<1>2. ASSUME NEW s \in Strings(MaxSize), buffer_socket_read(s)
      PROVE  Inv' /\ Queue!Next
  <2>1. s \in Seq(Bytes)
    BY BufferAssumption, StringsAreSequences
  <2>2. Called("put", s)
    BY <1>2 DEF buffer_socket_read
  <2> QED
    BY <1>2, <2>1, <2>2, SocketReadWrites, WriteStep
<1>3. ASSUME NEW c \in Bytes, buffer_append_char(c)
      PROVE  Inv' /\ Queue!Next
  <2>1. Called("put", <<c>>)
    BY <1>3 DEF buffer_append_char
  <2>2. <<c>> \in Seq(Bytes)
    OBVIOUS
  <2> QED
    BY <1>3, <2>1, <2>2, AppendCharWrites, WriteStep
<1>4. ASSUME NEW c \in Bytes, AppendCharOverflows(c)
      PROVE  Inv' /\ Queue!Next
  <2>1. Inv' /\ Readable' = Readable
    BY <1>4 DEF AppendCharOverflows, block, indices, Inv, TypeOK, IndicesAreOrdered,
                Readable, Slice
  <2> QED
    BY <1>4, <2>1 DEF AppendCharOverflows, Queue!Next
<1>5. ASSUME NEW n \in 1 .. buffer_readable_size, Read(n)
      PROVE  Inv' /\ Queue!Next
  <2>1. /\ readIndex' \in Nat /\ IndicesAreOrdered'
        /\ call'.bytes \in Seq(Bytes)
        /\ Readable = call'.bytes \o Readable'
    BY <1>5, ReadTakes
  <2>2. call' \in [op : {"new", "put", "get"}, bytes : Seq(Bytes)]
    BY <1>5, <2>1 DEF Read, Called
  <2>3. Inv'
    BY <1>5, <2>1, <2>2 DEF Read, Called, block, Inv, TypeOK
  <2>4. Queue!Get
    BY <1>5, <2>1 DEF Read, Called, Queue!Get
  <2> QED
    BY <1>5, <2>3, <2>4 DEF Read, Called, Queue!Next
<1>6. CASE UNCHANGED vars
  <2>1. UNCHANGED <<data, total_size, readIndex, writeIndex, call, failure>>
    BY <1>6 DEF vars, block, indices
  <2> QED
    BY <2>1 DEF Inv, TypeOK, IndicesAreOrdered, Queue!vars, Readable, Slice
<1> QED
  BY <1>1, <1>2, <1>3, <1>4, <1>5, <1>6 DEF Next

-----------------------------------------------------------------------------
\* The buffer has its type, and what is readable lies inside the block, after
\* any sequence of writes, reads, moves to the front and growths.
THEOREM Invariance == Spec => []Inv
<1> QED
  BY InitOK, StepOK, PTL DEF Spec

THEOREM IndicesStayOrdered == Spec => []IndicesAreOrdered
<1>1. Inv => IndicesAreOrdered
  BY DEF Inv
<1> QED
  BY <1>1, Invariance, PTL

\* Bytes come out once each, unchanged and in order: the buffer implements
\* ByteQueue.
THEOREM IsByteQueue == Spec => ImplementsByteQueue
<1> QED
  BY InitOK, StepOK, PTL DEF Spec, ImplementsByteQueue, Queue!Spec
=============================================================================
