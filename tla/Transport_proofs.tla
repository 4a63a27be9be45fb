-------------------------- MODULE Transport_proofs --------------------------
(***************************************************************************)
(* The circle buffer implements BoundedFifo, for every size of the ring    *)
(* and all the blocks and lengths its callers may use.                     *)
(*                                                                         *)
(* Packets come through the driver, the circle buffer and TRKTestForPacket *)
(* whole and in order, and answers go out the same way, for every size of  *)
(* the ring and of the header, every set of packets, and however the host  *)
(* and the driver divide them.  All follow from the inductive invariant of *)
(* TransportInv and from what the ring does.                               *)
(***************************************************************************)
EXTENDS TransportInv, TLAPS, SequenceTheorems

-----------------------------------------------------------------------------
(***************************************************************************)
(* The circle buffer.                                                      *)
(***************************************************************************)

USE DEF Offsets

\* Positions go round the ring without leaving it.
LEMMA RoundInRange ==
  ASSUME NEW p \in Offsets, NEW i \in 0 .. Size
  PROVE  Round(p, i) \in Offsets
  BY SizeAssumption DEF Round

\* Two bytes of the contents are never at the same place.
LEMMA RoundIsInjective ==
  ASSUME NEW p \in Offsets, NEW i \in 0 .. Size - 1, NEW j \in 0 .. Size - 1,
         Round(p, i) = Round(p, j)
  PROVE  i = j
  BY SizeAssumption DEF Round

\* Going round twice is going round by the sum.
LEMMA RoundTwice ==
  ASSUME NEW p \in Offsets, NEW i \in 0 .. Size, NEW j \in 0 .. Size,
         i + j <= Size
  PROVE  Round(Round(p, i), j) = Round(p, i + j)
  BY SizeAssumption DEF Round

\* A write that is not refused puts its bytes behind the contents, round the
\* ring, and leaves every other byte alone.
LEMMA WriteStep ==
  ASSUME RingInv, NEW data \in Seq(Byte), Len(data) <= forWrite,
         CircleBufferWriteBytes(data)
  PROVE  /\ memory' \in [Offsets -> Byte]
         /\ writePos' = Round(writePos, Len(data))
         /\ \A i \in 0 .. Len(data) - 1 :
              memory'[Round(writePos, i)] = data[i + 1]
         /\ \A i \in Len(data) .. Size - 1 :
              memory'[Round(writePos, i)] = memory[Round(writePos, i)]
  <1> DEFINE size == Size - writePos
             n == Len(data)
  <1>1. n \in Nat /\ n <= Size /\ writePos \in Offsets /\ size \in 1 .. Size
        /\ forWrite \in 0 .. Size
    BY SizeAssumption DEF RingInv
  <1>2. \A i \in 1 .. n : data[i] \in Byte
    OBVIOUS
  <1>3. CASE size >= n
    <2>1. memory' = memcpy(writePos, data) /\ writePos' = AtEnd(writePos + n)
      BY <1>1, <1>3 DEF CircleBufferWriteBytes
    <2>2. writePos' = Round(writePos, n)
      BY <1>1, <1>3, <2>1, SizeAssumption DEF AtEnd, Round
    <2>3. memory' \in [Offsets -> Byte]
      BY <1>1, <1>2, <2>1, SizeAssumption DEF memcpy, RingInv
    <2>4. \A i \in 0 .. n - 1 : memory'[Round(writePos, i)] = data[i + 1]
      BY <1>1, <1>3, <2>1, SizeAssumption DEF memcpy, Round
    <2>5. \A i \in n .. Size - 1 :
            memory'[Round(writePos, i)] = memory[Round(writePos, i)]
      BY <1>1, <1>3, <2>1, SizeAssumption DEF memcpy, Round
    <2> QED
      BY <2>2, <2>3, <2>4, <2>5
  <1>4. CASE size < n
    <2>1. /\ memory' = memcpyTwice(writePos, data, size)
          /\ writePos' = AtEnd(n - size)
      BY <1>1, <1>4 DEF CircleBufferWriteBytes
    <2>2. writePos' = Round(writePos, n)
      BY <1>1, <1>4, <2>1, SizeAssumption DEF AtEnd, Round
    <2>3. memory' \in [Offsets -> Byte]
      BY <1>1, <1>2, <1>4, <2>1, SizeAssumption DEF memcpyTwice, RingInv
    <2>4. \A i \in 0 .. n - 1 : memory'[Round(writePos, i)] = data[i + 1]
      <3> SUFFICES ASSUME NEW i \in 0 .. n - 1
                   PROVE  memory'[Round(writePos, i)] = data[i + 1]
        OBVIOUS
      <3>1. CASE i < size
        <4>1. Round(writePos, i) = writePos + i /\ writePos + i \in Offsets
              /\ ~(writePos + i < n - size)
          BY <1>1, <1>4, <3>1, SizeAssumption DEF Round
        <4> QED
          BY <1>1, <2>1, <3>1, <4>1, SizeAssumption DEF memcpyTwice
      <3>2. CASE i >= size
        <4>1. Round(writePos, i) = i - size /\ i - size \in Offsets
              /\ i - size < n - size
          BY <1>1, <1>4, <3>2, SizeAssumption DEF Round
        <4> QED
          BY <1>1, <2>1, <3>2, <4>1, SizeAssumption DEF memcpyTwice
      <3> QED
        BY <1>1, <3>1, <3>2
    <2>5. \A i \in n .. Size - 1 :
            memory'[Round(writePos, i)] = memory[Round(writePos, i)]
      BY <1>1, <1>4, <2>1, SizeAssumption DEF memcpyTwice, Round
    <2> QED
      BY <2>2, <2>3, <2>4, <2>5
  <1> QED
    BY <1>1, <1>3, <1>4

\* A read that is not refused returns the oldest bytes.
LEMMA ReadStep ==
  ASSUME RingInv, NEW n \in Nat, n <= forRead, CircleBufferReadBytes(n)
  PROVE  /\ readPos' = Round(readPos, n)
         /\ answer' = Accepted([i \in 1 .. n |-> memory[Round(readPos, i - 1)]])
  <1> DEFINE size == Size - readPos
             out == [i \in 1 .. n |-> memory[Round(readPos, i - 1)]]
  <1>1. n <= Size /\ readPos \in Offsets /\ size \in 1 .. Size
    BY SizeAssumption DEF RingInv
  <1>2. CASE n < size
    <2>1. readPos' = AtEnd(readPos + n) /\ answer' = Accepted(BytesAt(readPos, n))
      BY <1>1, <1>2 DEF CircleBufferReadBytes, RingInv
    <2>2. BytesAt(readPos, n) = out
      BY <1>1, <1>2, SizeAssumption DEF BytesAt, Round
    <2> QED
      BY <1>1, <1>2, <2>1, <2>2, SizeAssumption DEF AtEnd, Round
  <1>3. CASE n >= size
    <2> DEFINE s == BytesAt(readPos, size)
               t == BytesAt(0, n - size)
    <2>1. readPos' = AtEnd(n - size) /\ answer' = Accepted(s \o t)
      BY <1>1, <1>3 DEF CircleBufferReadBytes, RingInv
    <2>2. /\ s \in Seq(Byte) /\ Len(s) = size
          /\ \A i \in 1 .. size : s[i] = memory[readPos + i - 1]
      BY <1>1, SizeAssumption DEF BytesAt, RingInv
    <2>3. /\ t \in Seq(Byte) /\ Len(t) = n - size
          /\ \A i \in 1 .. n - size : t[i] = memory[i - 1]
      BY <1>1, <1>3, SizeAssumption DEF BytesAt, RingInv
    <2>4. out \in Seq(Byte) /\ Len(out) = n
      <3>1. \A i \in 1 .. n : Round(readPos, i - 1) \in Offsets
        BY <1>1, RoundInRange, SizeAssumption
      <3> QED
        BY <1>1, <3>1 DEF RingInv
    <2> HIDE DEF s, t
    <2>5. s \o t \in Seq(Byte) /\ Len(s \o t) = n
      <3>1. s \o t \in Seq(Byte) /\ Len(s \o t) = Len(s) + Len(t)
        BY <2>2, <2>3
      <3>2. size + (n - size) = n
        BY <1>1, SizeAssumption
      <3> QED
        BY <2>2, <2>3, <3>1, <3>2
    <2>6. \A i \in 1 .. n : (s \o t)[i] = out[i]
      <3> SUFFICES ASSUME NEW i \in 1 .. n PROVE (s \o t)[i] = out[i]
        OBVIOUS
      <3>1. CASE i <= size
        BY <1>1, <2>2, <2>3, <3>1, SizeAssumption DEF Round
      <3>2. CASE ~(i <= size)
        BY <1>1, <1>3, <2>2, <2>3, <3>2, SizeAssumption DEF Round
      <3> QED
        BY <1>1, <3>1, <3>2
    <2>7. s \o t = out
      BY <2>4, <2>5, <2>6, SeqEqual
    <2>8. AtEnd(n - size) = Round(readPos, n)
      BY <1>1, <1>3, SizeAssumption DEF AtEnd, Round
    <2> QED
      BY <2>1, <2>7, <2>8
  <1> QED
    BY <1>1, <1>2, <1>3

\* The counters and the positions always agree.
LEMMA NextKeepsRing == RingInv /\ [CircleBufferNext]_CircleBufferVars => RingInv'
  <1> SUFFICES ASSUME RingInv, [CircleBufferNext]_CircleBufferVars PROVE RingInv'
    OBVIOUS
  <1>1. ASSUME NEW data \in Blocks, CircleBufferWriteBytes(data) PROVE RingInv'
    <2>1. data \in Seq(Byte) /\ Len(data) \in Nat
      BY CallsAssumption
    <2>2. CASE Len(data) > forWrite
      BY <1>1, <2>2 DEF CircleBufferWriteBytes, RingInv
    <2>3. CASE Len(data) <= forWrite
      <3>1. /\ memory' \in [Offsets -> Byte]
            /\ writePos' = Round(writePos, Len(data))
        BY <1>1, <2>1, <2>3, WriteStep
      <3>2. /\ readPos' = readPos /\ forRead' = forRead + Len(data)
            /\ forWrite' = forWrite - Len(data)
        BY <1>1, <2>1, <2>3 DEF CircleBufferWriteBytes, RingInv
      <3>3. writePos' = Round(readPos, forRead + Len(data))
        BY <2>1, <2>3, <3>1, RoundTwice, SizeAssumption DEF RingInv
      <3>4. writePos' \in Offsets
        BY <2>1, <2>3, <3>3, RoundInRange, SizeAssumption DEF RingInv
      <3> QED
        BY <2>1, <2>3, <3>1, <3>2, <3>3, <3>4, SizeAssumption DEF RingInv
    <2> QED
      BY <2>1, <2>2, <2>3, SizeAssumption DEF RingInv
  <1>2. ASSUME NEW n \in Lengths, CircleBufferReadBytes(n) PROVE RingInv'
    <2>1. n \in Nat
      BY CallsAssumption
    <2>2. CASE n > forRead
      BY <1>2, <2>2 DEF CircleBufferReadBytes, RingInv
    <2>3. CASE n <= forRead
      <3>0. n \in 0 .. Size /\ forRead - n \in 0 .. Size /\ readPos \in Offsets
        BY <2>1, <2>3, SizeAssumption DEF RingInv
      <3>1. readPos' = Round(readPos, n)
        BY <1>2, <2>1, <2>3, ReadStep
      <3>2. /\ memory' = memory /\ writePos' = writePos
            /\ forRead' = forRead - n /\ forWrite' = forWrite + n
        BY <1>2, <2>1, <2>3 DEF CircleBufferReadBytes, RingInv
      <3>3. readPos' \in Offsets
        BY <3>0, <3>1, RoundInRange
      <3>4. Round(readPos', forRead - n) = writePos
        <4>1. n + (forRead - n) = forRead /\ forRead <= Size
              /\ writePos = Round(readPos, forRead)
          BY <2>1, SizeAssumption DEF RingInv
        <4> QED
          BY <3>0, <3>1, <4>1, RoundTwice
      <3> QED
        BY <2>1, <2>3, <3>2, <3>3, <3>4, SizeAssumption DEF RingInv
    <2> QED
      BY <2>1, <2>2, <2>3 DEF RingInv
  <1>3. CASE UNCHANGED CircleBufferVars
    BY <1>3 DEF CircleBufferVars, RingInv
  <1> QED
    BY <1>1, <1>2, <1>3 DEF CircleBufferNext

\* In every reachable state of a ring of any size, what is there to be read
\* lies from the read to the write position.
THEOREM RingIsConsistent == CircleBufferSpec => []RingInv
  <1>1. CircleBufferInitialize => RingInv
    BY SizeAssumption DEF CircleBufferInitialize, RingInv, Round
  <1> QED
    BY <1>1, NextKeepsRing, PTL DEF CircleBufferSpec

-----------------------------------------------------------------------------
LEMMA ContentsType ==
  ASSUME RingInv PROVE Contents \in Seq(Byte) /\ Len(Contents) = forRead
  <1>1. forRead \in Nat /\ forRead <= Size /\ readPos \in Offsets
    BY SizeAssumption DEF RingInv
  <1>2. \A i \in 1 .. forRead : Round(readPos, i - 1) \in Offsets
    BY <1>1, RoundInRange, SizeAssumption
  <1> QED
    BY <1>1, <1>2 DEF Contents, RingInv

LEMMA ContentsTypeNext ==
  RingInv' => Contents' \in Seq(Byte) /\ Len(Contents') = forRead'
  <1> DEFINE Typed == Contents \in Seq(Byte) /\ Len(Contents) = forRead
  <1>1. RingInv => Typed
    BY ContentsType
  <1> HIDE DEF Typed
  <1>2. RingInv' => Typed'
    BY <1>1, PTL
  <1> QED
    BY <1>2 DEF Typed

\* A piece of a sequence, element by element.
LEMMA SubSeqIs ==
  ASSUME NEW S, NEW s \in Seq(S),
         NEW m \in 1 .. Len(s) + 1, NEW n \in m - 1 .. Len(s)
  PROVE  SubSeq(s, m, n) = [i \in 1 .. n - m + 1 |-> s[m + i - 1]]
  OBVIOUS

\* A write is a Put.
LEMMA WriteIsPut ==
  ASSUME RingInv, NEW data \in Blocks, CircleBufferWriteBytes(data)
  PROVE  Fifo!Put(data)
  <1>1. data \in Seq(Byte) /\ Len(data) \in Nat
    BY CallsAssumption
  <1>2. Len(Contents) = forRead /\ Contents \in Seq(Byte)
    BY ContentsType
  <1>3. Len(Contents) + Len(data) <= Size <=> Len(data) <= forWrite
    BY <1>1, <1>2, SizeAssumption DEF RingInv
  <1>4. CASE Len(data) > forWrite
    <2>1. Contents' = Contents /\ answer' = Refused
      BY <1>4 DEF CircleBufferWriteBytes, Contents, Round
    <2>2. ~(Len(Contents) + Len(data) <= Size)
      BY <1>1, <1>3, <1>4, SizeAssumption DEF RingInv
    <2> QED
      BY <2>1, <2>2 DEF Fifo!Put, Fifo!Refused, Refused
  <1>5. CASE Len(data) <= forWrite
    <2>1. /\ \A i \in 0 .. Len(data) - 1 :
               memory'[Round(writePos, i)] = data[i + 1]
          /\ \A i \in Len(data) .. Size - 1 :
               memory'[Round(writePos, i)] = memory[Round(writePos, i)]
      BY <1>1, <1>5, WriteStep
    <2>2. /\ readPos' = readPos /\ forRead' = forRead + Len(data)
          /\ answer' = Accepted(<<>>)
      BY <1>1, <1>5 DEF CircleBufferWriteBytes, RingInv
    <2>3. RingInv'
      BY NextKeepsRing DEF CircleBufferNext
    <2>4. Contents' \in Seq(Byte) /\ Len(Contents') = forRead + Len(data)
      BY <2>2, <2>3, ContentsTypeNext
    <2>5. \A i \in 1 .. forRead + Len(data) :
            Contents'[i] = (Contents \o data)[i]
      <3> SUFFICES ASSUME NEW i \in 1 .. forRead + Len(data)
                   PROVE  Contents'[i] = (Contents \o data)[i]
        OBVIOUS
      <3>1. Contents'[i] = memory'[Round(readPos, i - 1)]
        BY <2>2 DEF Contents, Round
      <3>2. CASE i <= forRead
        <4> DEFINE k == i - 1 + (Size - forRead)
        <4>1. Round(writePos, k) = Round(readPos, i - 1)
          BY <1>1, <1>5, <3>2, SizeAssumption DEF RingInv, Round
        <4>2. k \in Len(data) .. Size - 1
          BY <1>1, <1>5, <3>2, SizeAssumption DEF RingInv
        <4>3. Contents'[i] = memory[Round(readPos, i - 1)]
          BY <2>1, <3>1, <4>1, <4>2
        <4>4. Contents[i] = memory[Round(readPos, i - 1)]
          BY <1>1, <3>2, SizeAssumption DEF Contents, RingInv
        <4>5. (Contents \o data)[i] = Contents[i]
          BY <1>1, <1>2, <3>2, SizeAssumption DEF RingInv
        <4> QED
          BY <4>3, <4>4, <4>5
      <3>3. CASE i > forRead
        <4> DEFINE k == i - 1 - forRead
        <4>1. Round(writePos, k) = Round(readPos, i - 1)
          BY <1>1, <1>5, <3>3, SizeAssumption DEF RingInv, Round
        <4>2. k \in 0 .. Len(data) - 1
          BY <1>1, <1>5, <3>3, SizeAssumption DEF RingInv
        <4>3. Contents'[i] = data[k + 1]
          BY <2>1, <3>1, <4>1, <4>2
        <4>4. (Contents \o data)[i] = data[i - forRead]
          BY <1>1, <1>2, <3>3, SizeAssumption DEF RingInv
        <4>5. k + 1 = i - forRead
          BY <1>1, <3>3, SizeAssumption DEF RingInv
        <4> QED
          BY <4>3, <4>4, <4>5
      <3>4. i <= forRead \/ i > forRead
        BY <1>1, SizeAssumption DEF RingInv
      <3> QED
        BY <3>2, <3>3, <3>4
    <2>6. Contents \o data \in Seq(Byte)
          /\ Len(Contents \o data) = forRead + Len(data)
      BY <1>1, <1>2
    <2>7. Contents' = Contents \o data
      BY <2>4, <2>5, <2>6, SeqEqual
    <2> QED
      BY <1>3, <1>5, <2>2, <2>7 DEF Fifo!Put, Fifo!Accepted, Accepted
  <1> QED
    BY <1>1, <1>4, <1>5, SizeAssumption DEF RingInv

\* A read is a Get.
LEMMA ReadIsGet ==
  ASSUME RingInv, NEW n \in Lengths, CircleBufferReadBytes(n)
  PROVE  Fifo!Get(n)
  <1>1. n \in Nat
    BY CallsAssumption
  <1>2. Len(Contents) = forRead /\ Contents \in Seq(Byte)
    BY ContentsType
  <1>3. CASE n > forRead
    <2>1. Contents' = Contents /\ answer' = Refused
      BY <1>3 DEF CircleBufferReadBytes, Contents, Round
    <2> QED
      BY <1>1, <1>2, <1>3, <2>1, SizeAssumption
         DEF Fifo!Get, Fifo!Refused, Refused, RingInv
  <1>4. CASE n <= forRead
    <2>1. /\ readPos' = Round(readPos, n)
          /\ answer' = Accepted([i \in 1 .. n |-> memory[Round(readPos, i - 1)]])
      BY <1>1, <1>4, ReadStep
    <2>2. memory' = memory /\ forRead' = forRead - n
      BY <1>1, <1>4 DEF CircleBufferReadBytes, RingInv
    <2>3. SubSeq(Contents, 1, n) = [i \in 1 .. n |-> memory[Round(readPos, i - 1)]]
      <3>1. SubSeq(Contents, 1, n) = [i \in 1 .. n - 1 + 1 |-> Contents[1 + i - 1]]
        BY <1>1, <1>2, <1>4, SubSeqIs, SizeAssumption DEF RingInv
      <3>2. \A i \in 1 .. n : Contents[1 + i - 1] = memory[Round(readPos, i - 1)]
        BY <1>1, <1>4, SizeAssumption DEF Contents, RingInv
      <3>3. n - 1 + 1 = n
        BY <1>1
      <3> QED
        BY <3>1, <3>2, <3>3
    <2>4. Contents' = SubSeq(Contents, n + 1, Len(Contents))
      <3>1. \A i \in 1 .. forRead - n :
              Round(readPos', i - 1) = Round(readPos, n + i - 1)
        BY <1>1, <1>4, <2>1, SizeAssumption DEF RingInv, Round
      <3>2. Contents' = [i \in 1 .. forRead - n |-> memory[Round(readPos, n + i - 1)]]
        BY <2>2, <3>1 DEF Contents, Round
      <3>3. SubSeq(Contents, n + 1, Len(Contents))
              = [i \in 1 .. forRead - n |-> memory[Round(readPos, n + i - 1)]]
        <4>1. SubSeq(Contents, n + 1, forRead)
                = [i \in 1 .. forRead - (n + 1) + 1 |-> Contents[n + 1 + i - 1]]
          BY <1>1, <1>2, <1>4, SubSeqIs, SizeAssumption DEF RingInv
        <4>2. \A i \in 1 .. forRead - n :
                Contents[n + 1 + i - 1] = memory[Round(readPos, n + i - 1)]
          BY <1>1, <1>4, SizeAssumption DEF Contents, RingInv
        <4>3. forRead - (n + 1) + 1 = forRead - n
          BY <1>1, SizeAssumption DEF RingInv
        <4> QED
          BY <1>2, <4>1, <4>2, <4>3
      <3> QED
        BY <3>2, <3>3
    <2> QED
      BY <1>1, <1>2, <1>4, <2>1, <2>3, <2>4
         DEF Fifo!Get, Fifo!Accepted, Accepted
  <1> QED
    BY <1>1, <1>3, <1>4, SizeAssumption DEF RingInv

\* The circle buffer is a FIFO of Size bytes: bytes come out once, complete
\* and in the order they went in, for blocks and pieces of any length.
THEOREM CircleBufferIsFifo == CircleBufferSpec => FifoSpec
  <1>1. CircleBufferInitialize => Fifo!Init
    BY DEF CircleBufferInitialize, Contents, Fifo!Init, Fifo!Refused,
           Refused
  <1>2. RingInv /\ [CircleBufferNext]_CircleBufferVars => [Fifo!Next]_(Fifo!vars)
    <2> SUFFICES ASSUME RingInv, [CircleBufferNext]_CircleBufferVars PROVE [Fifo!Next]_(Fifo!vars)
      OBVIOUS
    <2>1. CASE CircleBufferNext
      BY <2>1, WriteIsPut, ReadIsGet DEF CircleBufferNext, Fifo!Next
    <2>2. CASE UNCHANGED CircleBufferVars
      BY <2>2 DEF CircleBufferVars, Fifo!vars, Contents, Round
    <2> QED
      BY <2>1, <2>2
  <1> QED
    BY <1>1, <1>2, RingIsConsistent, PTL DEF CircleBufferSpec, FifoSpec, Fifo!Spec

-----------------------------------------------------------------------------
(***************************************************************************)
(* The packets.                                                            *)
(***************************************************************************)

USE DEF Header, Sizes, Offsets

\* What is assumed of the packets.
LEMMA PacketFacts ==
  /\ Header \in Nat \ {0}
  /\ \A p \in Packet : Length[p] \in Nat \ {0} /\ Header <= Length[p]
  /\ \A p \in Packet : p \in Nat \ {0}
  BY TransportAssumption

-----------------------------------------------------------------------------
(***************************************************************************)
(* Pieces of packets.                                                      *)
(***************************************************************************)

\* A piece is a sequence of bytes.
LEMMA PieceIs ==
  ASSUME NEW p \in Packet, NEW a \in Nat, NEW n \in Nat, a + n <= Length[p]
  PROVE  /\ Piece(p, a, n) \in Seq(Byte)
         /\ Len(Piece(p, a, n)) = n
         /\ \A k \in 1 .. n : Piece(p, a, n)[k] = <<p, a + k>>
  <1>1. \A k \in 1 .. n : a + k \in 1 .. Length[p]
    BY PacketFacts
  <1>2. \A k \in 1 .. n : <<p, a + k>> \in Byte
    BY <1>1, BytesAssumption
  <1> QED
    BY <1>2 DEF Piece

\* A piece of a piece.
LEMMA PieceOfPiece ==
  ASSUME NEW p \in Packet, NEW a \in Nat, NEW n \in Nat, a + n <= Length[p],
         NEW i \in 0 .. n, NEW j \in i .. n
  PROVE  SubSeq(Piece(p, a, n), i + 1, j) = Piece(p, a + i, j - i)
  <1> DEFINE s == Piece(p, a, n)
  <1>1. s \in Seq(Byte) /\ Len(s) = n /\ \A k \in 1 .. n : s[k] = <<p, a + k>>
    BY PieceIs
  <1> HIDE DEF s
  <1>2. SubSeq(s, i + 1, j) = [k \in 1 .. j - (i + 1) + 1 |-> s[i + 1 + k - 1]]
    BY <1>1, SubSeqIs
  <1>3. j - (i + 1) + 1 = j - i
    OBVIOUS
  <1>4. \A k \in 1 .. j - i : s[i + 1 + k - 1] = <<p, a + i + k>>
    BY <1>1
  <1>5. SubSeq(s, i + 1, j) = Piece(p, a + i, j - i)
    BY <1>2, <1>3, <1>4 DEF Piece
  <1> QED
    BY <1>5 DEF s

\* Pieces of one packet, one behind the other, are a piece.
LEMMA PiecesJoin ==
  ASSUME NEW p \in Packet, NEW a \in Nat, NEW m \in Nat, NEW n \in Nat,
         a + m + n <= Length[p]
  PROVE  Piece(p, a, m) \o Piece(p, a + m, n) = Piece(p, a, m + n)
  <1> DEFINE s == Piece(p, a, m)
             t == Piece(p, a + m, n)
             u == Piece(p, a, m + n)
  <1>0. /\ Length[p] \in Nat /\ a + m \in Nat /\ m + n \in Nat
        /\ a + m <= Length[p] /\ a + (m + n) <= Length[p]
    BY PacketFacts
  <1>1. s \in Seq(Byte) /\ Len(s) = m /\ \A k \in 1 .. m : s[k] = <<p, a + k>>
    BY <1>0, PieceIs
  <1>2. /\ t \in Seq(Byte) /\ Len(t) = n
        /\ \A k \in 1 .. n : t[k] = <<p, (a + m) + k>>
    BY <1>0, PieceIs
  <1>3. /\ u \in Seq(Byte) /\ Len(u) = m + n
        /\ \A k \in 1 .. m + n : u[k] = <<p, a + k>>
    BY <1>0, PieceIs
  <1> HIDE DEF s, t, u
  <1>4. /\ s \o t \in Seq(Byte) /\ Len(s \o t) = m + n
        /\ \A k \in 1 .. m + n : (s \o t)[k] = IF k <= m THEN s[k] ELSE t[k - m]
    BY <1>1, <1>2, ConcatProperties
  <1>5. \A k \in 1 .. m + n : (s \o t)[k] = u[k]
    <2> SUFFICES ASSUME NEW k \in 1 .. m + n PROVE (s \o t)[k] = u[k]
      OBVIOUS
    <2>1. CASE k <= m
      <3>1. k \in 1 .. m
        BY <2>1
      <3>2. (s \o t)[k] = s[k]
        BY <1>4, <2>1
      <3> QED
        BY <1>1, <1>3, <3>1, <3>2
    <2>2. CASE ~(k <= m)
      <3>1. k - m \in 1 .. n /\ (a + m) + (k - m) = a + k
        BY <2>2
      <3>2. (s \o t)[k] = t[k - m]
        BY <1>4, <2>2
      <3>3. t[k - m] = <<p, (a + m) + (k - m)>>
        BY <1>2, <3>1
      <3> QED
        BY <1>3, <3>1, <3>2, <3>3
    <2> QED
      BY <2>1, <2>2
  <1>6. s \o t = u
    BY <1>3, <1>4, <1>5, SeqEqual
  <1> QED
    BY <1>6 DEF s, t, u

\* The first n bytes of what is behind the first m of h bytes, and the rest.
LEMMA PieceSplits ==
  ASSUME NEW p \in Packet, NEW h \in Nat, h <= Length[p],
         NEW m \in 0 .. h, NEW n \in 0 .. h - m
  PROVE  LET s == Piece(p, m, h - m)
             t == Piece(p, m + n, h - (m + n))
         IN  /\ SubSeq(s, 1, n) = Piece(p, m, n)
             /\ SubSeq(s, n + 1, h - m) = t
             /\ t \in Seq(Byte) /\ Len(t) = h - (m + n)
             /\ Piece(p, 0, m) \o Piece(p, m, n) = Piece(p, 0, m + n)
             /\ Piece(p, 0, m + n) \in Seq(Byte)
  <1>1. /\ Length[p] \in Nat /\ m \in Nat /\ n \in Nat /\ h - m \in Nat
        /\ m + n \in Nat /\ h - (m + n) \in Nat /\ 0 \in Nat
        /\ m + (h - m) <= Length[p] /\ (m + n) + (h - (m + n)) <= Length[p]
        /\ 0 + m + n <= Length[p] /\ 0 + (m + n) <= Length[p]
        /\ 0 \in 0 .. h - m /\ n \in 0 .. h - m /\ h - m \in n .. h - m
    BY PacketFacts
  <1>2. /\ 0 + 1 = 1 /\ m + 0 = m /\ n - 0 = n /\ 0 + m = m
        /\ (h - m) - n = h - (m + n)
    BY <1>1
  <1>3. SubSeq(Piece(p, m, h - m), 0 + 1, n) = Piece(p, m + 0, n - 0)
    BY <1>1, PieceOfPiece
  <1>4. SubSeq(Piece(p, m, h - m), n + 1, h - m) = Piece(p, m + n, (h - m) - n)
    BY <1>1, PieceOfPiece
  <1>5. /\ Piece(p, m + n, h - (m + n)) \in Seq(Byte)
        /\ Len(Piece(p, m + n, h - (m + n))) = h - (m + n)
    BY <1>1, PieceIs
  <1>6. Piece(p, 0, m) \o Piece(p, 0 + m, n) = Piece(p, 0, m + n)
    BY <1>1, PiecesJoin
  <1>7. Piece(p, 0, m + n) \in Seq(Byte)
    BY <1>1, PieceIs
  <1> QED
    BY <1>2, <1>3, <1>4, <1>5, <1>6, <1>7

\* What TRK_AppendBuffer leaves of a message that fits is the message.
LEMMA AppendBufferKeeps ==
  ASSUME NEW S, NEW s \in Seq(S), NEW t \in Seq(S), NEW n \in 0 .. Len(s \o t),
         n <= kMessageBufferSize
  PROVE  /\ TRK_AppendBuffer(s, t) \in Seq(S)
         /\ Len(TRK_AppendBuffer(s, t)) \in n .. Len(s \o t)
         /\ \A k \in 1 .. n : TRK_AppendBuffer(s, t)[k] = (s \o t)[k]
  <1> DEFINE all == s \o t
             m == Min({Len(all), kMessageBufferSize})
  <1>1. all \in Seq(S) /\ Len(all) \in Nat /\ kMessageBufferSize \in Nat
    BY TransportAssumption
  <1> HIDE DEF all
  <1>2. m \in {Len(all), kMessageBufferSize} /\ m <= Len(all)
        /\ m <= kMessageBufferSize
    <2>1. \E x \in {Len(all), kMessageBufferSize} :
            \A y \in {Len(all), kMessageBufferSize} : x <= y
      BY <1>1
    <2> QED
      BY <2>1 DEF Min
  <1> HIDE DEF m
  <1>3. m \in 0 .. Len(all) /\ n <= m
    BY <1>1, <1>2 DEF all
  <1>4. SubSeq(all, 1, m) = [k \in 1 .. m - 1 + 1 |-> all[1 + k - 1]]
    BY <1>1, <1>3, SubSeqIs
  <1>5. \A k \in 1 .. m : all[k] \in S
    BY <1>1, <1>3
  <1>6. /\ SubSeq(all, 1, m) \in Seq(S)
        /\ Len(SubSeq(all, 1, m)) = m
        /\ \A k \in 1 .. m : SubSeq(all, 1, m)[k] = all[k]
    BY <1>3, <1>4, <1>5
  <1>7. TRK_AppendBuffer(s, t) = SubSeq(all, 1, m)
    BY DEF TRK_AppendBuffer, all, m
  <1> QED
    BY <1>3, <1>6, <1>7 DEF all


-----------------------------------------------------------------------------
(***************************************************************************)
(* Blocks of the driver.                                                   *)
(***************************************************************************)

\* What the packets sent are, and where the nub is among them.
LEMMA SentFacts ==
  ASSUME IInv
  PROVE  /\ sent \in Seq(Packet) /\ Len(sent) \in Nat
         /\ \A i \in 1 .. Len(sent) :
              /\ sent[i] \in Packet
              /\ LengthOf(i) = Length[sent[i]]
              /\ LengthOf(i) \in Nat /\ Header <= LengthOf(i)
         /\ LengthOf(0) = 0
         /\ \A i \in 0 .. Len(sent) : LengthOf(i) \in Nat
         /\ Len(received) \in Nat
         /\ Current \in 0 .. Len(sent)
         /\ Reading => Current = Len(received) + 1
         /\ ~Reading => Current = Len(received)
  <1>1. sent \in Seq(Packet) /\ Len(sent) \in Nat
    BY DEF IInv, SentInv
  <1>2. \A i \in 1 .. Len(sent) :
          /\ sent[i] \in Packet
          /\ LengthOf(i) = Length[sent[i]]
          /\ LengthOf(i) \in Nat /\ Header <= LengthOf(i)
    BY <1>1, PacketFacts DEF LengthOf
  <1>3. LengthOf(0) = 0
    BY DEF LengthOf
  <1>4. Len(received) \in Nat
    BY DEF IInv, ReceivedInv
  <1>5. Current \in 0 .. Len(sent)
    BY <1>1, <1>4 DEF IInv, ReadInv, Current
  <1> QED
    BY <1>1, <1>2, <1>3, <1>4, <1>5 DEF Current

\* A block in the driver is a piece of a packet that was sent.
LEMMA BlockIs ==
  ASSUME IInv, NEW j \in 1 .. Len(driver)
  PROVE  LET b == driver[j]
         IN  /\ b \in Seq(Byte) /\ Len(b) \in 1 .. Size
             /\ \E i \in 1 .. Len(sent), a \in Nat :
                  /\ b = Piece(sent[i], a, Len(b))
                  /\ a + Len(b) <= LengthOf(i)
                  /\ b[1] = <<sent[i], a + 1>>
                  /\ LastOf(b) = <<sent[i], a + Len(b)>>
                  /\ a = 0 => Len(b) >= Header
  <1> DEFINE b == driver[j]
  <1>1. b \in Seq(Byte)
    BY DEF IInv, DriverInv
  <1>2. IsBlock(b)
    BY DEF IInv, DriverInv
  <1> HIDE DEF b
  <1>3. Len(b) \in 1 .. Size /\ Len(b) \in Nat \ {0}
    BY <1>2, SizeAssumption DEF IsBlock
  <1>4. PICK i \in 1 .. Len(sent) : b[1][1] = sent[i]
    BY <1>2 DEF IsBlock
  <1> DEFINE a == b[1][2] - 1
  <1>5. a \in Nat /\ a + Len(b) <= LengthOf(i) /\ (a = 0 => Len(b) >= Header)
    <2>1. LengthOf(i) = Length[b[1][1]] /\ LengthOf(i) \in Nat
      BY <1>4, SentFacts
    <2>2. /\ b[1][2] \in Nat \ {0}
          /\ b[1][2] + Len(b) - 1 <= LengthOf(i)
          /\ b[1][2] = 1 => Len(b) >= Header
      BY <1>2, <2>1 DEF IsBlock
    <2> QED
      BY <1>3, <2>1, <2>2
  <1>6. b = Piece(sent[i], a, Len(b))
    BY <1>2, <1>4 DEF IsBlock
  <1> HIDE DEF a
  <1>7. \A k \in 1 .. Len(b) : b[k] = <<sent[i], a + k>>
    BY <1>6 DEF Piece
  <1>8. b[1] = <<sent[i], a + 1>> /\ LastOf(b) = <<sent[i], a + Len(b)>>
    BY <1>3, <1>7 DEF LastOf
  <1> QED
    BY <1>1, <1>3, <1>5, <1>6, <1>8 DEF b

\* Head and Tail of the driver.
LEMMA DriverFacts ==
  ASSUME IInv
  PROVE  /\ driver \in Seq(Seq(Byte)) /\ Len(driver) \in Nat
         /\ driver # <<>> =>
              /\ 1 \in 1 .. Len(driver) /\ Head(driver) = driver[1]
              /\ Tail(driver) \in Seq(Seq(Byte))
              /\ Len(Tail(driver)) = Len(driver) - 1
              /\ \A j \in 1 .. Len(driver) - 1 :
                   Tail(driver)[j] = driver[j + 1]
  <1>1. driver \in Seq(Seq(Byte))
    BY DEF IInv, DriverInv
  <1> QED
    BY <1>1

\* What DBRead leaves is among the blocks that the circle buffer is given.
LEMMA DBReadIsBlock ==
  ASSUME IInv, driver # <<>>, NEW n \in Nat
  PROVE  DBRead(n, Len(Head(driver))) \in Blocks
  <1> DEFINE b == Head(driver)
             m == Len(b)
             l == IF n < m THEN n ELSE m
  <1>1. b = driver[1] /\ 1 \in 1 .. Len(driver)
    BY DriverFacts
  <1>2. PICK i \in 1 .. Len(sent), a \in Nat :
          b = Piece(sent[i], a, m) /\ a + m <= LengthOf(i)
    BY <1>1, BlockIs
  <1>3. m \in 1 .. Size
    BY <1>1, BlockIs
  <1>4. sent[i] \in Packet /\ LengthOf(i) = Length[sent[i]]
        /\ LengthOf(i) \in Nat
    BY SentFacts
  <1> HIDE DEF b
  <1>5. \A k \in 1 .. m : b[k] = <<sent[i], a + k>>
    BY <1>2 DEF Piece
  <1> HIDE DEF m
  <1>6. m \in Sizes /\ m \in Nat
    BY <1>3, SizeAssumption
  <1>7. l \in 0 .. Length[sent[i]] - a /\ a \in 0 .. Length[sent[i]]
    BY <1>2, <1>4, <1>6
  <1>8. [k \in 1 .. m |-> IF k <= l THEN <<sent[i], a + k>> ELSE Stale]
          \in Blocks
    BY <1>4, <1>6, <1>7, BytesAssumption
  <1>9. DBRead(n, m)
          = [k \in 1 .. m |-> IF k <= l THEN <<sent[i], a + k>> ELSE Stale]
    <2>1. \A k \in 1 .. m : k <= l <=> k <= n
      BY <1>6
    <2>2. DBRead(n, m) = [k \in 1 .. m |-> IF k <= n THEN b[k] ELSE Stale]
      BY DEF DBRead, b
    <2> QED
      BY <1>5, <2>1, <2>2
  <1> QED
    BY <1>8, <1>9 DEF m, b

\* A fetch is a Put of the circle buffer.
LEMMA FetchIsPut ==
  ASSUME IInv, NEW n \in Nat, Fetch(n)
  PROVE  /\ RingInv'
         /\ DBRead(n, Len(Head(driver))) \in Blocks
         /\ Fifo!Put(DBRead(n, Len(Head(driver))))
  <1>1. /\ DBRead(n, Len(Head(driver))) \in Blocks
        /\ CircleBufferWriteBytes(DBRead(n, Len(Head(driver))))
    BY DBReadIsBlock DEF Fetch
  <1>2. RingInv
    BY DEF IInv
  <1> QED
    BY <1>1, <1>2, WriteIsPut, NextKeepsRing DEF CircleBufferNext

\* A fetch of a whole block for which there is room puts it into the ring.
LEMMA FetchOfRoom ==
  ASSUME IInv, NEW n \in Nat, Fetch(n), Len(Head(driver)) <= n,
         forRead + Len(Head(driver)) <= Size
  PROVE  /\ Contents' = Contents \o Head(driver)
         /\ forRead' = forRead + Len(Head(driver))
  <1> DEFINE b == Head(driver)
  <1>1. driver # <<>> /\ b = driver[1] /\ 1 \in 1 .. Len(driver)
    BY DriverFacts DEF Fetch
  <1>2. b \in Seq(Byte) /\ Len(b) \in Nat
    BY <1>1, BlockIs
  <1> HIDE DEF b
  <1>3. DBRead(n, Len(b)) = b
    <2>1. \A i \in 1 .. Len(b) : i <= n
      BY <1>2 DEF b
    <2>2. DBRead(n, Len(b)) = [i \in 1 .. Len(b) |-> b[i]]
      BY <2>1 DEF DBRead, b
    <2> QED
      BY <1>2, <2>2
  <1>4. CircleBufferWriteBytes(b) /\ Fifo!Put(b)
    BY <1>3, FetchIsPut DEF Fetch, b
  <1>5. Len(Contents) = forRead /\ forRead \in Nat
        /\ forWrite = Size - forRead
    BY ContentsType, SizeAssumption DEF IInv, RingInv
  <1>6. Len(b) <= forWrite /\ ~(Len(b) > forWrite)
    BY <1>2, <1>5, SizeAssumption DEF b
  <1>7. forRead' = forRead + Len(b)
    BY <1>4, <1>6 DEF CircleBufferWriteBytes
  <1>8. Contents' = Contents \o b
    BY <1>4, <1>5, <1>6 DEF Fifo!Put, b
  <1> QED
    BY <1>7, <1>8 DEF b

\* The blocks behind the oldest one are in order, too, and go on where it ends.
LEMMA RestOfDriver ==
  ASSUME IInv, driver # <<>>, driver' = Tail(driver), UNCHANGED <<sent, unsent>>,
         NEW c \in 1 .. Len(sent), NEW a \in Nat,
         Head(driver) = Piece(sent[c], a, Len(Head(driver))),
         a + Len(Head(driver)) <= LengthOf(c)
  PROVE  LET e == a + Len(Head(driver))
         IN  /\ driver' = <<>> =>
                  c = Len(sent) /\ e = LengthOf(c) - Len(unsent)
             /\ driver' # <<>> => Follows(c, e, driver'[1][1])
  <1> DEFINE b == Head(driver)
             e == a + Len(b)
  <1>1. /\ b = driver[1] /\ 1 \in 1 .. Len(driver)
        /\ Len(driver') = Len(driver) - 1 /\ Len(driver) \in Nat
        /\ driver' \in Seq(Seq(Byte))
        /\ \A j \in 1 .. Len(driver) - 1 : driver'[j] = driver[j + 1]
    BY DriverFacts
  <1>2. Len(b) \in Nat \ {0}
    <2>1. Len(b) \in 1 .. Size
      BY <1>1, BlockIs
    <2> QED
      BY <2>1, SizeAssumption
  <1> HIDE DEF b
  <1>3. \A k \in 1 .. Len(b) : b[k] = <<sent[c], a + k>>
    BY DEF b, Piece
  <1>4. b[1][1] = sent[c] /\ LastOf(b) = <<sent[c], e>>
    BY <1>2, <1>3 DEF LastOf
  <1>5. \A i \in 1 .. Len(sent) : sent[i] = sent[c] => i = c
    BY DEF IInv, SentInv
  <1>6. ASSUME driver' = <<>>
        PROVE  c = Len(sent) /\ e = LengthOf(c) - Len(unsent)
    <2>a. Len(<<>>) = 0
      OBVIOUS
    <2>0. Len(driver') = 0
      BY <1>6, <2>a
    <2>1. Len(driver) = 1
      BY <1>1, <2>0
    <2>2. LastOf(b) = EndOfDriver
      BY <1>1, <2>1 DEF IInv, DriverInv
    <2>3. sent[Len(sent)] = sent[c]
      BY <1>4, <2>2 DEF EndOfDriver
    <2>4. Len(sent) \in 1 .. Len(sent)
      BY SentFacts
    <2> QED
      BY <1>4, <1>5, <2>2, <2>3, <2>4 DEF EndOfDriver
  <1>7. ASSUME driver' # <<>>
        PROVE  Follows(c, e, driver'[1][1])
    <2>1. Len(driver') \in Nat \ {0}
      BY <1>1, <1>7, EmptySeq
    <2>2. 1 \in 1 .. Len(driver) - 1 /\ driver'[1] = driver[2]
      BY <1>1, <2>1
    <2>3. PICK i \in 1 .. Len(sent) :
            /\ driver[1][1][1] = sent[i]
            /\ Follows(i, LastOf(driver[1])[2], driver[2][1])
      <3>1. \E i \in 1 .. Len(sent) :
              /\ driver[1][1][1] = sent[i]
              /\ Follows(i, LastOf(driver[1])[2], driver[1 + 1][1])
        BY <2>2 DEF IInv, DriverInv
      <3> QED
        BY <3>1
    <2>4. i = c
      BY <1>1, <1>4, <1>5, <2>3
    <2> QED
      BY <1>1, <1>4, <2>2, <2>3, <2>4
  <1> QED
    BY <1>6, <1>7 DEF b

\* The driver invariant outlives the oldest block.
LEMMA TailKeepsDriver ==
  ASSUME IInv, driver # <<>>, driver' = Tail(driver), UNCHANGED <<sent, unsent>>
  PROVE  DriverInv'
  <1>1. /\ Len(driver') = Len(driver) - 1 /\ Len(driver) \in Nat
        /\ driver' \in Seq(Seq(Byte))
        /\ \A j \in 1 .. Len(driver) - 1 : driver'[j] = driver[j + 1]
    BY DriverFacts
  <1>2. \A j \in 1 .. Len(driver') : IsBlock(driver'[j])
    BY <1>1 DEF IInv, DriverInv
  <1>3. \A j \in 1 .. Len(driver') - 1 :
          \E i \in 1 .. Len(sent) :
            /\ driver'[j][1][1] = sent[i]
            /\ Follows(i, LastOf(driver'[j])[2], driver'[j + 1][1])
    <2> SUFFICES ASSUME NEW j \in 1 .. Len(driver') - 1
                 PROVE  \E i \in 1 .. Len(sent) :
                          /\ driver'[j][1][1] = sent[i]
                          /\ Follows(i, LastOf(driver'[j])[2], driver'[j + 1][1])
      OBVIOUS
    <2>1. /\ driver'[j] = driver[j + 1] /\ driver'[j + 1] = driver[(j + 1) + 1]
          /\ j + 1 \in 1 .. Len(driver) - 1
      BY <1>1
    <2> QED
      BY <2>1 DEF IInv, DriverInv
  <1>4. driver' # <<>> => LastOf(driver'[Len(driver')]) = EndOfDriver
    BY <1>1 DEF IInv, DriverInv
  <1> QED
    BY <1>1, <1>2, <1>3, <1>4
       DEF DriverInv, IsBlock, EndOfDriver, Follows, LengthOf, LastOf

\* The oldest block goes on where the nub is: in the packet that it reads, or
\* at the start of the next one.
LEMMA NextBlock ==
  ASSUME IInv, ~NoRoom, driver # <<>>
  PROVE  LET b == Head(driver)
         IN  /\ b \in Seq(Byte) /\ Len(b) \in 1 .. Size
             /\ \/ /\ Fetched < LengthOf(Current)
                   /\ Current \in 1 .. Len(sent)
                   /\ Fetched \in Nat
                   /\ b = Piece(sent[Current], Fetched, Len(b))
                   /\ Fetched + Len(b) <= LengthOf(Current)
                \/ /\ Fetched = LengthOf(Current)
                   /\ Current + 1 \in 1 .. Len(sent)
                   /\ b = Piece(sent[Current + 1], 0, Len(b))
                   /\ Header <= Len(b) /\ Len(b) <= LengthOf(Current + 1)
  <1> DEFINE b == Head(driver)
  <1>1. b = driver[1] /\ 1 \in 1 .. Len(driver)
    BY DriverFacts
  <1>2. PICK i \in 1 .. Len(sent), a \in Nat :
          /\ b = Piece(sent[i], a, Len(b))
          /\ a + Len(b) <= LengthOf(i)
          /\ b[1] = <<sent[i], a + 1>>
          /\ a = 0 => Len(b) >= Header
    BY <1>1, BlockIs
  <1>3. b \in Seq(Byte) /\ Len(b) \in 1 .. Size
    BY <1>1, BlockIs
  <1>4. Follows(Current, Fetched, b[1])
    BY <1>1 DEF IInv, PlaceInv
  <1> HIDE DEF b
  <1>5. \A j \in 1 .. Len(sent) : sent[j] = sent[i] => j = i
    BY DEF IInv, SentInv
  <1>6. /\ Current \in 0 .. Len(sent) /\ Len(sent) \in Nat
        /\ LengthOf(0) = 0 /\ LengthOf(Current) \in Nat
    BY SentFacts
  <1>7. Fetched \in Nat
    BY <1>6, PacketFacts, SizeAssumption DEF Fetched, IInv, RingInv
  <1>8. CASE Fetched < LengthOf(Current) /\ b[1] = <<sent[Current], Fetched + 1>>
    <2>1. Current \in 1 .. Len(sent)
      BY <1>6, <1>7, <1>8
    <2>2. sent[Current] = sent[i] /\ Fetched + 1 = a + 1
      BY <1>2, <1>8
    <2>3. Current = i /\ Fetched = a
      BY <1>5, <1>7, <2>1, <2>2
    <2> QED
      BY <1>2, <1>3, <1>7, <1>8, <2>1, <2>3 DEF b
  <1>9. CASE /\ Fetched = LengthOf(Current) /\ Current < Len(sent)
             /\ b[1] = <<sent[Current + 1], 1>>
    <2>1. Current + 1 \in 1 .. Len(sent)
      BY <1>6, <1>9
    <2>2. sent[Current + 1] = sent[i] /\ a + 1 = 1
      BY <1>2, <1>9
    <2>3. Current + 1 = i /\ a = 0
      BY <1>5, <2>1, <2>2
    <2>4. Len(b) \in Nat
      BY <1>3
    <2> QED
      BY <1>2, <1>3, <1>9, <2>1, <2>3, <2>4 DEF b
  <1> QED
    BY <1>4, <1>8, <1>9 DEF Follows

-----------------------------------------------------------------------------
(***************************************************************************)
(* Each action keeps the invariant.                                        *)
(***************************************************************************)

LEMMA InitHolds == Init => IInv
  <1> SUFFICES ASSUME Init PROVE IInv
    OBVIOUS
  <1>0. Len(<<>>) = 0
    OBVIOUS
  <1>1. RingInv
    BY SizeAssumption DEF Init, CircleBufferInitialize, RingInv, Round
  <1>2. SentInv /\ UnsentInv
    BY <1>0 DEF Init, SentInv, UnsentInv
  <1>3. DriverInv
    BY <1>0 DEF Init, DriverInv
  <1>4. /\ Current = 0 /\ Len(sent) = 0 /\ LengthOf(0) = 0 /\ ~Reading
        /\ Len(unsent) = 0
    BY <1>0 DEF Init, Current, Reading, LengthOf
  <1>5. PlaceInv
    BY <1>4 DEF Init, PlaceInv, Fetched
  <1>6. ReadInv
    BY <1>4 DEF Init, ReadInv, CircleBufferInitialize
  <1>7. ReceivedInv /\ AnswerInv
    BY <1>0 DEF Init, ReceivedInv, AnswerInv
  <1> QED
    BY <1>1, <1>2, <1>3, <1>5, <1>6, <1>7 DEF IInv

\* An answer is what it was while neither it nor the packets change.
LEMMA AnswersKept ==
  ASSUME AnswerInv, UNCHANGED <<arrived, received, sent>>,
         pc \notin {"received", "write"}, pc' \notin {"received", "write"}
  PROVE  AnswerInv'
  BY DEF AnswerInv

LEMMA Keeps_gdev_cc_peek == ASSUME IInv, gdev_cc_peek PROVE IInv'
  <1> DEFINE b == Head(driver)
             c == Current + 1
  <1>1. /\ pc = "idle" /\ pc' = "header" /\ Fetch(Len(b))
        /\ driver # <<>> /\ driver' = Tail(driver)
        /\ UNCHANGED <<unsent, msg, unwritten, sent, received, arrived>>
    BY DEF gdev_cc_peek, Fetch
  <1>2. ~Reading /\ ~NoRoom /\ Fetched = LengthOf(Current) /\ forRead = 0
    BY <1>1 DEF Reading, NoRoom, Fetched, IInv, ReadInv
  <1>3. /\ b \in Seq(Byte) /\ Len(b) \in 1 .. Size
        /\ c \in 1 .. Len(sent)
        /\ b = Piece(sent[c], 0, Len(b))
        /\ Header <= Len(b) /\ Len(b) <= LengthOf(c)
    BY <1>1, <1>2, NextBlock, SentFacts
  <1>4. Len(b) \in Nat /\ Current \in Nat /\ LengthOf(c) \in Nat
    BY <1>3, SentFacts
  <1> HIDE DEF b
  <1>5. Contents' = Contents \o b /\ forRead' = Len(b)
    <2>1. Len(b) <= Len(b) /\ forRead + Len(b) <= Size /\ 0 + Len(b) = Len(b)
      BY <1>2, <1>3, <1>4, SizeAssumption
    <2> QED
      BY <1>1, <1>2, <1>4, <2>1, FetchOfRoom DEF b
  <1>6. Contents' = Piece(sent[c], 0, forRead')
    <2>1. Contents \in Seq(Byte) /\ Len(Contents) = 0
      BY <1>2, ContentsType DEF IInv
    <2>2. Contents = <<>>
      BY <2>1, EmptySeq
    <2> QED
      BY <1>3, <1>5, <2>2, ConcatEmptySeq
  <1>7. /\ Current' = c /\ Fetched' = Len(b) /\ Reading' /\ ~NoRoom'
        /\ LengthOf(Current)' = LengthOf(c)
    BY <1>1, <1>2, <1>5 DEF Current, Fetched, Reading, NoRoom, LengthOf
  <1>8. RingInv'
    BY <1>1, <1>4, FetchIsPut
  <1>9. SentInv' /\ UnsentInv' /\ ReceivedInv'
    BY <1>1 DEF IInv, SentInv, UnsentInv, ReceivedInv, LengthOf
  <1>10. DriverInv'
    BY <1>1, TailKeepsDriver
  <1>11. PlaceInv'
    <2>1. /\ driver' = <<>> =>
               c = Len(sent) /\ 0 + Len(b) = LengthOf(c) - Len(unsent)
          /\ driver' # <<>> => Follows(c, 0 + Len(b), driver'[1][1])
      BY <1>1, <1>3, <1>4, RestOfDriver DEF b
    <2>2. 0 + Len(b) = Len(b)
      BY <1>4
    <2> QED
      BY <1>1, <1>3, <1>7, <2>1, <2>2 DEF PlaceInv, Follows, LengthOf
  <1>12. ReadInv'
    <2>1. Header <= forRead'
      BY <1>3, <1>5
    <2>2. Contents' = Piece(sent'[Current'], 0, forRead')
      BY <1>1, <1>6, <1>7
    <2>3. Current' <= Len(sent')
      BY <1>1, <1>3, <1>7
    <2> QED
      BY <1>1, <1>7, <2>1, <2>2, <2>3 DEF ReadInv
  <1>13. AnswerInv'
    BY <1>1, AnswersKept DEF IInv
  <1> QED
    BY <1>8, <1>9, <1>10, <1>11, <1>12, <1>13 DEF IInv

\* What the nub waits for while it reads a packet.
LEMMA WantedIs ==
  ASSUME IInv, Reading
  PROVE  /\ Current \in 1 .. Len(sent)
         /\ pc = "header" => Wanted = Header
         /\ pc = "body" => Wanted = LengthOf(Current) - Header
         /\ Wanted \in Nat
         /\ NoRoom => Wanted > Size
  <1>1. Current \in 1 .. Len(sent) /\ sent[Current] \in Packet
        /\ LengthOf(Current) = Length[sent[Current]]
        /\ LengthOf(Current) \in Nat /\ Header <= LengthOf(Current)
    BY SentFacts
  <1>2. pc = "header" => Wanted = Header
    BY DEF Wanted
  <1>3. ASSUME pc = "body" PROVE Wanted = LengthOf(Current) - Header
    <2>1. msg = Piece(sent[Current], 0, Header)
      BY <1>3 DEF IInv, ReadInv
    <2>2. msg[1] = <<sent[Current], 0 + 1>>
      BY <2>1, PacketFacts DEF Piece
    <2> QED
      BY <1>1, <1>3, <2>2 DEF Wanted
  <1> QED
    BY <1>1, <1>2, <1>3, PacketFacts DEF Reading, NoRoom

\* What is taken is the oldest part of the ring.
LEMMA TakeIs ==
  ASSUME IInv, Reading, Take
  PROVE  /\ RingInv'
         /\ Wanted \in Lengths /\ Fifo!Get(Wanted)
         /\ answer'.data = SubSeq(Contents, 1, Wanted)
         /\ Contents' = SubSeq(Contents, Wanted + 1, forRead)
         /\ forRead' = forRead - Wanted
         /\ Wanted <= forRead /\ forRead \in 0 .. Size /\ ~NoRoom
  <1>1. Wanted \in Nat /\ Wanted <= forRead /\ CircleBufferReadBytes(Wanted)
    BY WantedIs DEF Take
  <1>2. forRead \in 0 .. Size /\ RingInv
    BY DEF IInv, RingInv
  <1>3. Wanted \in Lengths
    BY <1>1, <1>2, BytesAssumption, SizeAssumption
  <1>4. RingInv' /\ Fifo!Get(Wanted)
    BY <1>1, <1>2, <1>3, ReadIsGet, NextKeepsRing DEF CircleBufferNext
  <1>5. Len(Contents) = forRead
    BY <1>2, ContentsType
  <1>6. /\ answer'.data = SubSeq(Contents, 1, Wanted)
        /\ Contents' = SubSeq(Contents, Wanted + 1, forRead)
    BY <1>1, <1>4, <1>5 DEF Fifo!Get, Fifo!Accepted
  <1>7. forRead' = forRead - Wanted
    BY <1>1, <1>2, SizeAssumption DEF CircleBufferReadBytes
  <1>8. ~NoRoom
    BY <1>1, <1>2, WantedIs, SizeAssumption
  <1> QED
    BY <1>1, <1>2, <1>3, <1>4, <1>6, <1>7, <1>8

LEMMA Keeps_gdev_cc_read_Fetch == ASSUME IInv, gdev_cc_read_Fetch PROVE IInv'
  <1> DEFINE b == Head(driver)
             c == Current
  <1>1. /\ Reading /\ pc' = pc /\ Fetch(Wanted) /\ forRead < Wanted
        /\ driver # <<>> /\ driver' = Tail(driver)
        /\ UNCHANGED <<unsent, pc, msg, unwritten, sent, received, arrived>>
    BY DEF gdev_cc_read_Fetch, Fetch, Reading
  <1>2. Wanted \in Nat /\ forRead \in 0 .. Size
    BY <1>1, WantedIs DEF IInv, RingInv
  <1>3. pc = "body" /\ Wanted = LengthOf(c) - Header
    <2>1. pc # "header"
      BY <1>1, <1>2, WantedIs, PacketFacts, SizeAssumption DEF IInv, ReadInv
    <2> QED
      BY <1>1, <2>1, WantedIs DEF Reading
  <1>4. RingInv'
    BY <1>1, <1>2, FetchIsPut
  <1>5. SentInv' /\ UnsentInv' /\ ReceivedInv'
    BY <1>1 DEF IInv, SentInv, UnsentInv, ReceivedInv, LengthOf
  <1>6. DriverInv'
    BY <1>1, TailKeepsDriver
  <1>7. AnswerInv'
    BY <1>1, <1>3, AnswersKept DEF IInv
  <1>8. /\ Current' = c /\ LengthOf(Current)' = LengthOf(c) /\ NoRoom' = NoRoom
        /\ Fetched' = Header + forRead' /\ Reading'
    BY <1>1, <1>3 DEF Current, LengthOf, NoRoom, Fetched, Reading
  <1>9. CASE NoRoom
    <2>1. PlaceInv'
      BY <1>8, <1>9 DEF PlaceInv
    <2>2. ReadInv'
      BY <1>1, <1>3, <1>8, <1>9 DEF IInv, ReadInv
    <2> QED
      BY <1>4, <1>5, <1>6, <1>7, <2>1, <2>2 DEF IInv
  <1>10. CASE ~NoRoom
    <2>1. Fetched = Header + forRead /\ c \in 1 .. Len(sent)
          /\ LengthOf(c) \in Nat /\ LengthOf(c) - Header <= Size
          /\ sent[c] \in Packet /\ LengthOf(c) = Length[sent[c]]
      <3>1. c \in 1 .. Len(sent)
        BY <1>1, WantedIs
      <3> QED
        BY <1>1, <1>2, <1>3, <1>10, <3>1, SentFacts, PacketFacts, SizeAssumption
           DEF Fetched, NoRoom
    <2>2. Fetched < LengthOf(c) /\ Fetched \in Nat
      BY <1>1, <1>2, <1>3, <2>1, PacketFacts, SizeAssumption
    <2>3. /\ b \in Seq(Byte) /\ Len(b) \in 1 .. Size
          /\ b = Piece(sent[c], Fetched, Len(b))
          /\ Fetched + Len(b) <= LengthOf(c)
      BY <1>1, <1>10, <2>2, NextBlock
    <2>4. Len(b) \in Nat
      BY <2>3
    <2> HIDE DEF b
    <2>5. Len(b) <= Wanted /\ forRead + Len(b) <= Size
      BY <1>2, <1>3, <2>1, <2>3, <2>4, PacketFacts, SizeAssumption
    <2>6. Contents' = Contents \o b /\ forRead' = forRead + Len(b)
      BY <1>1, <1>2, <2>5, FetchOfRoom DEF b
    <2>7. Contents = Piece(sent[c], Header, forRead)
      BY <1>3, <1>10 DEF IInv, ReadInv
    <2>8. Contents' = Piece(sent[c], Header, forRead')
      <3>1. Header \in Nat /\ forRead \in Nat
            /\ Header + forRead + Len(b) <= Length[sent[c]]
        BY <1>2, <2>1, <2>3, PacketFacts, SizeAssumption
      <3>2. Piece(sent[c], Header, forRead)
              \o Piece(sent[c], Header + forRead, Len(b))
              = Piece(sent[c], Header, forRead + Len(b))
        BY <2>1, <2>4, <3>1, PiecesJoin
      <3> QED
        BY <2>1, <2>3, <2>6, <2>7, <3>2
    <2>9. PlaceInv'
      <3>1. /\ driver' = <<>> =>
                 c = Len(sent) /\ Fetched + Len(b) = LengthOf(c) - Len(unsent)
            /\ driver' # <<>> => Follows(c, Fetched + Len(b), driver'[1][1])
        BY <1>1, <2>1, <2>2, <2>3, RestOfDriver DEF b
      <3>2. Fetched' = Fetched + Len(b)
        BY <1>2, <1>8, <2>1, <2>4, <2>6, PacketFacts, SizeAssumption
      <3> QED
        BY <1>1, <1>8, <2>3, <3>1, <3>2 DEF PlaceInv, Follows, LengthOf
    <2>10. ReadInv'
      BY <1>1, <1>3, <1>8, <2>8 DEF IInv, ReadInv
    <2> QED
      BY <1>4, <1>5, <1>6, <1>7, <2>9, <2>10 DEF IInv
  <1> QED
    BY <1>9, <1>10

\* A sequence that begins like another one has it as a prefix.
LEMMA PrefixIs ==
  ASSUME NEW S, NEW s \in Seq(S), NEW t \in Seq(S), Len(s) <= Len(t),
         \A k \in 1 .. Len(s) : s[k] = t[k]
  PROVE  IsPrefix(s, t)
  <1>1. Len(s) \in Nat /\ Len(t) \in Nat
    OBVIOUS
  <1>2. SubSeq(s, 1, Len(s)) = [k \in 1 .. Len(s) - 1 + 1 |-> s[1 + k - 1]]
    BY <1>1, SubSeqIs
  <1>3. SubSeq(t, 1, Len(s)) = [k \in 1 .. Len(s) - 1 + 1 |-> t[1 + k - 1]]
    BY <1>1, SubSeqIs
  <1>4. \A k \in 1 .. Len(s) - 1 + 1 : s[1 + k - 1] = t[1 + k - 1]
    BY <1>1
  <1> QED
    BY <1>1, <1>2, <1>3, <1>4 DEF IsPrefix

\* A packet that was read whole is returned.
LEMMA ReturnKeeps ==
  ASSUME IInv, Reading, ~NoRoom, Fetched = LengthOf(Current),
         RingInv', forRead' = 0, Return,
         msg' \in Seq(Byte), LengthOf(Current) <= Len(msg'),
         \A k \in 1 .. LengthOf(Current) : msg'[k] = <<sent[Current], k>>,
         UNCHANGED <<driver, unsent, unwritten, sent, arrived>>
  PROVE  IInv'
  <1> DEFINE c == Current
  <1>1. pc' = "received" /\ received' = Append(received, msg')
    BY DEF Return
  <1>2. received \in Seq(Seq(Byte)) /\ Len(received) \in Nat
    BY DEF IInv, ReceivedInv
  <1>3. /\ received' \in Seq(Seq(Byte)) /\ Len(received') = Len(received) + 1
        /\ received'[Len(received) + 1] = msg'
        /\ \A i \in 1 .. Len(received) : received'[i] = received[i]
    BY <1>1, <1>2
  <1>4. c = Len(received) + 1 /\ c \in 1 .. Len(sent)
    BY WantedIs, SentFacts
  <1>5. /\ sent[c] \in Packet /\ LengthOf(c) = Length[sent[c]]
        /\ LengthOf(c) \in Nat \ {0}
    BY <1>4, SentFacts, PacketFacts
  <1>6. ~Reading' /\ ~NoRoom' /\ Current' = c
        /\ LengthOf(Current)' = LengthOf(c)
    BY <1>1, <1>3, <1>4 DEF Reading, NoRoom, Current, LengthOf
  <1>7. SentInv' /\ UnsentInv'
    BY DEF IInv, SentInv, UnsentInv, LengthOf
  <1>8. DriverInv'
    BY DEF IInv, DriverInv, IsBlock, Follows, LastOf, EndOfDriver, LengthOf
  <1>9. PlaceInv'
    <2>1. Fetched' = LengthOf(c)
      BY <1>6 DEF Fetched
    <2> QED
      BY <1>6, <2>1 DEF IInv, PlaceInv, Follows, LengthOf
  <1>10. ReadInv'
    BY <1>1, <1>4, <1>6 DEF IInv, ReadInv, Reading
  <1>11. ReceivedInv'
    <2>1. IsPrefix(Bytes(sent[c]), msg')
      <3>1. Bytes(sent[c]) \in Seq(Byte) /\ Len(Bytes(sent[c])) = LengthOf(c)
            /\ \A k \in 1 .. LengthOf(c) : Bytes(sent[c])[k] = <<sent[c], 0 + k>>
        <4>1. 0 \in Nat /\ LengthOf(c) \in Nat
              /\ 0 + LengthOf(c) <= Length[sent[c]]
          BY <1>5
        <4>2. /\ Piece(sent[c], 0, LengthOf(c)) \in Seq(Byte)
              /\ Len(Piece(sent[c], 0, LengthOf(c))) = LengthOf(c)
              /\ \A k \in 1 .. LengthOf(c) :
                   Piece(sent[c], 0, LengthOf(c))[k] = <<sent[c], 0 + k>>
          BY <1>5, <4>1, PieceIs
        <4>3. Bytes(sent[c]) = Piece(sent[c], 0, LengthOf(c))
          BY <1>5 DEF Bytes
        <4> QED
          BY <4>2, <4>3
      <3>2. \A k \in 1 .. LengthOf(c) : Bytes(sent[c])[k] = msg'[k]
        <4>1. \A k \in 1 .. LengthOf(c) : 0 + k = k
          BY <1>5
        <4> QED
          BY <3>1, <4>1
      <3> QED
        BY <3>1, <3>2, PrefixIs
    <2>2. \A i \in 1 .. Len(received') : IsPrefix(Bytes(sent[i]), received'[i])
      <3> SUFFICES ASSUME NEW i \in 1 .. Len(received')
                   PROVE  IsPrefix(Bytes(sent[i]), received'[i])
        OBVIOUS
      <3>1. CASE i = c
        BY <1>3, <1>4, <2>1, <3>1
      <3>2. CASE i # c
        <4>1. i \in 1 .. Len(received)
          BY <1>2, <1>3, <1>4, <3>2
        <4> QED
          BY <1>3, <4>1 DEF IInv, ReceivedInv
      <3> QED
        BY <3>1, <3>2
    <2> QED
      BY <1>3, <2>2 DEF ReceivedInv
  <1>12. AnswerInv'
    <2>1. pc \notin {"received", "write"}
      BY DEF Reading
    <2>2. Len(arrived) = Len(received) /\ Len(received') - 1 = Len(received)
      BY <1>2, <1>3, <2>1 DEF IInv, AnswerInv
    <2>3. Len(received') > 0 /\ msg'[1] = <<sent[Len(received')], 1>>
      BY <1>2, <1>3, <1>4, <1>5
    <2> QED
      BY <1>1, <2>1, <2>2, <2>3 DEF IInv, AnswerInv
  <1> QED
    BY <1>7, <1>8, <1>9, <1>10, <1>11, <1>12 DEF IInv

LEMMA Keeps_TRKTestForPacket_Header ==
  ASSUME PacketsFit, IInv, TRKTestForPacket_Header PROVE IInv'
  <1> DEFINE c == Current
             p == sent[c]
  <1>1. /\ pc = "header" /\ Reading /\ Take
        /\ msg' = TRK_AppendBuffer(<<>>, answer'.data)
        /\ UNCHANGED <<driver, unsent, unwritten, sent, arrived>>
    BY DEF TRKTestForPacket_Header, Reading
  <1>2. /\ c \in 1 .. Len(sent) /\ p \in Packet /\ LengthOf(c) = Length[p]
        /\ LengthOf(c) \in Nat /\ Header <= LengthOf(c)
        /\ Header \in Nat \ {0} /\ Wanted = Header
        /\ Header <= kMessageBufferSize
    <2>1. c \in 1 .. Len(sent) /\ Wanted = Header
      BY <1>1, WantedIs
    <2>2. kMessageBufferSize \in Nat
      BY TransportAssumption
    <2> QED
      BY <2>1, <2>2, SentFacts, PacketFacts DEF PacketsFit
  <1>3. /\ RingInv' /\ answer'.data = SubSeq(Contents, 1, Header)
        /\ Contents' = SubSeq(Contents, Header + 1, forRead)
        /\ forRead' = forRead - Header
        /\ Header <= forRead /\ forRead \in Nat
    BY <1>1, <1>2, TakeIs, SizeAssumption
  <1>4. /\ ~NoRoom /\ Fetched = forRead /\ forRead <= LengthOf(c)
        /\ Contents = Piece(p, 0, forRead)
    BY <1>1 DEF NoRoom, Fetched, IInv, PlaceInv, ReadInv, Reading
  <1> HIDE DEF p, c
  <1>5. answer'.data = Piece(p, 0, Header)
        /\ Contents' = Piece(p, Header, forRead - Header)
    <2>1. 0 \in Nat /\ 0 + forRead <= Length[p] /\ Header \in 0 .. forRead
          /\ 0 \in 0 .. forRead /\ forRead \in Header .. forRead
          /\ Header \in 0 .. forRead
      BY <1>2, <1>3, <1>4
    <2>2. /\ SubSeq(Piece(p, 0, forRead), 0 + 1, Header)
               = Piece(p, 0 + 0, Header - 0)
          /\ SubSeq(Piece(p, 0, forRead), Header + 1, forRead)
               = Piece(p, 0 + Header, forRead - Header)
      BY <1>2, <1>3, <2>1, PieceOfPiece
    <2>3. 0 + 1 = 1 /\ 0 + 0 = 0 /\ Header - 0 = Header /\ 0 + Header = Header
      BY <1>2
    <2> QED
      BY <1>3, <1>4, <2>2, <2>3
  <1>6. /\ Piece(p, 0, Header) \in Seq(Byte) /\ Len(Piece(p, 0, Header)) = Header
        /\ \A k \in 1 .. Header : Piece(p, 0, Header)[k] = <<p, 0 + k>>
    <2>1. 0 + Header <= Length[p]
      BY <1>2
    <2> QED
      BY <1>2, <2>1, PieceIs
  <1>7. msg' = Piece(p, 0, Header)
    <2> DEFINE d == Piece(p, 0, Header)
    <2>1. /\ <<>> \o d = d /\ Len(d) = Header
          /\ d \in Seq(Byte) /\ <<>> \in Seq(Byte)
      BY <1>6, ConcatEmptySeq
    <2> HIDE DEF d
    <2>2. Header \in 0 .. Len(<<>> \o d)
      BY <1>2, <2>1
    <2>3. /\ msg' \in Seq(Byte)
          /\ Len(msg') \in Header .. Header
          /\ \A k \in 1 .. Header : msg'[k] = d[k]
      <3>1. msg' = TRK_AppendBuffer(<<>>, d)
        BY <1>1, <1>5 DEF d
      <3> QED
        <4>1. <<>> \in Seq(Byte) /\ d \in Seq(Byte)
              /\ Header \in 0 .. Len(<<>> \o d) /\ Header <= kMessageBufferSize
          BY <1>2, <2>1, <2>2
        <4>2. /\ TRK_AppendBuffer(<<>>, d) \in Seq(Byte)
              /\ Len(TRK_AppendBuffer(<<>>, d)) \in Header .. Len(<<>> \o d)
              /\ \A k \in 1 .. Header :
                   TRK_AppendBuffer(<<>>, d)[k] = (<<>> \o d)[k]
          BY <4>1, AppendBufferKeeps
        <4> QED
          BY <2>1, <3>1, <4>2
    <2>4. Len(msg') = Len(d)
      BY <1>2, <2>1, <2>3
    <2>5. msg' = d
      BY <2>1, <2>3, <2>4, SeqEqual
    <2> QED
      BY <2>5 DEF d
  <1>8. Length[msg'[1][1]] = LengthOf(c)
    BY <1>2, <1>6, <1>7
  <1>9. CASE LengthOf(c) > Header
    <2>1. pc' = "body" /\ received' = received
      BY <1>8, <1>9 DEF TRKTestForPacket_Header
    <2>2. /\ Reading' /\ Current' = c /\ LengthOf(Current)' = LengthOf(c)
          /\ Fetched' = Fetched
      <3>1. Reading' /\ Current' = c
        BY <1>1, <2>1 DEF Reading, Current, c
      <3>2. Fetched' = Header + (forRead - Header)
        BY <1>3, <2>1, <3>1 DEF Fetched
      <3> QED
        BY <1>1, <1>2, <1>3, <1>4, <3>1, <3>2 DEF LengthOf
    <2>3. SentInv' /\ UnsentInv' /\ ReceivedInv'
      BY <1>1, <2>1 DEF IInv, SentInv, UnsentInv, ReceivedInv, LengthOf
    <2>4. DriverInv'
      BY <1>1
         DEF IInv, DriverInv, IsBlock, Follows, LastOf, EndOfDriver, LengthOf
    <2>5. PlaceInv'
      BY <1>1, <1>4, <2>2 DEF IInv, PlaceInv, Follows, LengthOf, c
    <2>6. ReadInv'
      <3>1. pc' = "body" /\ Reading' /\ Current' <= Len(sent')
        BY <1>1, <1>2, <2>1, <2>2
      <3>2. LengthOf(Current)' > Header
        BY <1>9, <2>2
      <3>3. sent'[Current'] = p
        BY <1>1, <2>2 DEF p
      <3>4. msg' = Piece(sent'[Current'], 0, Header)
        BY <1>7, <3>3
      <3>5. Contents' = Piece(sent'[Current'], Header, forRead')
        BY <1>3, <1>5, <3>3
      <3> QED
        BY <3>1, <3>2, <3>4, <3>5 DEF ReadInv
    <2>7. AnswerInv'
      BY <1>1, <2>1, AnswersKept DEF IInv
    <2> QED
      BY <1>3, <2>3, <2>4, <2>5, <2>6, <2>7 DEF IInv
  <1>10. CASE ~(LengthOf(c) > Header)
    <2>1. LengthOf(c) = Header /\ forRead = Header /\ forRead' = 0
      BY <1>2, <1>3, <1>4, <1>10
    <2>2. Return
      BY <1>8, <1>10 DEF TRKTestForPacket_Header
    <2>3. /\ msg' \in Seq(Byte) /\ LengthOf(c) <= Len(msg')
          /\ \A k \in 1 .. LengthOf(c) : msg'[k] = <<p, k>>
      BY <1>2, <1>6, <1>7, <2>1
    <2> QED
      BY <1>1, <1>3, <1>4, <2>1, <2>2, <2>3, ReturnKeeps DEF c, p
  <1> QED
    BY <1>9, <1>10

LEMMA Keeps_TRKTestForPacket_Body ==
  ASSUME PacketsFit, IInv, TRKTestForPacket_Body PROVE IInv'
  <1> DEFINE c == Current
             p == sent[c]
             l == LengthOf(c)
             stale == [i \in 1 .. Header |-> Stale]
  <1>1. /\ pc = "body" /\ Reading /\ Take /\ Return
        /\ msg' = TRK_AppendBuffer(msg, answer'.data \o stale)
        /\ UNCHANGED <<driver, unsent, unwritten, sent, arrived>>
    BY DEF TRKTestForPacket_Body, Reading
  <1>2. /\ c \in 1 .. Len(sent) /\ p \in Packet /\ l = Length[p]
        /\ l \in Nat /\ Header < l /\ Wanted = l - Header
        /\ Header \in Nat \ {0} /\ l <= kMessageBufferSize
    <2>1. c \in 1 .. Len(sent) /\ Wanted = l - Header /\ Header < l
      BY <1>1, WantedIs, PacketFacts, SentFacts DEF IInv, ReadInv
    <2> QED
      BY <2>1, SentFacts, PacketFacts DEF PacketsFit
  <1>3. /\ RingInv' /\ answer'.data = SubSeq(Contents, 1, Wanted)
        /\ forRead' = forRead - Wanted
        /\ Wanted <= forRead /\ forRead \in Nat /\ ~NoRoom
    BY <1>1, TakeIs, SizeAssumption
  <1>4. /\ Fetched = Header + forRead /\ Fetched <= l
        /\ Contents = Piece(p, Header, forRead)
        /\ msg = Piece(p, 0, Header)
    BY <1>1, <1>3 DEF Fetched, IInv, PlaceInv, ReadInv, Reading
  <1> HIDE DEF p, l, c, stale
  <1>b. /\ l \in Nat /\ Header < l /\ Wanted = l - Header
        /\ Header \in Nat \ {0} /\ l = Length[p]
    BY <1>2
  <1>c. forRead' = forRead - Wanted /\ Wanted <= forRead /\ forRead \in Nat
    BY <1>3
  <1>d. Fetched = Header + forRead /\ Fetched <= l
    BY <1>4
  <1>5. forRead = l - Header /\ forRead' = 0 /\ Fetched = l /\ Wanted = forRead
    BY <1>b, <1>c, <1>d
  <1>a. /\ forRead \in Nat /\ Header \in Nat \ {0} /\ l \in Nat
        /\ Header + forRead = l /\ forRead + Header \in Nat
        /\ Length[p] \in Nat /\ Header + forRead <= Length[p]
    BY <1>b, <1>c, <1>5
  <1>6. answer'.data = Piece(p, Header, forRead)
    <2>1. 0 \in 0 .. forRead /\ forRead \in 0 .. forRead /\ Header \in Nat
          /\ Header + forRead <= Length[p]
      BY <1>a
    <2>2. SubSeq(Piece(p, Header, forRead), 0 + 1, forRead)
            = Piece(p, Header + 0, forRead - 0)
      BY <1>2, <1>a, <2>1, PieceOfPiece
    <2>3. 0 + 1 = 1 /\ Header + 0 = Header /\ forRead - 0 = forRead
      BY <1>a
    <2> QED
      BY <1>3, <1>4, <1>5, <2>2, <2>3
  <1> DEFINE d == Piece(p, Header, forRead)
             h == Piece(p, 0, Header)
  <1>7. d \in Seq(Byte) /\ Len(d) = forRead
        /\ \A k \in 1 .. forRead : d[k] = <<p, Header + k>>
    <2>1. Header \in Nat /\ Header + forRead <= Length[p]
      BY <1>a
    <2> QED
      BY <1>2, <1>a, <2>1, PieceIs
  <1>8. h \in Seq(Byte) /\ Len(h) = Header
        /\ \A k \in 1 .. Header : h[k] = <<p, 0 + k>>
    <2>1. 0 \in Nat /\ 0 + Header <= Length[p]
      BY <1>2
    <2> QED
      BY <1>2, <2>1, PieceIs
  <1>9. msg' = TRK_AppendBuffer(h, d \o stale)
    BY <1>1, <1>4, <1>6
  <1> HIDE DEF d, h
  <1>10. stale \in Seq(Byte) /\ Len(stale) = Header
    BY <1>2, BytesAssumption DEF stale
  <1>11. d \o stale \in Seq(Byte) /\ Len(d \o stale) = forRead + Header
         /\ \A k \in 1 .. forRead : (d \o stale)[k] = d[k]
    <2>1. /\ d \o stale \in Seq(Byte) /\ Len(d \o stale) = Len(d) + Len(stale)
          /\ \A k \in 1 .. Len(d) + Len(stale) :
               (d \o stale)[k] = IF k <= Len(d) THEN d[k] ELSE stale[k - Len(d)]
      BY <1>7, <1>10, ConcatProperties
    <2> QED
      BY <1>a, <1>7, <1>10, <2>1
  <1>12. /\ Len(h \o (d \o stale)) = Header + (forRead + Header)
         /\ \A k \in 1 .. Header : (h \o (d \o stale))[k] = h[k]
         /\ \A k \in Header + 1 .. Header + (forRead + Header) :
              (h \o (d \o stale))[k] = (d \o stale)[k - Header]
    <2> DEFINE t == d \o stale
    <2>1. t \in Seq(Byte) /\ Len(t) = forRead + Header
      BY <1>11
    <2> HIDE DEF t
    <2>2. /\ Len(h \o t) = Len(h) + Len(t)
          /\ \A k \in 1 .. Len(h) + Len(t) :
               (h \o t)[k] = IF k <= Len(h) THEN h[k] ELSE t[k - Len(h)]
      BY <1>8, <2>1, ConcatProperties
    <2>3. /\ Len(h \o t) = Header + (forRead + Header)
          /\ \A k \in 1 .. Header : (h \o t)[k] = h[k]
          /\ \A k \in Header + 1 .. Header + (forRead + Header) :
               (h \o t)[k] = t[k - Header]
      BY <1>a, <1>8, <2>1, <2>2
    <2> QED
      BY <2>3 DEF t
  <1>13. /\ msg' \in Seq(Byte) /\ l <= Len(msg')
         /\ \A k \in 1 .. l : msg'[k] = (h \o (d \o stale))[k]
    <2>1. l \in 0 .. Len(h \o (d \o stale)) /\ l <= kMessageBufferSize
      BY <1>a, <1>2, <1>12
    <2>2. /\ TRK_AppendBuffer(h, d \o stale) \in Seq(Byte)
          /\ Len(TRK_AppendBuffer(h, d \o stale)) \in l .. Len(h \o (d \o stale))
          /\ \A k \in 1 .. l :
               TRK_AppendBuffer(h, d \o stale)[k] = (h \o (d \o stale))[k]
      <3> DEFINE t == d \o stale
      <3>1. h \in Seq(Byte) /\ t \in Seq(Byte)
        BY <1>8, <1>11
      <3>2. l \in 0 .. Len(h \o t) /\ l <= kMessageBufferSize
        BY <2>1
      <3> HIDE DEF t
      <3>3. /\ TRK_AppendBuffer(h, t) \in Seq(Byte)
            /\ Len(TRK_AppendBuffer(h, t)) \in l .. Len(h \o t)
            /\ \A k \in 1 .. l : TRK_AppendBuffer(h, t)[k] = (h \o t)[k]
        BY <3>1, <3>2, AppendBufferKeeps
      <3> QED
        BY <3>3 DEF t
    <2>3. \A x \in l .. Len(h \o (d \o stale)) : l <= x
      BY <1>a, <1>12
    <2> QED
      BY <1>9, <2>2, <2>3
  <1>14. \A k \in 1 .. l : msg'[k] = <<p, k>>
    <2> SUFFICES ASSUME NEW k \in 1 .. l PROVE msg'[k] = <<p, k>>
      OBVIOUS
    <2>1. CASE k <= Header
      <3>1. k \in 1 .. Header /\ 0 + k = k
        BY <1>2, <2>1
      <3> QED
        BY <1>8, <1>12, <1>13, <3>1
    <2>2. CASE ~(k <= Header)
      <3>1. /\ k \in Header + 1 .. Header + (forRead + Header)
            /\ k - Header \in 1 .. forRead /\ Header + (k - Header) = k
        BY <1>2, <1>5, <2>2
      <3>2. msg'[k] = d[k - Header]
        BY <1>11, <1>12, <1>13, <3>1
      <3>3. d[k - Header] = <<p, Header + (k - Header)>>
        BY <1>7, <3>1
      <3> QED
        BY <3>1, <3>2, <3>3
    <2> QED
      BY <2>1, <2>2
  <1> QED
    BY <1>1, <1>3, <1>5, <1>13, <1>14, ReturnKeeps DEF c, p, l

LEMMA Keeps_gdev_cc_initialize == ASSUME IInv, gdev_cc_initialize PROVE IInv'
  <1>1. /\ pc = "idle" /\ pc' = pc /\ memory' = memory
        /\ readPos' = 0 /\ writePos' = 0 /\ forRead' = 0 /\ forWrite' = Size
        /\ UNCHANGED <<driver, unsent, msg, unwritten, sent, received, arrived>>
    BY DEF gdev_cc_initialize
  <1>2. RingInv'
    BY <1>1, SizeAssumption DEF IInv, RingInv, Round
  <1>3. ~Reading /\ ~Reading' /\ Current' = Current /\ ~NoRoom /\ ~NoRoom'
        /\ Fetched' = Fetched
    BY <1>1 DEF Reading, Current, NoRoom, Fetched, LengthOf
  <1>4. SentInv' /\ UnsentInv' /\ ReceivedInv'
    BY <1>1 DEF IInv, SentInv, UnsentInv, ReceivedInv, LengthOf
  <1>5. DriverInv'
    BY <1>1 DEF IInv, DriverInv, IsBlock, Follows, LastOf, EndOfDriver, LengthOf
  <1>6. PlaceInv'
    BY <1>1, <1>3 DEF IInv, PlaceInv, Follows, LengthOf
  <1>7. ReadInv'
    BY <1>1, <1>3 DEF IInv, ReadInv
  <1>8. AnswerInv'
    BY <1>1, AnswersKept DEF IInv
  <1> QED
    BY <1>2, <1>4, <1>5, <1>6, <1>7, <1>8 DEF IInv

-----------------------------------------------------------------------------
(***************************************************************************)
(* The answer.                                                             *)
(***************************************************************************)

\* What an answer does not touch, on the way from "received" to "idle".
LEMMA AnsweringKeeps ==
  ASSUME IInv, pc \in {"received", "write"}, pc' \in {"write", "idle"},
         UNCHANGED <<driver, unsent, ring, msg, sent, received>>, AnswerInv'
  PROVE  IInv'
  <1>1. ~Reading /\ ~Reading' /\ Current' = Current /\ ~NoRoom /\ ~NoRoom'
        /\ Fetched' = Fetched
    BY DEF Reading, Current, NoRoom, Fetched, LengthOf
  <1>2. RingInv'
    BY DEF IInv, RingInv, ring
  <1>3. SentInv' /\ UnsentInv' /\ ReceivedInv'
    BY DEF IInv, SentInv, UnsentInv, ReceivedInv, LengthOf
  <1>4. DriverInv'
    BY DEF IInv, DriverInv, IsBlock, Follows, LastOf, EndOfDriver, LengthOf
  <1>5. PlaceInv'
    BY <1>1 DEF IInv, PlaceInv, Follows, LengthOf
  <1>6. ReadInv'
    BY <1>1 DEF IInv, ReadInv, ring
  <1> QED
    BY <1>2, <1>3, <1>4, <1>5, <1>6 DEF IInv

\* A packet that was received was sent, and has a header to answer with.
LEMMA AnsweredFacts ==
  ASSUME IInv, NEW i \in 1 .. Len(received)
  PROVE  /\ i \in 1 .. Len(sent) /\ sent[i] \in Packet
         /\ Header \in Nat \ {0} /\ Header <= Length[sent[i]]
         /\ Length[sent[i]] \in Nat
  <1>1. i \in 1 .. Len(sent)
    BY SentFacts
  <1> QED
    BY <1>1, SentFacts, PacketFacts

\* The answer to a packet is its header.
LEMMA ReplyIs ==
  ASSUME NEW p \in Packet PROVE ReplyTo(p) = Piece(p, 0, Header)
  <1>1. /\ Length[p] \in Nat /\ 0 \in Nat /\ 0 + Length[p] <= Length[p]
        /\ 0 \in 0 .. Length[p] /\ Header \in 0 .. Length[p]
    BY PacketFacts
  <1>2. SubSeq(Piece(p, 0, Length[p]), 0 + 1, Header)
          = Piece(p, 0 + 0, Header - 0)
    BY <1>1, PieceOfPiece
  <1>3. 0 + 1 = 1 /\ 0 + 0 = 0 /\ Header - 0 = Header
    BY <1>1
  <1> QED
    BY <1>2, <1>3 DEF ReplyTo, Bytes

LEMMA Keeps_TRK_MessageSend == ASSUME IInv, TRK_MessageSend PROVE IInv'
  <1> DEFINE r == Len(received)
             p == sent[r]
  <1>1. /\ pc = "received" /\ pc' = "write"
        /\ unwritten' = ReplyTo(msg[1][1])
        /\ arrived' = Append(arrived, [bytes |-> <<>>, refused |-> FALSE])
        /\ UNCHANGED <<driver, unsent, ring, msg, sent, received>>
    BY DEF TRK_MessageSend
  <1>2. /\ arrived \in Seq([bytes : Seq(Byte), refused : BOOLEAN])
        /\ Len(arrived) = r - 1 /\ r > 0 /\ r \in Nat /\ msg[1][1] = p
    BY <1>1, SentFacts DEF IInv, AnswerInv
  <1>3. r \in 1 .. r
    BY <1>2
  <1>4. p \in Packet /\ Header \in Nat \ {0} /\ Header <= Length[p]
        /\ Length[p] \in Nat
    BY <1>3, AnsweredFacts
  <1>5. /\ arrived' \in Seq([bytes : Seq(Byte), refused : BOOLEAN])
        /\ Len(arrived') = r
        /\ arrived'[r].bytes = <<>>
        /\ \A i \in 1 .. r - 1 : arrived'[i] = arrived[i]
    <2>1. [bytes |-> <<>>, refused |-> FALSE]
            \in [bytes : Seq(Byte), refused : BOOLEAN]
      OBVIOUS
    <2> HIDE DEF r
    <2>2. Len(arrived) + 1 = r /\ Len(arrived) \in Nat
      BY <1>2
    <2>3. /\ arrived' \in Seq([bytes : Seq(Byte), refused : BOOLEAN])
          /\ Len(arrived') = Len(arrived) + 1
          /\ arrived'[Len(arrived) + 1] = [bytes |-> <<>>, refused |-> FALSE]
          /\ \A i \in 1 .. Len(arrived) : arrived'[i] = arrived[i]
      BY <1>1, <1>2, <2>1
    <2> QED
      BY <1>2, <2>2, <2>3
  <1> HIDE DEF r, p
  <1>6. unwritten' = Piece(p, 0, Header)
    BY <1>1, <1>2, <1>4, ReplyIs
  <1>7. Len(Piece(p, 0, Header)) = Header /\ Piece(p, 0, 0) = <<>>
    <2>1. 0 + Header <= Length[p] /\ 0 + 0 <= Length[p] /\ 0 \in Nat
      BY <1>4
    <2>2. Len(Piece(p, 0, Header)) = Header
      BY <1>4, <2>1, PieceIs
    <2>3. Piece(p, 0, 0) \in Seq(Byte) /\ Len(Piece(p, 0, 0)) = 0
      BY <1>4, <2>1, PieceIs
    <2> QED
      BY <2>2, <2>3, EmptySeq
  <1>8. AnswerInv'
    <2>1. Len(arrived') = Len(received') /\ Len(arrived') > 0
          /\ Len(unwritten') \in 1 .. Header
      BY <1>1, <1>2, <1>4, <1>5, <1>6, <1>7 DEF r
    <2>2. \A i \in 1 .. Len(arrived') :
            \E n \in 0 .. Header :
              /\ arrived'[i].bytes = Piece(sent'[i], 0, n)
              /\ IF i = Len(arrived') /\ pc' = "write"
                 THEN unwritten' = Piece(sent'[i], n, Header - n)
                 ELSE n = Header \/ arrived'[i].refused
      <3> SUFFICES ASSUME NEW i \in 1 .. Len(arrived')
                   PROVE  \E n \in 0 .. Header :
                            /\ arrived'[i].bytes = Piece(sent[i], 0, n)
                            /\ IF i = r
                               THEN unwritten' = Piece(sent[i], n, Header - n)
                               ELSE n = Header \/ arrived'[i].refused
        BY <1>1, <1>5
      <3>1. CASE i = r
        <4>1. arrived'[i].bytes = Piece(sent[i], 0, 0)
          BY <1>5, <1>7, <3>1 DEF p
        <4>2. unwritten' = Piece(sent[i], 0, Header - 0)
          BY <1>4, <1>6, <3>1 DEF p
        <4>3. 0 \in 0 .. Header
          BY <1>4
        <4> QED
          BY <3>1, <4>1, <4>2, <4>3
      <3>2. CASE i # r
        <4>1. i \in 1 .. r - 1 /\ i \in 1 .. Len(arrived)
          BY <1>2, <1>5, <3>2
        <4>2. PICK n \in 0 .. Header :
                /\ arrived[i].bytes = Piece(sent[i], 0, n)
                /\ n = Header \/ arrived[i].refused
          BY <1>1, <4>1 DEF IInv, AnswerInv
        <4> QED
          BY <1>5, <3>2, <4>1, <4>2
      <3> QED
        BY <3>1, <3>2
    <2> QED
      BY <1>1, <1>5, <2>1, <2>2 DEF AnswerInv
  <1> QED
    BY <1>1, <1>8, AnsweringKeeps

\* Where an answer is while it is being sent.
LEMMA WritingFacts ==
  ASSUME IInv, pc = "write"
  PROVE  LET r == Len(arrived)
             p == sent[r]
         IN  /\ arrived \in Seq([bytes : Seq(Byte), refused : BOOLEAN])
             /\ r \in 1 .. r /\ r \in Nat /\ r = Len(received)
             /\ arrived[r] \in [bytes : Seq(Byte), refused : BOOLEAN]
             /\ p \in Packet /\ Header \in Nat \ {0} /\ Header <= Length[p]
             /\ Length[p] \in Nat
             /\ Len(unwritten) \in 1 .. Header
             /\ \E m \in 0 .. Header :
                  /\ arrived[r].bytes = Piece(p, 0, m)
                  /\ unwritten = Piece(p, m, Header - m)
                  /\ Len(unwritten) = Header - m
  <1> DEFINE r == Len(arrived)
             p == sent[r]
  <1>1. /\ arrived \in Seq([bytes : Seq(Byte), refused : BOOLEAN])
        /\ r > 0 /\ r = Len(received) /\ Len(unwritten) \in 1 .. Header
    BY DEF IInv, AnswerInv
  <1>2. r \in 1 .. r /\ r \in Nat /\ r \in 1 .. Len(received)
    BY <1>1
  <1>3. p \in Packet /\ Header \in Nat \ {0} /\ Header <= Length[p]
        /\ Length[p] \in Nat
    BY <1>2, AnsweredFacts
  <1>4. PICK m \in 0 .. Header :
          /\ arrived[r].bytes = Piece(p, 0, m)
          /\ unwritten = Piece(p, m, Header - m)
    BY <1>2 DEF IInv, AnswerInv
  <1>6. arrived[r] \in [bytes : Seq(Byte), refused : BOOLEAN]
    <2> DEFINE R == [bytes : Seq(Byte), refused : BOOLEAN]
    <2>1. arrived \in Seq(R) /\ r \in 1 .. Len(arrived)
      BY <1>1, <1>2
    <2> HIDE DEF R
    <2>2. arrived[r] \in R
      BY <2>1
    <2> QED
      BY <2>2 DEF R
  <1> HIDE DEF r, p
  <1>5. Len(unwritten) = Header - m
    <2>1. m \in Nat /\ Header - m \in Nat /\ m + (Header - m) <= Length[p]
      BY <1>3
    <2> QED
      BY <1>3, <1>4, <2>1, PieceIs
  <1> QED
    BY <1>1, <1>2, <1>3, <1>4, <1>5, <1>6 DEF r, p

\* The last answer grows or is refused, the ones before it stay.
LEMMA LastAnswerKeeps ==
  ASSUME IInv, pc = "write", pc' \in {"write", "idle"},
         UNCHANGED <<sent, received>>,
         NEW x \in [bytes : Seq(Byte), refused : BOOLEAN],
         arrived' = [arrived EXCEPT ![Len(arrived)] = x],
         pc' = "write" => Len(unwritten') \in 1 .. Header,
         NEW m \in 0 .. Header,
         x.bytes = Piece(sent[Len(arrived)], 0, m),
         IF pc' = "write"
         THEN unwritten' = Piece(sent[Len(arrived)], m, Header - m)
         ELSE m = Header \/ x.refused
  PROVE  AnswerInv'
  <1> DEFINE r == Len(arrived)
  <1>1. /\ arrived \in Seq([bytes : Seq(Byte), refused : BOOLEAN])
        /\ r \in 1 .. r /\ r \in Nat /\ r = Len(received)
    BY WritingFacts
  <1>2. /\ arrived' \in Seq([bytes : Seq(Byte), refused : BOOLEAN])
        /\ Len(arrived') = r /\ arrived'[r] = x
        /\ \A i \in 1 .. r : i # r => arrived'[i] = arrived[i]
    BY <1>1
  <1> HIDE DEF r
  <1>3. \A i \in 1 .. Len(arrived') :
          \E n \in 0 .. Header :
            /\ arrived'[i].bytes = Piece(sent'[i], 0, n)
            /\ IF i = Len(arrived') /\ pc' = "write"
               THEN unwritten' = Piece(sent'[i], n, Header - n)
               ELSE n = Header \/ arrived'[i].refused
    <2> SUFFICES ASSUME NEW i \in 1 .. r
                 PROVE  \E n \in 0 .. Header :
                          /\ arrived'[i].bytes = Piece(sent[i], 0, n)
                          /\ IF i = r /\ pc' = "write"
                             THEN unwritten' = Piece(sent[i], n, Header - n)
                             ELSE n = Header \/ arrived'[i].refused
      BY <1>2
    <2>1. CASE i = r
      BY <1>2, <2>1 DEF r
    <2>2. CASE i # r
      <3>1. PICK n \in 0 .. Header :
              /\ arrived[i].bytes = Piece(sent[i], 0, n)
              /\ n = Header \/ arrived[i].refused
        BY <2>2 DEF IInv, AnswerInv, r
      <3> QED
        BY <1>2, <2>2, <3>1
    <2> QED
      BY <2>1, <2>2
  <1>4. Len(arrived') = Len(received') /\ Len(arrived') > 0
    BY <1>1, <1>2
  <1> QED
    BY <1>2, <1>3, <1>4 DEF AnswerInv

LEMMA Keeps_gdev_cc_write ==
  ASSUME IInv, NEW n \in 1 .. Header, gdev_cc_write(n) PROVE IInv'
  <1> DEFINE r == Len(arrived)
             p == sent[r]
             x == [arrived[r] EXCEPT !.bytes = @ \o SubSeq(unwritten, 1, n)]
  <1>1. /\ pc = "write" /\ n \in 1 .. Len(unwritten)
        /\ arrived' = [arrived EXCEPT ![r] = x]
        /\ unwritten' = SubSeq(unwritten, n + 1, Len(unwritten))
        /\ pc' = IF unwritten' = <<>> THEN "idle" ELSE "write"
        /\ UNCHANGED <<driver, unsent, ring, msg, sent, received>>
    BY DEF gdev_cc_write, Delivered
  <1>2. /\ arrived \in Seq([bytes : Seq(Byte), refused : BOOLEAN])
        /\ r \in 1 .. Len(arrived) /\ p \in Packet
        /\ Header \in Nat \ {0} /\ Header <= Length[p] /\ Length[p] \in Nat
    BY <1>1, WritingFacts
  <1>3. PICK m \in 0 .. Header :
          /\ arrived[r].bytes = Piece(p, 0, m)
          /\ unwritten = Piece(p, m, Header - m)
          /\ Len(unwritten) = Header - m
    BY <1>1, WritingFacts
  <1>4. arrived[r] \in [bytes : Seq(Byte), refused : BOOLEAN]
    BY <1>1, WritingFacts
  <1> HIDE DEF p
  <1>5. /\ n \in 0 .. Header - m /\ n > 0
        /\ m + n \in 0 .. Header /\ Header - (m + n) \in 0 .. Header
        /\ Header \in Nat /\ Header <= Length[p] /\ m \in 0 .. Header
    <2>1. n \in 1 .. Len(unwritten)
      BY <1>1
    <2>2. Len(unwritten) = Header - m
      BY <1>3
    <2>3. Header \in Nat \ {0} /\ Header <= Length[p]
      BY <1>2
    <2> QED
      BY <2>1, <2>2, <2>3
  <1>6. LET u == Piece(p, m, Header - m)
            t == Piece(p, m + n, Header - (m + n))
        IN  /\ SubSeq(u, 1, n) = Piece(p, m, n)
            /\ SubSeq(u, n + 1, Header - m) = t
            /\ t \in Seq(Byte) /\ Len(t) = Header - (m + n)
            /\ Piece(p, 0, m) \o Piece(p, m, n) = Piece(p, 0, m + n)
            /\ Piece(p, 0, m + n) \in Seq(Byte)
    BY <1>2, <1>5, PieceSplits
  <1>7. /\ unwritten' = Piece(p, m + n, Header - (m + n))
        /\ unwritten' \in Seq(Byte) /\ Len(unwritten') = Header - (m + n)
    BY <1>1, <1>3, <1>6
  <1>8. /\ arrived[r].bytes \o SubSeq(unwritten, 1, n) = Piece(p, 0, m + n)
        /\ Piece(p, 0, m + n) \in Seq(Byte)
    BY <1>3, <1>6
  <1>9. /\ x.bytes = Piece(p, 0, m + n)
        /\ x \in [bytes : Seq(Byte), refused : BOOLEAN]
    BY <1>4, <1>8
  <1> HIDE DEF x
  <1>11. pc' = "write" => Len(unwritten') \in 1 .. Header
    <2>1. unwritten' # <<>> => Len(unwritten') # 0
      BY <1>7, EmptySeq
    <2> QED
      BY <1>1, <1>5, <1>7, <2>1
  <1>12. IF pc' = "write"
         THEN unwritten' = Piece(p, m + n, Header - (m + n))
         ELSE m + n = Header \/ x.refused
    <2>1. unwritten' = <<>> => Len(unwritten') = 0
      BY <1>7, EmptySeq
    <2>2. unwritten' = <<>> => m + n = Header
      BY <1>5, <1>7, <2>1
    <2> QED
      BY <1>1, <1>7, <2>2
  <1>13. AnswerInv'
    <2>1. pc' \in {"write", "idle"} /\ UNCHANGED <<sent, received>>
      BY <1>1
    <2> QED
      BY <1>1, <1>5, <1>9, <1>11, <1>12, <2>1, LastAnswerKeeps DEF p
  <1> QED
    BY <1>1, <1>13, AnsweringKeeps

LEMMA Keeps_gdev_cc_write_Refused ==
  ASSUME IInv, gdev_cc_write_Refused PROVE IInv'
  <1> DEFINE r == Len(arrived)
             x == [arrived[r] EXCEPT !.refused = TRUE]
  <1>1. /\ pc = "write" /\ pc' = "idle"
        /\ arrived' = [arrived EXCEPT ![r] = x]
        /\ UNCHANGED <<driver, unsent, ring, msg, sent, received>>
    BY DEF gdev_cc_write_Refused
  <1>2. arrived[r] \in [bytes : Seq(Byte), refused : BOOLEAN]
    BY <1>1, WritingFacts
  <1>3. PICK m \in 0 .. Header : arrived[r].bytes = Piece(sent[r], 0, m)
    BY <1>1, WritingFacts
  <1>4. /\ x \in [bytes : Seq(Byte), refused : BOOLEAN]
        /\ x.refused /\ x.bytes = Piece(sent[r], 0, m)
    BY <1>2, <1>3
  <1> HIDE DEF x
  <1>5. AnswerInv'
    <2>1. pc' \in {"write", "idle"} /\ UNCHANGED <<sent, received>>
      BY <1>1
    <2>2. pc' # "write"
      BY <1>1
    <2> QED
      BY <1>1, <1>4, <2>1, <2>2, LastAnswerKeeps
  <1> QED
    BY <1>1, <1>5, AnsweringKeeps

-----------------------------------------------------------------------------
(***************************************************************************)
(* The host.  The parts of the invariant that its sends can disturb, of    *)
(* any packets q, blocks d and unsent bytes u.                             *)
(***************************************************************************)

LengthIn(q, i) == IF i = 0 THEN 0 ELSE Length[q[i]]

FollowsIn(q, i, a, y) ==
  \/ a < LengthIn(q, i) /\ y = <<q[i], a + 1>>
  \/ a = LengthIn(q, i) /\ i < Len(q) /\ y = <<q[i + 1], 1>>

BlockIn(q, s) ==
  /\ Len(s) \in 1 .. Size
  /\ \E i \in 1 .. Len(q) : s[1][1] = q[i]
  /\ s[1][2] \in Nat \ {0}
  /\ s[1][2] + Len(s) - 1 <= Length[s[1][1]]
  /\ s[1][2] = 1 => Len(s) >= Header
  /\ s = Piece(s[1][1], s[1][2] - 1, Len(s))

DriverIn(d, q, u) ==
  /\ \A j \in 1 .. Len(d) : BlockIn(q, d[j])
  /\ \A j \in 1 .. Len(d) - 1 :
       \E i \in 1 .. Len(q) :
         /\ d[j][1][1] = q[i]
         /\ FollowsIn(q, i, LastOf(d[j])[2], d[j + 1][1])
  /\ d # <<>> =>
       LastOf(d[Len(d)]) = <<q[Len(q)], LengthIn(q, Len(q)) - Len(u)>>

\* Packets of the host, of which there are more later.
Grows(q, r) ==
  /\ q \in Seq(Packet) /\ r \in Seq(Packet) /\ Len(q) <= Len(r)
  /\ \A i \in 1 .. Len(q) : r[i] = q[i]

LEMMA FollowsGrows ==
  ASSUME NEW q, NEW r, Grows(q, r), NEW i \in 0 .. Len(q), NEW a, NEW y,
         i = 0 => a \in Nat, FollowsIn(q, i, a, y)
  PROVE  FollowsIn(r, i, a, y) /\ LengthIn(r, i) = LengthIn(q, i)
  <1>1. Len(q) \in Nat /\ Len(r) \in Nat /\ Len(q) <= Len(r)
        /\ \A k \in 1 .. Len(q) : r[k] = q[k]
    BY DEF Grows
  <1>2. i # 0 => i \in 1 .. Len(q)
    BY <1>1
  <1>3. LengthIn(r, i) = LengthIn(q, i)
    BY <1>1, <1>2 DEF LengthIn
  <1>4. CASE a < LengthIn(q, i) /\ y = <<q[i], a + 1>>
    <2>1. i # 0
      BY <1>4 DEF LengthIn
    <2> QED
      BY <1>1, <1>2, <1>3, <1>4, <2>1 DEF FollowsIn
  <1>5. CASE a = LengthIn(q, i) /\ i < Len(q) /\ y = <<q[i + 1], 1>>
    <2>1. i + 1 \in 1 .. Len(q) /\ i < Len(r)
      BY <1>1, <1>5
    <2> QED
      BY <1>1, <1>3, <1>5, <2>1 DEF FollowsIn
  <1> QED
    BY <1>3, <1>4, <1>5 DEF FollowsIn

\* The blocks of the driver are in order when one more is sent.
LEMMA DriverGrows ==
  ASSUME NEW q, NEW r, Grows(q, r),
         NEW d \in Seq(Seq(Byte)), NEW u, NEW v, DriverIn(d, q, u),
         NEW p \in Packet, NEW a \in Nat, NEW n \in 1 .. Size,
         Len(r) > 0, r[Len(r)] = p,
         a + n <= Length[p], a = 0 => Header <= n, Len(v) = Length[p] - (a + n),
         d # <<>> =>
           FollowsIn(r, Len(q), LengthIn(q, Len(q)) - Len(u), <<p, a + 1>>)
  PROVE  DriverIn(Append(d, Piece(p, a, n)), r, v)
  <1> DEFINE s == Piece(p, a, n)
             k == Len(d)
             g == Append(d, s)
  <1>1. /\ Length[p] \in Nat /\ n \in Nat \ {0}
        /\ Len(q) \in Nat /\ Len(r) \in Nat /\ Len(r) \in 1 .. Len(r)
        /\ \A i \in 1 .. Len(q) : i \in 1 .. Len(r) /\ r[i] = q[i]
    <2>1. Length[p] \in Nat /\ n \in Nat \ {0}
      BY PacketFacts, SizeAssumption
    <2>2. Len(q) \in Nat /\ Len(r) \in Nat /\ Len(q) <= Len(r)
          /\ \A i \in 1 .. Len(q) : r[i] = q[i]
      BY DEF Grows
    <2>3. Len(r) \in 1 .. Len(r) /\ \A i \in 1 .. Len(q) : i \in 1 .. Len(r)
      BY <2>2
    <2> QED
      BY <2>1, <2>2, <2>3
  <1>2. s \in Seq(Byte) /\ Len(s) = n /\ \A i \in 1 .. n : s[i] = <<p, a + i>>
    BY <1>1, PieceIs
  <1>3. s[1] = <<p, a + 1>> /\ LastOf(s) = <<p, a + n>>
    BY <1>1, <1>2 DEF LastOf
  <1>4. s = Piece(p, (a + 1) - 1, n)
    <2>1. (a + 1) - 1 = a
      OBVIOUS
    <2> QED
      BY <2>1
  <1> HIDE DEF s, k
  <1>5. /\ k \in Nat /\ Len(g) = k + 1 /\ g[k + 1] = s /\ g # <<>>
        /\ \A j \in 1 .. k : g[j] = d[j]
    <2>1. /\ Len(d) \in Nat /\ g \in Seq(Seq(Byte)) /\ Len(g) = Len(d) + 1
          /\ g[Len(d) + 1] = s
          /\ \A j \in 1 .. Len(d) : g[j] = d[j]
      BY <1>2
    <2> HIDE DEF g
    <2>2. g # <<>>
      BY <2>1, EmptySeq
    <2> QED
      BY <2>1, <2>2 DEF k
  <1> HIDE DEF g
  <1>6. \A j \in 1 .. k : BlockIn(q, d[j])
    BY DEF DriverIn, k
  <1>7. ASSUME NEW j \in 1 .. k + 1 PROVE BlockIn(r, g[j])
    <2>1. CASE j = k + 1
      <3>1. \E i \in 1 .. Len(r) : p = r[i]
        BY <1>1
      <3> QED
        <4>1. s[1][1] = p /\ s[1][2] = a + 1
          BY <1>3
        <4>2. /\ a + 1 \in Nat \ {0} /\ (a + 1) + n - 1 <= Length[p]
              /\ a + 1 = 1 => n >= Header
          BY <1>1
        <4>3. BlockIn(r, s)
          BY <1>2, <1>4, <3>1, <4>1, <4>2 DEF BlockIn
        <4> QED
          BY <1>5, <2>1, <4>3
    <2>2. CASE j # k + 1
      <3>1. g[j] = d[j] /\ BlockIn(q, d[j])
        BY <1>5, <1>6, <2>2
      <3> QED
        BY <1>1, <3>1 DEF BlockIn
    <2> QED
      BY <2>1, <2>2
  <1>8. ASSUME NEW j \in 1 .. k
        PROVE  \E i \in 1 .. Len(r) :
                 /\ g[j][1][1] = r[i]
                 /\ FollowsIn(r, i, LastOf(g[j])[2], g[j + 1][1])
    <2>1. CASE j # k
      <3>0. j \in 1 .. k - 1 /\ j + 1 \in 1 .. k
        <4>1. k \in Nat
          BY <1>5
        <4> QED
          BY <2>1, <4>1
      <3>1. j \in 1 .. k - 1 /\ g[j] = d[j] /\ g[j + 1] = d[j + 1]
        BY <1>5, <3>0
      <3>2. PICK i \in 1 .. Len(q) :
              /\ d[j][1][1] = q[i]
              /\ FollowsIn(q, i, LastOf(d[j])[2], d[j + 1][1])
        BY <3>1 DEF DriverIn, k
      <3>3. i \in 0 .. Len(q) /\ i # 0
        BY <1>1
      <3>4. FollowsIn(r, i, LastOf(d[j])[2], d[j + 1][1])
        BY <3>2, <3>3, FollowsGrows
      <3> QED
        BY <1>1, <3>1, <3>2, <3>4
    <2>2. CASE j = k
      <3>1. g[j] = d[k] /\ g[j + 1] = s /\ d # <<>> /\ BlockIn(q, d[k])
        <4>1. d = <<>> => k = 0
          BY DEF k
        <4> QED
          BY <1>5, <1>6, <2>2, <4>1
      <3>2. LastOf(d[k]) = <<q[Len(q)], LengthIn(q, Len(q)) - Len(u)>>
        BY <3>1 DEF DriverIn, k
      <3>3. LastOf(d[k])[1] = d[k][1][1]
        <4>1. Len(d[k]) \in 1 .. Size
              /\ d[k] = Piece(d[k][1][1], d[k][1][2] - 1, Len(d[k]))
          BY <3>1 DEF BlockIn
        <4>2. Len(d[k]) \in 1 .. Len(d[k])
          BY <4>1, SizeAssumption
        <4> QED
          BY <4>1, <4>2 DEF Piece, LastOf
      <3>4. Len(q) \in 1 .. Len(q)
        BY <1>1, <3>1 DEF BlockIn
      <3>5. g[j][1][1] = r[Len(q)]
        BY <1>1, <3>1, <3>2, <3>3, <3>4
      <3>6. FollowsIn(r, Len(q), LastOf(g[j])[2], g[j + 1][1])
        <4>1. g[j + 1][1] = <<p, a + 1>>
          BY <1>3, <3>1
        <4>2. LastOf(g[j])[2] = LengthIn(q, Len(q)) - Len(u)
          BY <3>1, <3>2
        <4> QED
          BY <3>1, <4>1, <4>2
      <3> QED
        BY <1>1, <3>4, <3>5, <3>6
    <2> QED
      BY <2>1, <2>2
  <1>9. LastOf(g[Len(g)]) = <<r[Len(r)], LengthIn(r, Len(r)) - Len(v)>>
    <2>1. LengthIn(r, Len(r)) = Length[p]
      BY <1>1 DEF LengthIn
    <2>2. Length[p] - (Length[p] - (a + n)) = a + n
      BY <1>1
    <2> QED
      BY <1>3, <1>5, <2>1, <2>2
  <1>10. DriverIn(g, r, v)
    BY <1>5, <1>7, <1>8, <1>9 DEF DriverIn
  <1> QED
    BY <1>10 DEF g, s

\* The parts of the invariant are those of the sequences.
LEMMA OfTheSequences ==
  /\ \A i, a, y : Follows(i, a, y) <=> FollowsIn(sent, i, a, y)
  /\ \A i : LengthOf(i) = LengthIn(sent, i)
  /\ DriverInv <=> driver \in Seq(Seq(Byte)) /\ DriverIn(driver, sent, unsent)
  <1>1. \A i : LengthOf(i) = LengthIn(sent, i)
    BY DEF LengthOf, LengthIn
  <1>2. \A i, a, y : Follows(i, a, y) <=> FollowsIn(sent, i, a, y)
    BY <1>1 DEF Follows, FollowsIn
  <1>3. \A s : IsBlock(s) <=> BlockIn(sent, s)
    BY DEF IsBlock, BlockIn
  <1>4. EndOfDriver
          = <<sent[Len(sent)], LengthIn(sent, Len(sent)) - Len(unsent)>>
    BY <1>1 DEF EndOfDriver
  <1> QED
    BY <1>1, <1>2, <1>3, <1>4 DEF DriverInv, DriverIn

\* A block is sent: n bytes of the last packet behind its first a.
LEMMA SendKeeps ==
  ASSUME IInv, Grows(sent, sent'), SentInv', Len(sent') > 0,
         NEW p \in Packet, NEW a \in Nat, NEW n \in 1 .. Size,
         sent'[Len(sent')] = p,
         a + n <= Length[p], a = 0 => Header <= n, Header <= a + n,
         driver' = Append(driver, Piece(p, a, n)),
         unsent' = Piece(p, a + n, Length[p] - (a + n)),
         FollowsIn(sent', Len(sent), LengthIn(sent, Len(sent)) - Len(unsent),
                   <<p, a + 1>>),
         UNCHANGED <<ring, pc, msg, unwritten, received, arrived>>
  PROVE  IInv'
  <1> DEFINE s == Piece(p, a, n)
  <1>1. /\ Length[p] \in Nat /\ n \in Nat \ {0} /\ Header \in Nat \ {0}
    BY PacketFacts, SizeAssumption
  <1>2. /\ Len(sent) \in Nat /\ Len(sent') \in Nat
        /\ \A i \in 1 .. Len(sent) : sent'[i] = sent[i]
    BY DEF Grows
  <1>3. unsent' \in Seq(Byte) /\ Len(unsent') = Length[p] - (a + n)
    <2>1. /\ a + n \in Nat /\ Length[p] - (a + n) \in Nat
          /\ (a + n) + (Length[p] - (a + n)) <= Length[p]
      BY <1>1
    <2> QED
      BY <2>1, PieceIs
  <1>4. s \in Seq(Byte) /\ s[1] = <<p, a + 1>>
    <2>1. s \in Seq(Byte) /\ \A i \in 1 .. n : s[i] = <<p, a + i>>
      BY <1>1, PieceIs
    <2> QED
      BY <1>1, <2>1
  <1> HIDE DEF s
  <1>5. driver \in Seq(Seq(Byte)) /\ DriverIn(driver, sent, unsent)
    BY OfTheSequences DEF IInv
  <1>6. /\ driver' \in Seq(Seq(Byte)) /\ driver' # <<>>
        /\ driver = <<>> => driver'[1] = s
        /\ driver # <<>> => driver'[1] = driver[1]
    <2>1. /\ driver' \in Seq(Seq(Byte)) /\ Len(driver') = Len(driver) + 1
          /\ driver'[Len(driver) + 1] = s /\ Len(driver) \in Nat
          /\ \A j \in 1 .. Len(driver) : driver'[j] = driver[j]
      BY <1>4, <1>5 DEF s
    <2>2. Len(<<>>) = 0 /\ 0 + 1 = 1
      OBVIOUS
    <2>3. driver # <<>> => 1 \in 1 .. Len(driver)
      BY DriverFacts
    <2> QED
      BY <2>1, <2>2, <2>3
  <1>7. DriverInv'
    <2>1. DriverIn(driver', sent', unsent')
      BY <1>3, <1>5, DriverGrows
    <2> QED
      BY <1>6, <2>1 DEF DriverInv, DriverIn, IsBlock, BlockIn, Follows,
                        FollowsIn, LengthOf, LengthIn, EndOfDriver
  <1>8. UnsentInv'
    <2>1. IF Len(sent') = 0 THEN 0 = Length[p]
          ELSE Length[sent'[Len(sent')]] = Length[p]
      BY <1>2
    <2>2. Length[p] - Len(unsent') = a + n
      BY <1>1, <1>3
    <2>3. Len(unsent') > 0 =>
            /\ Length[p] - Len(unsent') >= Header
            /\ unsent' = Piece(p, Length[p] - Len(unsent'), Len(unsent'))
      BY <1>3, <2>2
    <2> QED
      BY <1>3, <2>1, <2>3 DEF UnsentInv, LengthOf
  <1>9. /\ Current \in 0 .. Len(sent) /\ Len(received) \in 0 .. Len(sent)
        /\ Reading => Current \in 1 .. Len(sent)
    <2>1. /\ Current \in 0 .. Len(sent) /\ Len(received) \in Nat
          /\ Reading => Current = Len(received) + 1
          /\ ~Reading => Current = Len(received)
      BY SentFacts
    <2> QED
      BY <1>2, <2>1
  <1>10. /\ Current' = Current /\ Reading' = Reading
         /\ LengthOf(Current)' = LengthOf(Current)
         /\ NoRoom' = NoRoom /\ Fetched' = Fetched
    <2>1. Current' = Current /\ Reading' = Reading
      BY DEF Current, Reading
    <2>2. Current = 0 \/ sent'[Current] = sent[Current]
      BY <1>2, <1>9
    <2>3. LengthOf(Current)' = LengthOf(Current)
      BY <2>1, <2>2 DEF LengthOf
    <2> QED
      BY <2>1, <2>3 DEF NoRoom, Fetched, Reading, ring
  <1>11. PlaceInv'
    <2> SUFFICES ASSUME ~NoRoom
                 PROVE  /\ Fetched <= LengthOf(Current)
                        /\ FollowsIn(sent', Current, Fetched, driver'[1][1])
      BY <1>6, <1>10 DEF PlaceInv, Follows, FollowsIn, LengthOf, LengthIn
    <2>1. Fetched <= LengthOf(Current)
      BY DEF IInv, PlaceInv
    <2>2. CASE driver = <<>>
      <3>1. Current = Len(sent)
            /\ Fetched = LengthIn(sent, Len(sent)) - Len(unsent)
        BY <2>2, OfTheSequences DEF IInv, PlaceInv
      <3> QED
        BY <1>4, <1>6, <2>1, <2>2, <3>1
    <2>3. CASE driver # <<>>
      <3>1. FollowsIn(sent, Current, Fetched, driver[1][1])
        BY <2>3, OfTheSequences DEF IInv, PlaceInv
      <3>2. Current = 0 => Fetched \in Nat
        BY <1>9, SentFacts DEF Fetched
      <3> QED
        BY <1>6, <1>9, <2>1, <2>3, <3>1, <3>2, FollowsGrows
    <2> QED
      BY <2>2, <2>3
  <1>12. ReadInv'
    <2>1. Current' <= Len(sent')
      BY <1>2, <1>9, <1>10 DEF Grows
    <2>2. Contents' = Contents
      BY DEF ring, Contents, Round
    <2>3. Reading => sent'[Current'] = sent[Current]
      BY <1>2, <1>9, <1>10
    <2> QED
      BY <1>10, <2>1, <2>2, <2>3 DEF IInv, ReadInv, Reading, ring
  <1>13. ReceivedInv'
    <2>1. \A i \in 1 .. Len(received) : sent'[i] = sent[i]
      BY <1>2, <1>9
    <2> QED
      BY <2>1 DEF IInv, ReceivedInv
  <1>14. AnswerInv'
    <2>1. Len(arrived) \in 0 .. Len(sent)
      <3>1. Len(arrived) \in Nat
            /\ (Len(arrived) = Len(received) \/ Len(arrived) = Len(received) - 1)
        BY DEF IInv, AnswerInv
      <3> QED
        BY <1>2, <1>9, <3>1
    <2>2. \A i \in 1 .. Len(arrived) : sent'[i] = sent[i]
      BY <1>2, <2>1
    <2>3. Len(received) > 0 => sent'[Len(received)] = sent[Len(received)]
      BY <1>2, <1>9
    <2> QED
      BY <2>2, <2>3 DEF IInv, AnswerInv
  <1>15. RingInv'
    BY DEF IInv, RingInv, ring
  <1> QED
    BY <1>7, <1>8, <1>11, <1>12, <1>13, <1>14, <1>15 DEF IInv

LEMMA Keeps_HostSends ==
  ASSUME IInv, NEW p \in Packet, NEW n \in Sizes, HostSends(p, n)
  PROVE  IInv'
  <1>1. /\ unsent = <<>> /\ p \notin ToSet(sent) /\ n \in Header .. Length[p]
        /\ n <= Size
        /\ driver' = Append(driver, SubSeq(Bytes(p), 1, n))
        /\ unsent' = SubSeq(Bytes(p), n + 1, Len(Bytes(p)))
        /\ UNCHANGED <<ring, pc, msg, unwritten, received, arrived>>
        /\ sent' = Append(sent, p)
    BY DEF HostSends, SendBlock
  <1>2. sent \in Seq(Packet) /\ Len(sent) \in Nat
    BY SentFacts
  <1>3. /\ sent' \in Seq(Packet) /\ Len(sent') = Len(sent) + 1
        /\ sent'[Len(sent) + 1] = p
        /\ \A i \in 1 .. Len(sent) : sent'[i] = sent[i]
    BY <1>1, <1>2
  <1>4. Grows(sent, sent') /\ Len(sent') > 0 /\ sent'[Len(sent')] = p
    BY <1>2, <1>3 DEF Grows
  <1>5. SentInv'
    <2>1. \A i \in 1 .. Len(sent) : sent[i] # p
      BY <1>1, <1>2 DEF ToSet
    <2>2. \A i, j \in 1 .. Len(sent) : sent[i] = sent[j] => i = j
      BY DEF IInv, SentInv
    <2>3. \A i \in 1 .. Len(sent') : i \in 1 .. Len(sent) \/ i = Len(sent) + 1
      BY <1>2, <1>3
    <2> QED
      BY <1>3, <2>1, <2>2, <2>3 DEF SentInv
  <1>6. /\ Length[p] \in Nat /\ Header \in Nat \ {0} /\ n \in Nat \ {0}
        /\ n \in 1 .. Size /\ n \in Header .. Length[p]
        /\ 0 + n <= Length[p] /\ 0 + n = n /\ Length[p] <= Length[p]
        /\ 0 \in 0 .. Length[p] /\ n \in 0 .. Length[p] - 0
        /\ 0 + 1 = 1 /\ Length[p] - 0 = Length[p] /\ Header <= 0 + n
    BY <1>1, PacketFacts, SizeAssumption
  <1>7. Bytes(p) = Piece(p, 0, Length[p] - 0) /\ Len(Bytes(p)) = Length[p] - 0
    <2>1. 0 \in Nat /\ 0 + Length[p] <= Length[p]
      BY <1>6
    <2>2. Len(Piece(p, 0, Length[p])) = Length[p]
      BY <1>6, <2>1, PieceIs
    <2> QED
      BY <1>6, <2>2 DEF Bytes
  <1>8. /\ SubSeq(Piece(p, 0, Length[p] - 0), 1, n) = Piece(p, 0, n)
        /\ SubSeq(Piece(p, 0, Length[p] - 0), n + 1, Length[p] - 0)
             = Piece(p, 0 + n, Length[p] - (0 + n))
    BY <1>6, PieceSplits
  <1>9. /\ driver' = Append(driver, Piece(p, 0, n))
        /\ unsent' = Piece(p, 0 + n, Length[p] - (0 + n))
    BY <1>1, <1>7, <1>8
  <1>10. FollowsIn(sent', Len(sent), LengthIn(sent, Len(sent)) - Len(unsent),
                   <<p, 0 + 1>>)
    <2>1. LengthIn(sent, Len(sent)) \in Nat
          /\ LengthIn(sent', Len(sent)) = LengthIn(sent, Len(sent))
      <3>1. Len(sent) # 0 => Len(sent) \in 1 .. Len(sent)
        BY <1>2
      <3> QED
        <4>1. CASE Len(sent) = 0
          BY <4>1 DEF LengthIn
        <4>2. CASE Len(sent) # 0
          <5>1. sent[Len(sent)] \in Packet /\ sent'[Len(sent)] = sent[Len(sent)]
            BY <1>2, <1>3, <3>1, <4>2
          <5> QED
            BY <4>2, <5>1, PacketFacts DEF LengthIn
        <4> QED
          BY <4>1, <4>2
    <2>2. Len(<<>>) = 0
      OBVIOUS
    <2>3. LengthIn(sent, Len(sent)) - Len(unsent) = LengthIn(sent, Len(sent))
      BY <1>1, <2>1, <2>2
    <2>4. Len(sent) < Len(sent')
      BY <1>2, <1>3
    <2> QED
      BY <1>3, <1>6, <2>1, <2>3, <2>4 DEF FollowsIn
  <1>11. 0 \in Nat /\ (0 = 0 => Header <= n)
    BY <1>6
  <1> QED
    BY <1>1, <1>4, <1>5, <1>6, <1>9, <1>10, <1>11, SendKeeps

LEMMA Keeps_HostSendsMore ==
  ASSUME IInv, NEW n \in Sizes, HostSendsMore(n)
  PROVE  IInv'
  <1> DEFINE M == Len(sent)
             p == sent[M]
             a == Length[p] - Len(unsent)
  <1>1. /\ n \in 1 .. Len(unsent) /\ n <= Size
        /\ driver' = Append(driver, SubSeq(unsent, 1, n))
        /\ unsent' = SubSeq(unsent, n + 1, Len(unsent))
        /\ UNCHANGED <<ring, pc, msg, unwritten, received, arrived>>
        /\ sent' = sent
    BY DEF HostSendsMore, SendBlock
  <1>2. unsent \in Seq(Byte) /\ Len(unsent) \in Nat \ {0} /\ unsent # <<>>
    <2>1. unsent \in Seq(Byte) /\ Len(unsent) \in Nat
      BY DEF IInv, UnsentInv
    <2>2. Len(<<>>) = 0 /\ Len(unsent) # 0
      BY <1>1, <2>1
    <2> QED
      BY <2>1, <2>2
  <1>3. M \in 1 .. M /\ p \in Packet /\ LengthOf(M) = Length[p]
    <2>1. M > 0 /\ M \in Nat
      BY <1>2, SentFacts DEF IInv, UnsentInv
    <2> QED
      BY <2>1, SentFacts
  <1>4. a >= Header /\ unsent = Piece(p, a, Len(unsent))
    BY <1>2, <1>3 DEF IInv, UnsentInv
  <1> HIDE DEF M, p
  <1>5. /\ Length[p] \in Nat /\ Header \in Nat \ {0} /\ Len(unsent) \in Nat \ {0}
        /\ n \in 1 .. Len(unsent) /\ a >= Header
    BY <1>1, <1>2, <1>3, <1>4, PacketFacts
  <1>6. /\ a \in Nat /\ a # 0 /\ a \in 0 .. Length[p]
        /\ Length[p] - a = Len(unsent)
        /\ n \in 0 .. Length[p] - a /\ a + n <= Length[p]
        /\ Header <= a + n /\ Length[p] <= Length[p] /\ a < Length[p]
    BY <1>5
  <1>7. n \in 1 .. Size
    BY <1>1, <1>5, SizeAssumption
  <1> HIDE DEF a
  <1>8. /\ SubSeq(Piece(p, a, Length[p] - a), 1, n) = Piece(p, a, n)
        /\ SubSeq(Piece(p, a, Length[p] - a), n + 1, Length[p] - a)
             = Piece(p, a + n, Length[p] - (a + n))
    <2>1. /\ p \in Packet /\ Length[p] \in Nat /\ Length[p] <= Length[p]
          /\ a \in 0 .. Length[p] /\ n \in 0 .. Length[p] - a
      BY <1>3, <1>5, <1>6
    <2> QED
      BY <2>1, PieceSplits
  <1>9. /\ driver' = Append(driver, Piece(p, a, n))
        /\ unsent' = Piece(p, a + n, Length[p] - (a + n))
    BY <1>1, <1>4, <1>6, <1>8
  <1>10. Grows(sent, sent') /\ Len(sent') > 0 /\ sent'[Len(sent')] = p
    BY <1>1, <1>3, SentFacts DEF Grows, M, p
  <1>11. SentInv'
    BY <1>1 DEF IInv, SentInv
  <1>12. FollowsIn(sent', Len(sent), LengthIn(sent, Len(sent)) - Len(unsent),
                   <<p, a + 1>>)
    <2>1. LengthIn(sent, M) = Length[p] /\ sent'[M] = p /\ sent' = sent
      BY <1>1, <1>3, OfTheSequences DEF p
    <2>2. LengthIn(sent, M) - Len(unsent) = a
      BY <2>1 DEF a
    <2> QED
      BY <1>6, <2>1, <2>2 DEF FollowsIn, M
  <1>13. a = 0 => Header <= n
    BY <1>6
  <1> QED
    BY <1>1, <1>3, <1>6, <1>7, <1>9, <1>10, <1>11, <1>12, <1>13, SendKeeps

-----------------------------------------------------------------------------
(***************************************************************************)
(* The theorems.                                                           *)
(***************************************************************************)

LEMMA StutterKeeps == ASSUME IInv, UNCHANGED vars PROVE IInv'
  <1>1. UNCHANGED <<driver, unsent, ring, pc, msg, unwritten, sent, received,
                    arrived>>
    BY DEF vars
  <1>2. RingInv'
    BY <1>1 DEF IInv, RingInv, ring
  <1>3. SentInv' /\ UnsentInv' /\ ReceivedInv' /\ AnswerInv'
    BY <1>1 DEF IInv, SentInv, UnsentInv, ReceivedInv, AnswerInv, LengthOf
  <1>4. DriverInv'
    BY <1>1 DEF IInv, DriverInv, IsBlock, Follows, LastOf, EndOfDriver, LengthOf
  <1>5. PlaceInv' /\ ReadInv'
    BY <1>1 DEF IInv, PlaceInv, ReadInv, Follows, LengthOf, NoRoom, Fetched,
                Current, Reading, Contents, Round, ring
  <1> QED
    BY <1>2, <1>3, <1>4, <1>5 DEF IInv

\* Every step of the host, of the nub and of InitMetroTRK keeps the invariant.
LEMMA NextKeepsInv == ASSUME PacketsFit, IInv, [Next]_vars PROVE IInv'
  <1>1. CASE \E p \in Packet, n \in Sizes : HostSends(p, n)
    BY <1>1, Keeps_HostSends
  <1>2. CASE HostMore
    BY <1>2, Keeps_HostSendsMore DEF HostMore
  <1>3. CASE Nub
    <2>1. CASE gdev_cc_peek
      BY <2>1, Keeps_gdev_cc_peek
    <2>2. CASE gdev_cc_read_Fetch
      BY <2>2, Keeps_gdev_cc_read_Fetch
    <2>3. CASE TRKTestForPacket_Header
      BY <2>3, Keeps_TRKTestForPacket_Header
    <2>4. CASE TRKTestForPacket_Body
      BY <2>4, Keeps_TRKTestForPacket_Body
    <2>5. CASE TRK_MessageSend
      BY <2>5, Keeps_TRK_MessageSend
    <2>6. CASE \E n \in 1 .. Header : gdev_cc_write(n)
      BY <2>6, Keeps_gdev_cc_write
    <2>7. CASE gdev_cc_write_Refused
      BY <2>7, Keeps_gdev_cc_write_Refused
    <2> QED
      BY <1>3, <2>1, <2>2, <2>3, <2>4, <2>5, <2>6, <2>7 DEF Nub
  <1>4. CASE gdev_cc_initialize
    BY <1>4, Keeps_gdev_cc_initialize
  <1>5. CASE UNCHANGED vars
    BY <1>5, StutterKeeps
  <1> QED
    BY <1>1, <1>2, <1>3, <1>4, <1>5 DEF Next

\* The parts of the invariant hold in every state of gdev_cc and
\* TRKTestForPacket, whatever the host and the driver do.
THEOREM TransportInvariant == ASSUME PacketsFit PROVE Spec => []IInv
  <1>1. Init => IInv
    BY InitHolds
  <1>2. IInv /\ [Next]_vars => IInv'
    BY NextKeepsInv
  <1> QED
    BY <1>1, <1>2, PTL DEF Spec

\* TRKTestForPacket returns the packets of the host whole and in order,
\* however gdev_cc_read finds them divided.
THEOREM PacketsComeWhole == ASSUME PacketsFit PROVE Spec => []PacketsIntact
  <1>1. IInv => PacketsIntact
    <2> SUFFICES ASSUME IInv PROVE PacketsIntact
      OBVIOUS
    <2>1. received \in Seq(Seq(Byte))
          /\ \A i \in 1 .. Len(received) : IsPrefix(Bytes(sent[i]), received[i])
      BY DEF IInv, ReceivedInv
    <2>2. Len(received) <= Len(sent)
      BY SentFacts
    <2> QED
      BY <2>1, <2>2 DEF PacketsIntact
  <1> QED
    BY <1>1, TransportInvariant, PTL

\* The circle buffer is empty whenever TRKTestForPacket has ended: it never
\* keeps bytes that gdev_cc_peek would not see.
THEOREM NothingStaysBehind ==
  ASSUME PacketsFit PROVE Spec => []NothingIsLeftBehind
  <1>1. IInv => NothingIsLeftBehind
    <2> SUFFICES ASSUME IInv PROVE NothingIsLeftBehind
      OBVIOUS
    <2>1. pc \in {"idle", "received", "write"} => forRead = 0
      BY DEF IInv, ReadInv, Reading
    <2>2. ASSUME pc = "body" PROVE Len(msg) = Header
      <3>1. Current \in 1 .. Len(sent) /\ msg = Piece(sent[Current], 0, Header)
        BY <2>2, WantedIs DEF IInv, ReadInv, Reading
      <3>2. /\ sent[Current] \in Packet /\ Header \in Nat /\ 0 \in Nat
            /\ 0 + Header <= Length[sent[Current]]
        BY <3>1, SentFacts, PacketFacts
      <3> QED
        BY <3>1, <3>2, PieceIs
    <2> QED
      BY <2>1, <2>2 DEF NothingIsLeftBehind
  <1> QED
    BY <1>1, TransportInvariant, PTL

\* What gdev_cc_write sends of an answer is a prefix of it, and all of it
\* unless the driver took nothing.
THEOREM AnswersComeWhole == ASSUME PacketsFit PROVE Spec => []AnswersIntact
  <1>1. IInv => AnswersIntact
    <2> SUFFICES ASSUME IInv, NEW i \in 1 .. Len(arrived)
                 PROVE  /\ IsPrefix(arrived[i].bytes, ReplyTo(sent[i]))
                        /\ \/ arrived[i].bytes = ReplyTo(sent[i])
                           \/ arrived[i].refused
                           \/ i = Len(arrived) /\ pc = "write"
      BY DEF AnswersIntact, IInv, AnswerInv
    <2>1. i \in 1 .. Len(received)
      BY SentFacts DEF IInv, AnswerInv
    <2>2. /\ sent[i] \in Packet /\ Header \in Nat \ {0}
          /\ Header <= Length[sent[i]] /\ Length[sent[i]] \in Nat
      BY <2>1, AnsweredFacts
    <2>3. ReplyTo(sent[i]) = Piece(sent[i], 0, Header)
      BY <2>2, ReplyIs
    <2>4. PICK n \in 0 .. Header :
            /\ arrived[i].bytes = Piece(sent[i], 0, n)
            /\ \/ i = Len(arrived) /\ pc = "write"
               \/ n = Header
               \/ arrived[i].refused
      BY DEF IInv, AnswerInv
    <2>5. IsPrefix(Piece(sent[i], 0, n), Piece(sent[i], 0, Header))
      <3>1. /\ 0 \in Nat /\ n \in Nat /\ n <= Header /\ Header \in Nat
            /\ 0 + n <= Length[sent[i]] /\ 0 + Header <= Length[sent[i]]
        BY <2>2
      <3>2. /\ Piece(sent[i], 0, n) \in Seq(Byte)
            /\ Len(Piece(sent[i], 0, n)) = n
            /\ \A k \in 1 .. n : Piece(sent[i], 0, n)[k] = <<sent[i], 0 + k>>
        BY <2>2, <3>1, PieceIs
      <3>3. /\ Piece(sent[i], 0, Header) \in Seq(Byte)
            /\ Len(Piece(sent[i], 0, Header)) = Header
            /\ \A k \in 1 .. Header :
                 Piece(sent[i], 0, Header)[k] = <<sent[i], 0 + k>>
        BY <2>2, <3>1, PieceIs
      <3>4. \A k \in 1 .. n :
              Piece(sent[i], 0, n)[k] = Piece(sent[i], 0, Header)[k]
        <4>1. \A k \in 1 .. n : k \in 1 .. Header
          BY <3>1
        <4> QED
          BY <4>1 DEF Piece
      <3> QED
        BY <3>1, <3>2, <3>3, <3>4, PrefixIs
    <2> QED
      BY <2>3, <2>4, <2>5
  <1> QED
    BY <1>1, TransportInvariant, PTL

\* RingInv of the circle buffer holds in this use of it, too.
THEOREM RingStaysSound == ASSUME PacketsFit PROVE Spec => []RingInv
  <1>1. IInv => RingInv
    BY DEF IInv
  <1> QED
    BY <1>1, TransportInvariant, PTL

\* As gdev_cc_read and gdev_cc_peek use it, the circle buffer is a FIFO of
\* bytes: each step is a Put, a Get, or leaves it alone.  A nub that starts
\* again finds it empty.
THEOREM TransportUsesFifo == ASSUME PacketsFit PROVE Spec => FifoSpec
  <1>1. Init => Fifo!Init
    BY DEF Init, CircleBufferInitialize, Contents, Fifo!Init, Fifo!Refused,
           Refused
  <1>2. IInv /\ [Next]_vars => [Fifo!Next]_(Fifo!vars)
    <2> SUFFICES ASSUME IInv, [Next]_vars PROVE [Fifo!Next]_(Fifo!vars)
      OBVIOUS
    <2>1. ASSUME NEW n \in Nat, Fetch(n) PROVE Fifo!Next
      BY <2>1, FetchIsPut DEF Fifo!Next
    <2>2. ASSUME Reading, Take PROVE Fifo!Next
      BY <2>2, TakeIs DEF Fifo!Next
    <2>3. ASSUME UNCHANGED ring PROVE UNCHANGED Fifo!vars
      BY <2>3 DEF ring, Fifo!vars, Contents, Round
    <2>4. CASE \E p \in Packet, n \in Sizes : HostSends(p, n)
      BY <2>3, <2>4 DEF HostSends, SendBlock
    <2>5. CASE HostMore
      BY <2>3, <2>5 DEF HostMore, HostSendsMore, SendBlock
    <2>6. CASE Nub
      <3>1. CASE gdev_cc_peek
        <4>1. Len(Head(driver)) \in Nat
          BY <3>1, DriverFacts, BlockIs, SizeAssumption DEF gdev_cc_peek, Fetch
        <4> QED
          BY <2>1, <3>1, <4>1 DEF gdev_cc_peek
      <3>2. CASE gdev_cc_read_Fetch
        <4>1. Wanted \in Nat
          BY <3>2, WantedIs DEF gdev_cc_read_Fetch, Reading
        <4> QED
          BY <2>1, <3>2, <4>1 DEF gdev_cc_read_Fetch
      <3>3. CASE TRKTestForPacket_Header \/ TRKTestForPacket_Body
        BY <2>2, <3>3
           DEF TRKTestForPacket_Header, TRKTestForPacket_Body, Reading
      <3>4. CASE TRK_MessageSend
        BY <2>3, <3>4 DEF TRK_MessageSend
      <3>5. CASE \E n \in 1 .. Header : gdev_cc_write(n)
        BY <2>3, <3>5 DEF gdev_cc_write
      <3>6. CASE gdev_cc_write_Refused
        BY <2>3, <3>6 DEF gdev_cc_write_Refused
      <3> QED
        BY <2>6, <3>1, <3>2, <3>3, <3>4, <3>5, <3>6 DEF Nub
    <2>7. CASE gdev_cc_initialize
      <3>1. forRead = 0 /\ forRead' = 0 /\ answer' = answer
        BY <2>7 DEF gdev_cc_initialize, IInv, ReadInv, Reading
      <3>2. Contents = <<>> /\ Contents' = <<>>
        BY <3>1 DEF Contents
      <3> QED
        BY <3>1, <3>2 DEF Fifo!vars
    <2>8. CASE UNCHANGED vars
      BY <2>3, <2>8 DEF vars
    <2> QED
      BY <2>4, <2>5, <2>6, <2>7, <2>8 DEF Next
  <1> QED
    BY <1>1, <1>2, TransportInvariant, PTL DEF Spec, FifoSpec, Fifo!Spec
=============================================================================
