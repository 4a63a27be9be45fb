---------------------------- MODULE CircleBuffer ----------------------------
(***************************************************************************)
(* The ring of bytes that the connection library fills with the blocks it  *)
(* reads from the hardware and empties in the pieces the nub asks for:     *)
(* packets wrap over its end at any place.  Positions are offsets from     *)
(* buffer[2], the start of the memory it is given.  Transport makes the    *)
(* calls that gdev_cc_peek and gdev_cc_read make; CircleBufferNext allows  *)
(* all.                                                                    *)
(***************************************************************************)
EXTENDS Naturals, Sequences

CONSTANTS
  Size,        \* buffer[3]
  Byte,
  Blocks,      \* the blocks that are written
  Lengths      \* the lengths that are read

ASSUME SizeAssumption == Size \in Nat \ {0}
ASSUME CallsAssumption == Blocks \subseteq Seq(Byte) /\ Lengths \subseteq Nat

VARIABLES
  memory,      \* the bytes at buffer[2]
  readPos,     \* buffer[0]
  writePos,    \* buffer[1]
  forRead,     \* buffer[4]
  forWrite,    \* buffer[5]
  answer       \* history: whether the last call was refused, and what it read

CircleBufferVars == <<memory, readPos, writePos, forRead, forWrite, answer>>

Accepted(s) == [ok |-> TRUE, data |-> s]
Refused     == [ok |-> FALSE, data |-> <<>>]

Offsets == 0 .. Size - 1

\* The memory is uninitialised.
CircleBufferInitialize ==
  /\ memory \in [Offsets -> Byte]
  /\ readPos = 0
  /\ writePos = 0
  /\ forRead = 0
  /\ forWrite = Size
  /\ answer = Refused

\* What memory holds after s is copied to position p.
memcpy(p, s) ==
  [i \in Offsets |-> IF p <= i /\ i < p + Len(s) THEN s[i - p + 1] ELSE memory[i]]

\* The same where s is cut at the end of the memory, its first n bytes going
\* there and the rest to the start.
memcpyTwice(p, s, n) ==
  [i \in Offsets |->
     IF i < Len(s) - n THEN s[n + i + 1]
     ELSE IF p <= i /\ i < p + n THEN s[i - p + 1]
     ELSE memory[i]]

\* n bytes of memory from position p.
BytesAt(p, n) == [i \in 1 .. n |-> memory[p + i - 1]]

\* A position at the end of the memory is the start.
AtEnd(p) == IF p = Size THEN 0 ELSE p

CircleBufferWriteBytes(data) ==
  LET length == Len(data)
      size   == Size - writePos
  IN  IF length > forWrite
      THEN /\ answer' = Refused
           /\ UNCHANGED <<memory, readPos, writePos, forRead, forWrite>>
      ELSE /\ IF size >= length
              THEN /\ memory' = memcpy(writePos, data)
                   /\ writePos' = AtEnd(writePos + length)
              ELSE /\ memory' = memcpyTwice(writePos, data, size)
                   /\ writePos' = AtEnd(length - size)
           /\ forWrite' = forWrite - length
           /\ forRead' = forRead + length
           /\ answer' = Accepted(<<>>)
           /\ UNCHANGED readPos

\* The part at the start of the memory is one byte short.
Bug_CircleBufferReadBytes(length) ==
  LET size == Size - readPos
  IN  IF length > forRead
      THEN /\ answer' = Refused
           /\ UNCHANGED <<memory, readPos, writePos, forRead, forWrite>>
      ELSE /\ IF length < size
              THEN /\ answer' = Accepted(BytesAt(readPos, length))
                   /\ readPos' = AtEnd(readPos + length)
              ELSE /\ answer' = Accepted(BytesAt(readPos, size)
                                         \o BytesAt(0, length - size - 1))
                   /\ readPos' = AtEnd(length - size)
           /\ forWrite' = forWrite + length
           /\ forRead' = forRead - length
           /\ UNCHANGED <<memory, writePos>>

CircleBufferReadBytes(length) ==
  LET size == Size - readPos
  IN  IF length > forRead
      THEN /\ answer' = Refused
           /\ UNCHANGED <<memory, readPos, writePos, forRead, forWrite>>
      ELSE /\ IF length < size
              THEN /\ answer' = Accepted(BytesAt(readPos, length))
                   /\ readPos' = AtEnd(readPos + length)
              ELSE /\ answer' = Accepted(BytesAt(readPos, size)
                                         \o BytesAt(0, length - size))
                   /\ readPos' = AtEnd(length - size)
           /\ forWrite' = forWrite + length
           /\ forRead' = forRead - length
           /\ UNCHANGED <<memory, writePos>>

CircleBufferNext ==
  \/ \E data \in Blocks : CircleBufferWriteBytes(data)
  \/ \E length \in Lengths : CircleBufferReadBytes(length)

CircleBufferSpec == CircleBufferInitialize /\ [][CircleBufferNext]_CircleBufferVars

-----------------------------------------------------------------------------
(***************************************************************************)
(* What must hold.                                                         *)
(***************************************************************************)

\* The position i bytes after p, round the ring.
Round(p, i) == IF p + i < Size THEN p + i ELSE p + i - Size

\* The counters and the positions, kept apart by the code, say the same.
RingInv ==
  /\ memory \in [Offsets -> Byte]
  /\ readPos \in Offsets
  /\ writePos \in Offsets
  /\ forRead \in 0 .. Size
  /\ forWrite = Size - forRead
  /\ writePos = Round(readPos, forRead)

\* The bytes between the read and the write position, oldest first.
Contents == [i \in 1 .. forRead |-> memory[Round(readPos, i - 1)]]

\* The ring is a FIFO of Size bytes, whatever the blocks and the pieces: no
\* byte is lost, repeated or out of order where it wraps, and a call fails
\* only for want of room or of bytes.
Fifo == INSTANCE BoundedFifo
          WITH Capacity <- Size, Batches <- Blocks, Amounts <- Lengths,
               items <- Contents

FifoSpec == Fifo!Spec
=============================================================================
