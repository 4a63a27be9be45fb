----------------------------- MODULE MessageBuffer -----------------------------
(***************************************************************************)
(* One message buffer of the pool, and the sending of it: data of several  *)
(* widths are put at its end and taken from its position on.               *)
(*                                                                         *)
(* A value is a sequence of bytes, the most significant first, and the     *)
(* processor keeps it so (gTRKBigEndian): the code that swaps bytes is not *)
(* reached.  An array is the bytes of its elements, as it lies in memory.  *)
(* The two copies of each of AppendBuffer and ReadBuffer do the same.      *)
(***************************************************************************)
EXTENDS Integers, Sequences, FiniteSetsExt

CONSTANTS
  Size,      \* kMessageBufferSize
  Header,    \* sizeof(msgbuf_t)
  NumberAt,  \* index of the number in a message
  MaxNumber, \* of 16 bits
  Widths,    \* of the data, in bytes
  Bytes,     \* what a byte may be
  MaxCount   \* elements of an array

ASSUME BufferAssumption ==
  /\ Size \in Nat /\ Header \in 1 .. Size /\ NumberAt \in 0 .. Header - 1
  /\ MaxNumber \in Nat \ {0} /\ Widths \subseteq Nat \ {0} /\ MaxCount \in Nat

VARIABLES
  fLength,
  fPosition,
  fData,
  gPacketSeq,
  result      \* history: what the last call was asked for, and returned

vars == <<fLength, fPosition, fData, gPacketSeq, result>>

Stale == <<"stale", 0>>

Init ==
  /\ fLength = 0
  /\ fPosition = 0
  /\ fData = [i \in 0 .. Size - 1 |-> Stale]
  /\ gPacketSeq = 0
  /\ result = [err |-> "kNoError", asked |-> 0, bytes |-> <<>>]

\* The fields of the buffer, as a call finds or leaves them, with its error and
\* the bytes that it took.
Buffer == [length |-> fLength, position |-> fPosition, data |-> fData,
           err |-> "kNoError", bytes |-> <<>>]

Leaves(b, asked) ==
  /\ fLength' = b.length
  /\ fPosition' = b.position
  /\ fData' = b.data
  /\ result' = [err |-> b.err, asked |-> asked, bytes |-> b.bytes]
  /\ UNCHANGED gPacketSeq

\* When it is asked to, the data are cleared.
TRKResetBuffer(zero) ==
  Leaves([Buffer EXCEPT !.length = 0, !.position = 0,
                        !.data = IF zero THEN [i \in DOMAIN fData |-> <<"zero", 0>>]
                                 ELSE fData], 0)

\* The callers go to the beginning, or behind the header of a packet.
TRK_SetBufferPosition(position) ==
  /\ position \in {0, Header} /\ position <= fLength
  /\ Leaves([Buffer EXCEPT !.position = position,
                           !.length = IF position > fLength THEN position ELSE fLength], 0)

\* The length stays behind.
Bug_Extended(b, length) == [b EXCEPT !.position = @ + length]

Extended(b, length) ==
  [b EXCEPT !.position = @ + length, !.length = b.position + length]

\* What fits is taken in any case.
AppendBuffer(b, data) ==
  LET remaining == Size - b.position
      length    == Min({remaining, Len(data)})
  IN  IF data = <<>> THEN b
      ELSE [Extended(b, length) EXCEPT
              !.data = [i \in DOMAIN b.data |->
                          IF i - b.position \in 0 .. length - 1
                          THEN data[i - b.position + 1] ELSE b.data[i]],
              !.err = IF remaining < Len(data) THEN "kMessageBufferOverflow"
                      ELSE "kNoError"]

\* A single byte goes a way of its own, and makes the buffer longer by one
\* wherever it is put.
TRKAppendBuffer1_ui8(b, byte) ==
  IF b.position >= Size THEN [b EXCEPT !.err = "kMessageBufferOverflow"]
  ELSE [b EXCEPT !.data[b.position] = byte, !.position = @ + 1, !.length = @ + 1]

TRKAppendBuffer1(b, value) ==
  IF Len(value) = 1 THEN TRKAppendBuffer1_ui8(b, value[1])
  ELSE AppendBuffer(b, value)

\* data[i - 1] of an array of values of that width.
Element(array, width, i) == SubSeq(array, (i - 1) * width + 1, i * width)

\* Element for element, up to the first error.
AppendEach(b, array, width, count) ==
  LET after[i \in 0 .. count] ==
        IF i = 0 THEN b
        ELSE IF after[i - 1].err # "kNoError" THEN after[i - 1]
        ELSE TRKAppendBuffer1(after[i - 1], Element(array, width, i))
  IN  after[count]

\* As in an earlier version: the comparison is the other way round.
Bug_ReadBuffer(b, length) ==
  LET remaining == b.length - b.position
  IN  IF length = 0 THEN b
      ELSE [b EXCEPT !.position = b.length,
                     !.bytes = @ \o [i \in 1 .. remaining |-> b.data[b.position + i - 1]],
                     !.err = IF length < remaining THEN "kMessageBufferUnderflow"
                             ELSE "kNoError"]

\* What there is is taken in any case.
ReadBuffer(b, length) ==
  LET remaining == b.length - b.position
      n         == Min({length, remaining})
  IN  IF length = 0 THEN b
      ELSE [b EXCEPT !.position = @ + n,
                     !.bytes = @ \o [i \in 1 .. n |-> b.data[b.position + i - 1]],
                     !.err = IF length > remaining THEN "kMessageBufferUnderflow"
                             ELSE "kNoError"]

ReadEach(b, width, count) ==
  LET after[i \in 0 .. count] ==
        IF i = 0 THEN b
        ELSE IF after[i - 1].err # "kNoError" THEN after[i - 1]
        ELSE ReadBuffer(after[i - 1], width)
  IN  after[count]

-----------------------------------------------------------------------------
(***************************************************************************)
(* Calls.  Whoever appends does it at the end: to a buffer just taken or   *)
(* reset, or behind what it has appended.                                  *)
(***************************************************************************)

Block(length) == [1 .. length -> Bytes]

TRK_AppendBuffer(data) ==
  /\ fPosition = fLength
  /\ Leaves(AppendBuffer(Buffer, data), Len(data))

TRKAppendBuffer(array, width, count) ==
  /\ fPosition = fLength
  /\ Leaves(AppendEach(Buffer, array, width, count), Len(array))

TRK_ReadBuffer(length) == Leaves(ReadBuffer(Buffer, length), length)

TRKReadBuffer(width, count) ==
  Leaves(ReadEach(Buffer, width, count), count * width)

\* No message has the number zero.
CurrentSequence == IF gPacketSeq = 0 THEN 1 ELSE gPacketSeq

\* The error of the transport is only reported.  The number is written where it
\* belongs, however short the message is.
TRK_MessageSend ==
  LET data == [fData EXCEPT ![NumberAt] = <<"number", CurrentSequence>>]
  IN  /\ fData' = data
      /\ gPacketSeq' = (CurrentSequence + 1) % (MaxNumber + 1)
      /\ result' = [err |-> "kNoError", asked |-> 0,
                    bytes |-> [i \in 1 .. fLength |-> data[i - 1]]]
      /\ UNCHANGED <<fLength, fPosition>>

Next ==
  \/ \E zero \in BOOLEAN : TRKResetBuffer(zero)
  \/ \E position \in {0, Header} : TRK_SetBufferPosition(position)
  \/ \E length \in {0, Header} : \E data \in Block(length) : TRK_AppendBuffer(data)
  \/ \E width \in Widths, count \in 0 .. MaxCount :
       \E array \in Block(count * width) : TRKAppendBuffer(array, width, count)
  \/ \E length \in 0 .. Size : TRK_ReadBuffer(length)
  \/ \E width \in Widths, count \in 0 .. MaxCount : TRKReadBuffer(width, count)
  \/ TRK_MessageSend

Spec == Init /\ [][Next]_vars

-----------------------------------------------------------------------------
(***************************************************************************)
(* What must hold.                                                         *)
(***************************************************************************)

\* Nothing is put or taken beyond the end of the data, and no byte that was left
\* there by an earlier message can be read or sent.
TypeOK ==
  /\ fLength \in 0 .. Size
  /\ fPosition \in 0 .. fLength
  /\ fData \in [0 .. Size - 1 -> Bytes \cup ({"number"} \X (0 .. MaxNumber))
                                  \cup {Stale, <<"zero", 0>>}]
  /\ gPacketSeq \in 0 .. MaxNumber
  /\ \A i \in 0 .. fLength - 1 : fData[i] \in Bytes \cup ({"number"} \X (1 .. MaxNumber))

Stream == INSTANCE MessageStream WITH
  stream <- [i \in 1 .. fLength |-> fData[i - 1]],
  cursor <- fPosition,
  number <- IF gPacketSeq = 0 THEN MaxNumber ELSE gPacketSeq - 1

\* Bytes that an array may have.
ArrayLengths == {count * width : count \in 0 .. MaxCount, width \in Widths}

\* Values of any width, one by one, in arrays or as a block, are a stream of
\* bytes: what was appended is read in this order, and what is sent.
StreamSpec ==
  /\ Stream!StreamInit
  /\ [][Stream!StreamNext({0, Header},
          UNION {Block(length) : length \in ArrayLengths \cup {0, Header}},
          ArrayLengths \cup 0 .. Size)]_vars
=============================================================================
