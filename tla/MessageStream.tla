----------------------------- MODULE MessageStream -----------------------------
(***************************************************************************)
(* What a message buffer promises: a stream of at most Size bytes, which   *)
(* grows at its end, is read from a cursor on, and is sent as a whole with *)
(* a number of its own.  Of the types of the data nothing is left.         *)
(***************************************************************************)
EXTENDS Integers, SequencesExt

CONSTANTS
  Size,     \* bytes that a message may have
  NumberAt, \* index of the number in a message
  MaxNumber \* greatest number

VARIABLES
  stream, \* the bytes
  cursor, \* how many of them have been read
  number, \* of the last message sent
  result  \* what the last call was asked for, and returned

streamVars == <<stream, cursor, number, result>>

StreamInit ==
  /\ stream = <<>>
  /\ cursor = 0
  /\ number = MaxNumber
  /\ result = [err |-> "kNoError", asked |-> 0, bytes |-> <<>>]

Return(err, asked, bytes) ==
  result' = [err |-> err, asked |-> asked, bytes |-> bytes]

Reset ==
  /\ stream' = <<>>
  /\ cursor' = 0
  /\ Return("kNoError", 0, <<>>)
  /\ UNCHANGED number

Seek(position) ==
  /\ position <= Len(stream)
  /\ cursor' = position
  /\ Return("kNoError", 0, <<>>)
  /\ UNCHANGED <<stream, number>>

\* Bytes that do not fit are dropped, and the caller is told.
Put(bytes) ==
  LET all == stream \o bytes
  IN  /\ stream' = SubSeq(all, 1, Min({Size, Len(all)}))
      /\ cursor' = Len(stream')
      /\ Return(IF Len(all) <= Size THEN "kNoError" ELSE "kMessageBufferOverflow",
                Len(bytes), <<>>)
      /\ UNCHANGED number

\* Up to length bytes, and the caller is told when there are less.
Take(length) ==
  LET end == Min({cursor + length, Len(stream)})
  IN  /\ cursor' = end
      /\ Return(IF cursor + length <= Len(stream) THEN "kNoError"
                ELSE "kMessageBufferUnderflow",
                length, SubSeq(stream, cursor + 1, end))
      /\ UNCHANGED <<stream, number>>

\* The number after the last one; zero is none.
Send ==
  /\ number' = (number % MaxNumber) + 1
  /\ stream' = IF NumberAt < Len(stream)
               THEN [stream EXCEPT ![NumberAt + 1] = <<"number", number'>>]
               ELSE stream
  /\ Return("kNoError", 0, stream')
  /\ UNCHANGED cursor

StreamNext(positions, blocks, lengths) ==
  \/ Reset
  \/ \E position \in positions : Seek(position)
  \/ \E bytes \in blocks : Put(bytes)
  \/ \E length \in lengths : Take(length)
  \/ Send
=============================================================================
