---------------------------- MODULE TransportInv ----------------------------
(***************************************************************************)
(* The inductive invariant of Transport.                                   *)
(*                                                                         *)
(* What the host has sent and the nub not received is in three places: the *)
(* rest of the packet it is sending, the blocks in the driver, the circle  *)
(* buffer.  The parts below say that each block is a piece of one packet   *)
(* and that each place goes on where the one before it ends, which is      *)
(* what makes the bytes that TRKTestForPacket counts out those of one      *)
(* packet.                                                                 *)
(***************************************************************************)
EXTENDS Transport

\* Every packet fits into a message buffer, as one does that has 2 KiB of data.
PacketsFit == \A p \in Packet : Length[p] <= kMessageBufferSize

\* The length of the i-th packet of the host; before the first there is none.
LengthOf(i) == IF i = 0 THEN 0 ELSE Length[sent[i]]

\* Byte y is the one that the host sent behind the first a bytes of packet i.
Follows(i, a, y) ==
  \/ a < LengthOf(i) /\ y = <<sent[i], a + 1>>
  \/ a = LengthOf(i) /\ i < Len(sent) /\ y = <<sent[i + 1], 1>>

SentInv ==
  /\ sent \in Seq(Packet)
  /\ \A i, j \in 1 .. Len(sent) : sent[i] = sent[j] => i = j

\* The host has begun the packet that it has not sent all of.
UnsentInv ==
  /\ unsent \in Seq(Byte)
  /\ unsent # <<>> => Len(sent) > 0
  /\ LET n == Len(unsent)
         a == LengthOf(Len(sent)) - n
     IN  n > 0 => a >= Header /\ unsent = Piece(sent[Len(sent)], a, n)

\* A block is a piece of one packet, and a first piece has the whole header.
IsBlock(s) ==
  /\ Len(s) \in 1 .. Size
  /\ \E i \in 1 .. Len(sent) : s[1][1] = sent[i]
  /\ s[1][2] \in Nat \ {0}
  /\ s[1][2] + Len(s) - 1 <= Length[s[1][1]]
  /\ s[1][2] = 1 => Len(s) >= Header
  /\ s = Piece(s[1][1], s[1][2] - 1, Len(s))

LastOf(s) == s[Len(s)]

\* Where the bytes end that the driver was given.
EndOfDriver == <<sent[Len(sent)], LengthOf(Len(sent)) - Len(unsent)>>

DriverInv ==
  /\ driver \in Seq(Seq(Byte))
  /\ \A j \in 1 .. Len(driver) : IsBlock(driver[j])
  /\ \A j \in 1 .. Len(driver) - 1 :
       \E i \in 1 .. Len(sent) :
         /\ driver[j][1][1] = sent[i]
         /\ Follows(i, LastOf(driver[j])[2], driver[j + 1][1])
  /\ driver # <<>> => LastOf(driver[Len(driver)]) = EndOfDriver

\* The packet that is being read, or the last one that was, and how many of
\* its bytes have left the driver.
Reading == pc \in {"header", "body"}

Current == IF Reading THEN Len(received) + 1 ELSE Len(received)

Fetched ==
  IF ~Reading THEN LengthOf(Current)
  ELSE IF pc = "header" THEN forRead ELSE Header + forRead

\* A body for which the ring has no room is never complete.
NoRoom == pc = "body" /\ LengthOf(Current) - Header > Size

\* The driver goes on where the nub is.
PlaceInv ==
  ~NoRoom =>
    /\ Fetched <= LengthOf(Current)
    /\ driver = <<>> =>
         Current = Len(sent) /\ Fetched = LengthOf(Current) - Len(unsent)
    /\ driver # <<>> => Follows(Current, Fetched, driver[1][1])

\* What is in the ring, and in the message, while a packet is being read.
ReadInv ==
  /\ pc \in {"idle", "header", "body", "received", "write"}
  /\ Current <= Len(sent)
  /\ ~Reading => forRead = 0
  /\ pc = "header" =>
       Header <= forRead /\ Contents = Piece(sent[Current], 0, forRead)
  /\ pc = "body" =>
       /\ LengthOf(Current) > Header
       /\ msg = Piece(sent[Current], 0, Header)
       /\ ~NoRoom => Contents = Piece(sent[Current], Header, forRead)

ReceivedInv ==
  /\ received \in Seq(Seq(Byte))
  /\ \A i \in 1 .. Len(received) : IsPrefix(Bytes(sent[i]), received[i])

\* One answer for each packet, but for the one that is being handled.
AnswerInv ==
  /\ arrived \in Seq([bytes : Seq(Byte), refused : BOOLEAN])
  /\ Len(arrived) = IF pc = "received" THEN Len(received) - 1 ELSE Len(received)
  /\ pc = "received" => Len(received) > 0 /\ msg[1] = <<sent[Len(received)], 1>>
  /\ pc = "write" => Len(arrived) > 0 /\ Len(unwritten) \in 1 .. Header
  /\ \A i \in 1 .. Len(arrived) :
       \E n \in 0 .. Header :
         /\ arrived[i].bytes = Piece(sent[i], 0, n)
         /\ IF i = Len(arrived) /\ pc = "write"
            THEN unwritten = Piece(sent[i], n, Header - n)
            ELSE n = Header \/ arrived[i].refused

\* The inductive invariant.
IInv ==
  /\ RingInv
  /\ SentInv
  /\ UnsentInv
  /\ DriverInv
  /\ PlaceInv
  /\ ReadInv
  /\ ReceivedInv
  /\ AnswerInv
=============================================================================
