------------------------------ MODULE Transport ------------------------------
(***************************************************************************)
(* How the packets of the host come through the driver, the circle buffer  *)
(* and TRKTestForPacket into a message buffer, and how the answers go out. *)
(* The driver holds blocks of bytes; a read takes the oldest one, and a    *)
(* write takes as many bytes as it likes.                                  *)
(*                                                                         *)
(* A buffer for the packet is always free, as TrkNub shows, and a read of  *)
(* the driver that fails leaves the data to be read again.                 *)
(***************************************************************************)
EXTENDS CircleBuffer, SequencesExt

CONSTANTS
  TRK_MSG_HEADER_LENGTH,
  kMessageBufferSize,
  Packet,          \* the packets of the host, told apart by their number
  Length,          \* the length of each
  MaxUnread        \* blocks in the driver

Header == TRK_MSG_HEADER_LENGTH

ASSUME TransportAssumption ==
  /\ Packet \subseteq Nat \ {0}
  /\ Length \in [Packet -> Nat \ {0}]
  /\ Header \in Nat \ {0}
  /\ kMessageBufferSize \in Nat
  /\ \A p \in Packet : Header <= Length[p]

Stale == <<0, 0>>

Sizes == 0 .. Size

\* A byte is known by its packet and its place in it: n bytes of p behind the
\* first a.  The first byte of a packet, and only that, says how long it is.
Piece(p, a, n) == [k \in 1 .. n |-> <<p, a + k>>]

\* A read of the driver leaves some bytes of one packet in a buffer, and what
\* was there behind them.
ASSUME BytesAssumption ==
  /\ Stale \in Byte
  /\ \A p \in Packet : \A k \in 1 .. Length[p] : <<p, k>> \in Byte
  /\ \A p \in Packet, m \in Sizes : \A a \in 0 .. Length[p] :
       \A n \in 0 .. Length[p] - a :
         [k \in 1 .. m |-> IF k <= n THEN <<p, a + k>> ELSE Stale] \in Blocks
  /\ Sizes \subseteq Lengths

VARIABLES
  driver,      \* the blocks that the driver holds
  unsent,      \* the bytes of a packet that the host has not sent yet
  pc,          \* where the nub is in TRKTestForPacket, or in the answer
  msg,         \* fData of the message buffer, up to fLength
  unwritten,   \* buffer and length of gdev_cc_write
  sent,        \* history: the packets of the host
  received,    \* history: the messages that TRKTestForPacket returned
  arrived      \* history: the bytes of each answer that the host got, and
               \* whether the driver took nothing when asked for more

ring == <<memory, readPos, writePos, forRead, forWrite, answer>>

vars == <<driver, unsent, ring, pc, msg, unwritten, sent, received, arrived>>

Bytes(p) == Piece(p, 0, Length[p])

\* The answer to a packet is a header.
ReplyTo(p) == SubSeq(Bytes(p), 1, Header)

\* gRecvBuf is static.
Init ==
  /\ driver = <<>>
  /\ unsent = <<>>
  /\ memory = [i \in Offsets |-> Stale]
  /\ CircleBufferInitialize
  /\ pc = "idle"
  /\ msg = <<>>
  /\ unwritten = <<>>
  /\ sent = <<>>
  /\ received = <<>>
  /\ arrived = <<>>

-----------------------------------------------------------------------------
(***************************************************************************)
(* The host sends a packet in one block, or in several, of which the first *)
(* holds the whole header.                                                 *)
(***************************************************************************)

SendBlock(bytes, n) ==
  /\ Len(driver) < MaxUnread
  /\ n <= Size                 \* what the stack buffer of gdev_cc_peek holds
  /\ driver' = Append(driver, SubSeq(bytes, 1, n))
  /\ unsent' = SubSeq(bytes, n + 1, Len(bytes))
  /\ UNCHANGED <<ring, pc, msg, unwritten, received, arrived>>

HostSends(p, n) ==
  /\ unsent = <<>>
  /\ p \notin ToSet(sent)
  /\ n \in Header .. Length[p]
  /\ SendBlock(Bytes(p), n)
  /\ sent' = Append(sent, p)

HostSendsMore(n) ==
  /\ n \in 1 .. Len(unsent)
  /\ SendBlock(unsent, n)
  /\ UNCHANGED sent

-----------------------------------------------------------------------------
(***************************************************************************)
(* gdev_cc_peek and gdev_cc_read.                                          *)
(***************************************************************************)

\* DBRead of n bytes into a buffer of which m bytes are used then.
DBRead(n, m) ==
  [i \in 1 .. m |-> IF i <= n THEN Head(driver)[i] ELSE Stale]

\* The oldest block goes to the circle buffer.  A block for which that has no
\* room is lost: nobody looks at the error.
Fetch(n) ==
  /\ driver # <<>>
  /\ CircleBufferWriteBytes(DBRead(n, Len(Head(driver))))
  /\ driver' = Tail(driver)

\* One byte of the body is left.
Bug_Wanted ==
  IF pc = "header" THEN Header ELSE Length[msg[1][1]] - Header - 1

\* What TRKTestForPacket waits for next.
Wanted == IF pc = "header" THEN Header ELSE Length[msg[1][1]] - Header

\* TRKTestForPacket goes on only if the driver has a block.
gdev_cc_peek ==
  /\ pc = "idle"
  /\ Fetch(Len(Head(driver)))
  /\ pc' = "header"
  /\ UNCHANGED <<unsent, msg, unwritten, sent, received, arrived>>

\* The driver is asked once only.
Bug_gdev_cc_read_Fetch ==
  /\ pc \in {"header", "body"}
  /\ forRead = 0
  /\ Fetch(Wanted)
  /\ UNCHANGED <<unsent, pc, msg, unwritten, sent, received, arrived>>

\* As many bytes are read as are wanted in all, but as many written as the
\* driver has.
gdev_cc_read_Fetch ==
  /\ pc \in {"header", "body"}
  /\ forRead < Wanted
  /\ Fetch(Wanted)
  /\ UNCHANGED <<unsent, pc, msg, unwritten, sent, received, arrived>>

Take ==
  /\ Wanted <= forRead
  /\ CircleBufferReadBytes(Wanted)

-----------------------------------------------------------------------------
(***************************************************************************)
(* TRKTestForPacket.                                                       *)
(***************************************************************************)

\* TRK_AppendBuffer at the end of the message: what does not fit is left out.
TRK_AppendBuffer(data, block) ==
  LET all == data \o block
  IN  SubSeq(all, 1, Min({Len(all), kMessageBufferSize}))

Return ==
  /\ pc' = "received"
  /\ received' = Append(received, msg')

\* The header says whether there is more.
TRKTestForPacket_Header ==
  /\ pc = "header"
  /\ Take
  /\ msg' = TRK_AppendBuffer(<<>>, answer'.data)
  /\ IF Length[msg'[1][1]] > Header THEN pc' = "body" /\ UNCHANGED received
                                    ELSE Return
  /\ UNCHANGED <<driver, unsent, unwritten, sent, arrived>>

\* The body goes where the header is.
Bug_TRKTestForPacket_Body ==
  /\ pc = "body"
  /\ Take
  /\ msg' = TRK_AppendBuffer(<<>>, answer'.data)
  /\ Return
  /\ UNCHANGED <<driver, unsent, unwritten, sent, arrived>>

\* As many bytes as the whole packet has are handed on as its body, so that
\* there are as many stale bytes after it as the header has.
TRKTestForPacket_Body ==
  /\ pc = "body"
  /\ Take
  /\ msg' = TRK_AppendBuffer(msg, answer'.data \o [i \in 1 .. Header |-> Stale])
  /\ Return
  /\ UNCHANGED <<driver, unsent, unwritten, sent, arrived>>

-----------------------------------------------------------------------------
(***************************************************************************)
(* The answer, from the handler of the message through TRK_MessageSend to  *)
(* gdev_cc_write.                                                          *)
(***************************************************************************)

TRK_MessageSend ==
  /\ pc = "received"
  /\ pc' = "write"
  /\ unwritten' = ReplyTo(msg[1][1])
  /\ arrived' = Append(arrived, [bytes |-> <<>>, refused |-> FALSE])
  /\ UNCHANGED <<driver, unsent, ring, msg, sent, received>>

\* The host gets n bytes more.
Delivered(n) ==
  [arrived EXCEPT ![Len(arrived)].bytes = @ \o SubSeq(unwritten, 1, n)]

\* The start of the buffer is sent again.
Bug_gdev_cc_write(n) ==
  /\ pc = "write"
  /\ n \in 1 .. Len(unwritten)
  /\ arrived' = Delivered(n)
  /\ unwritten' = SubSeq(unwritten, 1, Len(unwritten) - n)
  /\ pc' = IF unwritten' = <<>> THEN "idle" ELSE "write"
  /\ UNCHANGED <<driver, unsent, ring, msg, sent, received>>

\* One round of the loop, in which DBWrite takes n bytes.
gdev_cc_write(n) ==
  /\ pc = "write"
  /\ n \in 1 .. Len(unwritten)
  /\ arrived' = Delivered(n)
  /\ unwritten' = SubSeq(unwritten, n + 1, Len(unwritten))
  /\ pc' = IF unwritten' = <<>> THEN "idle" ELSE "write"
  /\ UNCHANGED <<driver, unsent, ring, msg, sent, received>>

\* DBWrite takes nothing: the rest is not sent, and nobody is told.
gdev_cc_write_Refused ==
  /\ pc = "write"
  /\ unwritten' = <<>>
  /\ arrived' = [arrived EXCEPT ![Len(arrived)].refused = TRUE]
  /\ pc' = "idle"
  /\ UNCHANGED <<driver, unsent, ring, msg, sent, received>>

-----------------------------------------------------------------------------
(***************************************************************************)
(* After a disconnect InitMetroTRK calls TRK_main again, and with it       *)
(* gdev_cc_initialize; that gdev_cc_open then says it is open already is   *)
(* ignored.  What the driver holds stays.                                  *)
(***************************************************************************)

gdev_cc_initialize ==
  /\ pc = "idle"
  /\ readPos' = 0
  /\ writePos' = 0
  /\ forRead' = 0
  /\ forWrite' = Size
  /\ UNCHANGED <<memory, answer>>
  /\ UNCHANGED <<driver, unsent, pc, msg, unwritten, sent, received, arrived>>

-----------------------------------------------------------------------------
Nub ==
  \/ gdev_cc_peek
  \/ gdev_cc_read_Fetch
  \/ TRKTestForPacket_Header
  \/ TRKTestForPacket_Body
  \/ TRK_MessageSend
  \/ \E n \in 1 .. Header : gdev_cc_write(n)
  \/ gdev_cc_write_Refused

HostMore == \E n \in Sizes : HostSendsMore(n)

Next ==
  \/ \E p \in Packet, n \in Sizes : HostSends(p, n)
  \/ HostMore
  \/ Nub
  \/ gdev_cc_initialize

Spec == Init /\ [][Next]_vars

\* The nub polls, and a host that began a packet sends the rest.
FairSpec == Spec /\ WF_vars(Nub) /\ WF_vars(HostMore)

-----------------------------------------------------------------------------
(***************************************************************************)
(* What must hold.  RingInv and FifoSpec of the circle buffer, too: the    *)
(* nub that starts again must not empty it of anything.                    *)
(***************************************************************************)

\* TRKTestForPacket returns the packets of the host whole and in order,
\* however the host divides them and whatever is sent meanwhile.
PacketsIntact ==
  /\ Len(received) <= Len(sent)
  /\ \A i \in DOMAIN received : IsPrefix(Bytes(sent[i]), received[i])

\* gdev_cc_peek looks at the driver only: what is in the circle buffer when
\* TRKTestForPacket ends would wait for the next packet.
NothingIsLeftBehind ==
  /\ pc \in {"idle", "received", "write"} => forRead = 0
  /\ pc = "body" => Len(msg) = Header

\* However the driver divides it, an answer comes to the host in order, no byte
\* twice, and whole: unless the driver took nothing, which gdev_cc_write does
\* not tell.
AnswersIntact ==
  \A i \in DOMAIN arrived :
    LET whole == ReplyTo(sent[i])
    IN  /\ IsPrefix(arrived[i].bytes, whole)
        /\ \/ arrived[i].bytes = whole
           \/ arrived[i].refused
           \/ i = Len(arrived) /\ pc = "write"

\* Every packet is received, as long as it is ("DS_MAXREADWRITELENGTH 0x0800:
\* 2K data portion").
PacketsAreReceived ==
  \A n \in 1 .. Cardinality(Packet) :
    Len(sent) = n ~> Len(received) >= n
=============================================================================
