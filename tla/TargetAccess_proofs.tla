------------------------- MODULE TargetAccess_proofs -------------------------
(***************************************************************************)
(* File calls are exact, failures told, and nothing stale is executed, for *)
(* every memory, every length of a message and every count; alone, and     *)
(* under the library of MslSupport with a host that comes and goes.        *)
(***************************************************************************)
EXTENDS MslSupport, TLAPS, SequenceTheorems

Accessing == at = "wait" /\ call.command \in Accesses

\* Outside of a call there is nothing to flush; in one, only what the messages
\* before brought.
FlushInv ==
  /\ at # "wait" => unflushed = {}
  /\ call.command # "kDSReadFile" => unflushed = {}
  /\ Accessing => unflushed \subseteq Span(call.buffer, done)

\* The message under way is for the bytes that are left, of a buffer that is
\* the target's.
MessageInv ==
  Accessing =>
    /\ call.buffer + call.count <= NumAddr
    /\ Span(call.buffer, call.count) \subseteq Mapped
    /\ done < call.count
    /\ done + length <= call.count

\* What was transferred is in the buffer, and no message went wrong so far.
TransferInv ==
  /\ at = "wait" => refused = FALSE
  /\ Accessing =>
       /\ overlong = FALSE
       /\ Len(transferred) = done
       /\ \A i \in 1 .. done : transferred[i] = memory[call.buffer + i - 1]

\* A reply is looked at before the target runs again.
ReplyInv ==
  /\ at # "nub" => reply = NoReply
  /\ AcknowledgedMeansDone

AccessInv == TypeOK /\ FlushInv /\ MessageInv /\ TransferInv /\ ReplyInv

-----------------------------------------------------------------------------
\* Addresses and counts are numbers.
LEMMA AddressesAreNumbers ==
  /\ \A a \in Addr : a \in Nat /\ a < NumAddr
  /\ NumAddr \in Nat /\ MaxCount \in Nat /\ MaxCount <= NumAddr
  /\ DS_MAXREADWRITELENGTH \in Nat
  BY AccessAssumption DEF Addr

\* A copy puts the data where they are wanted, and changes nothing else.
LEMMA CopiedEffect ==
  ASSUME memory \in [Addr -> Byte], NEW a \in Nat, NEW n \in Nat,
         NEW data, data \in [1 .. n -> Byte], Len(data) = n
  PROVE  /\ Copied(a, data) \in [Addr -> Byte]
         /\ \A b \in Addr : b \notin Span(a, n) => Copied(a, data)[b] = memory[b]
         /\ \A b \in Span(a, n) \ Unmapped :
              Copied(a, data)[b] = data[b - a + 1]
  <1>1. \A b \in Span(a, n) : b \in Addr /\ b - a + 1 \in 1 .. n
    BY AddressesAreNumbers DEF Span
  <1>2. \A b \in Span(a, n) : data[b - a + 1] \in Byte
    BY <1>1
  <1> QED
    BY <1>1, <1>2 DEF Copied

\* The bytes of the file and of the host are bytes.
LEMMA DataType ==
  ASSUME NEW source \in {"host", "file"}, NEW from \in Nat, NEW n \in Nat
  PROVE  /\ Data(source, from, n) \in [1 .. n -> Byte]
         /\ Data(source, from, n) \in Seq(Byte)
         /\ Len(Data(source, from, n)) = n
  <1>1. \A i \in 1 .. n : <<source, from + i>> \in Byte
    BY DEF Byte
  <1>2. Data(source, from, n) \in [1 .. n -> Byte]
    BY <1>1 DEF Data
  <1>3. Len(Data(source, from, n)) = n
    BY DEF Data
  <1> QED
    BY <1>2, <1>3

\* So are those of memory.
LEMMA BytesType ==
  ASSUME memory \in [Addr -> Byte], NEW a \in Nat, NEW n \in Nat, a + n <= NumAddr
  PROVE  /\ Bytes(a, n) \in [1 .. n -> Byte]
         /\ Bytes(a, n) \in Seq(Byte)
         /\ Len(Bytes(a, n)) = n
         /\ \A i \in 1 .. n : Bytes(a, n)[i] = memory[a + i - 1]
  <1>1. \A i \in 1 .. n : a + i - 1 \in Addr
    BY AddressesAreNumbers DEF Addr
  <1>2. Bytes(a, n) \in [1 .. n -> Byte]
    BY <1>1 DEF Bytes
  <1>3. Len(Bytes(a, n)) = n
    BY DEF Bytes
  <1>4. Bytes(a, n) \in Seq(Byte)
    BY <1>2
  <1>5. \A i \in 1 .. n : Bytes(a, n)[i] = memory[a + i - 1]
    BY DEF Bytes
  <1> QED
    BY <1>2, <1>3, <1>4, <1>5

\* A range that TRKValidMemory32 accepts does not wrap.
LEMMA ValidRangeEnds ==
  ASSUME NEW start \in Addr, NEW n \in 0 .. MaxCount, TRKValidMemory32(start, n), n > 0
  PROVE  start + n <= NumAddr
  <1> DEFINE a == start + n - 1
  <1>1. a \in 0 .. NumAddr + NumAddr - 1 /\ NumAddr \in Nat \ {0} /\ start \in Nat
    BY AddressesAreNumbers, AccessAssumption
  <1>2. a % NumAddr = IF a < NumAddr THEN a ELSE a - NumAddr
    BY <1>1
  <1>3. start <= a % NumAddr
    BY DEF TRKValidMemory32
  <1>4. n <= NumAddr
    BY AddressesAreNumbers
  <1> QED
    BY <1>1, <1>2, <1>3, <1>4, AddressesAreNumbers

-----------------------------------------------------------------------------
\* What Forget leaves, in any place but the middle of a call.
LEMMA ForgottenCall ==
  ASSUME TypeOK, Forget, at' # "wait"
  PROVE  /\ call' \in Calls /\ call'.command \notin Accesses
         /\ call'.command # "kDSReadFile"
         /\ done' \in 0 .. MaxCount
         /\ length' \in 0 .. DS_MAXREADWRITELENGTH
         /\ result' \in IoResults
         /\ count' \in Nat
         /\ transferred' \in Seq(Byte)
  <1>1. /\ NoCall.command = "kDSCloseFile" /\ NoCall \in Calls
    BY AddressesAreNumbers, AccessAssumption DEF NoCall, Calls, Others, Addr
  <1>2. "kDSCloseFile" \notin Accesses
    BY DEF Accesses
  <1> QED
    BY <1>1, <1>2, AddressesAreNumbers DEF Forget, IoResults

\* The reply of a command is right if its data are, in the memory after it.
LEMMA ReplyIsRight ==
  ASSUME NEW status, NEW data, NEW start, NEW dataSpace,
         Reply(status, data, start, dataSpace), status # "kDSNotifyStopped",
         status = "kDSReplyNoError" =>
           /\ Span(start, Len(data)) \subseteq Mapped
           /\ \/ data = [i \in 1 .. Len(data) |-> memory'[start + i - 1]]
              \/ dataSpace /\ start % PPC_CACHE_ALIGNMENT # 0
  PROVE  AcknowledgedMeansDone'
  <1>1. CASE status = "kDSReplyNoError"
    <2>1. reply' = [status |-> status, data |-> data,
                    start |-> start, dataSpace |-> dataSpace]
      BY <1>1 DEF Reply
    <2>2. /\ reply'.status = status /\ reply'.data = data /\ reply'.start = start
          /\ reply'.dataSpace = dataSpace
      BY <2>1
    <2>3. Bytes(reply.start, Len(reply.data))' =
            [i \in 1 .. Len(data) |-> memory'[start + i - 1]]
      BY <2>2 DEF Bytes
    <2> QED
      BY <1>1, <2>2, <2>3 DEF AcknowledgedMeansDone
  <1>2. CASE status # "kDSReplyNoError"
    <2>1. reply' = [NoReply EXCEPT !.status = status]
      BY <1>2 DEF Reply
    <2>2. reply'.status = status
      BY <2>1 DEF NoReply
    <2>3. reply'.status \notin {"kDSReplyNoError", "kDSNotifyStopped"}
      BY <1>2, <2>2
    <2> HIDE DEF Reply
    <2> QED
      BY <2>3 DEF AcknowledgedMeansDone
  <1> QED
    BY <1>1, <1>2

\* The error of an access is not the command of a notification.
LEMMA NotANotification ==
  ASSUME NEW start, NEW n
  PROVE  TRKTargetAccessMemory(start, n) # "kDSNotifyStopped"
  BY DEF TRKTargetAccessMemory

\* There is no reply outside of the commands.
LEMMA NoReplyIsRight ==
  ASSUME reply' = NoReply
  PROVE  AcknowledgedMeansDone'
  BY DEF AcknowledgedMeansDone, NoReply

-----------------------------------------------------------------------------
(***************************************************************************)
(* Every action keeps the invariant.                                       *)
(***************************************************************************)

LEMMA ReadMemoryKeeps ==
  ASSUME AccessInv, NEW start \in Addr, NEW n \in 0 .. MaxCount,
         NEW dataSpace \in BOOLEAN, TRKDoReadMemory(start, n, dataSpace)
  PROVE  AccessInv'
  <1> DEFINE shift == IF dataSpace THEN start % PPC_CACHE_ALIGNMENT ELSE 0
             data == [i \in 1 .. n |-> IF shift + i <= n
                                       THEN memory[start + shift + i - 1]
                                       ELSE <<"stack", i>>]
  <1>1. /\ at = "nub" /\ at' = "nub" /\ Forget
        /\ UNCHANGED <<memory, unflushed>>
        /\ Reply(TRKTargetAccessMemory(start, n), data, start, dataSpace)
    BY DEF TRKDoReadMemory
  <1>2. Len(data) = n /\ start \in Nat /\ n \in Nat
    BY AddressesAreNumbers
  <1>3. TRKTargetAccessMemory(start, n) = "kDSReplyNoError" =>
          Span(start, n) \subseteq Mapped
    BY DEF TRKTargetAccessMemory, Span, Mapped
  <1>4. shift = 0 => data = [i \in 1 .. n |-> memory'[start + i - 1]]
    BY <1>1, <1>2
  <1>5. shift = 0 \/ (dataSpace /\ start % PPC_CACHE_ALIGNMENT # 0)
    OBVIOUS
  <1>6. AcknowledgedMeansDone'
    <2> HIDE DEF shift, data
    <2> QED
      BY <1>1, <1>2, <1>3, <1>4, <1>5, ReplyIsRight, NotANotification
  <1> HIDE DEF shift, data
  <1>7. TypeOK /\ unflushed = {}
    BY <1>1 DEF AccessInv, FlushInv
  <1> QED
    BY <1>1, <1>6, <1>7, ForgottenCall
       DEF AccessInv, TypeOK, FlushInv, MessageInv, TransferInv, ReplyInv, Accessing

LEMMA WriteMemoryKeeps ==
  ASSUME AccessInv, NEW start \in Addr, NEW n \in 0 .. MaxCount,
         TRKDoWriteMemory(start, n)
  PROVE  AccessInv'
  <1> DEFINE data == Data("host", 0, n)
             accepted == TRKValidMemory32(start, n)
  <1>1. /\ at = "nub" /\ at' = "nub" /\ Forget
        /\ Reply(TRKTargetAccessMemory(start, n), data, start, FALSE)
        /\ accepted => /\ memory' = Copied(start, data)
                       /\ unflushed' = unflushed \ Span(start, n)
        /\ ~accepted => UNCHANGED <<memory, unflushed>>
    BY DEF TRKDoWriteMemory
  <1>2. start \in Nat /\ n \in Nat
    BY AddressesAreNumbers
  <1>3. data \in [1 .. n -> Byte] /\ Len(data) = n
    BY <1>2, DataType
  <1>4. memory \in [Addr -> Byte] /\ unflushed = {}
    BY <1>1 DEF AccessInv, TypeOK, FlushInv
  <1>5. /\ Copied(start, data) \in [Addr -> Byte]
        /\ \A b \in Span(start, n) \ Unmapped :
             Copied(start, data)[b] = data[b - start + 1]
    <2> HIDE DEF data
    <2> QED
      BY <1>2, <1>3, <1>4, CopiedEffect
  <1>6. TRKTargetAccessMemory(start, n) = "kDSReplyNoError" =>
          /\ accepted
          /\ Span(start, n) \subseteq Mapped
          /\ data = [i \in 1 .. n |-> memory'[start + i - 1]]
    <2> SUFFICES ASSUME TRKTargetAccessMemory(start, n) = "kDSReplyNoError"
                 PROVE  /\ accepted
                        /\ Span(start, n) \subseteq Mapped
                        /\ data = [i \in 1 .. n |-> memory'[start + i - 1]]
      OBVIOUS
    <2>1. accepted /\ Span(start, n) \cap Unmapped = {}
      BY DEF TRKTargetAccessMemory
    <2>2. \A i \in 1 .. n : /\ start + i - 1 \in Span(start, n) \ Unmapped
                            /\ (start + i - 1) - start + 1 = i
      <3> SUFFICES ASSUME NEW i \in 1 .. n
                   PROVE  /\ start + i - 1 \in Span(start, n) \ Unmapped
                          /\ (start + i - 1) - start + 1 = i
        OBVIOUS
      <3>1. n > 0
        BY <1>2
      <3>2. start + n <= NumAddr
        BY <2>1, <3>1, ValidRangeEnds
      <3>3. start + i - 1 \in Span(start, n)
        BY <1>2, <3>2, AddressesAreNumbers DEF Span, Addr
      <3> QED
        BY <1>2, <2>1, <3>3
    <2>3. \A i \in 1 .. n : memory'[start + i - 1] = data[i]
      <3> HIDE DEF data
      <3> QED
        BY <1>1, <1>5, <2>1, <2>2
    <2>4. data = [i \in 1 .. n |-> data[i]]
      BY <1>3
    <2> HIDE DEF data
    <2> QED
      BY <2>1, <2>3, <2>4 DEF Span, Mapped
  <1>7. AcknowledgedMeansDone'
    <2> HIDE DEF data, accepted
    <2> QED
      BY <1>1, <1>3, <1>6, ReplyIsRight, NotANotification
  <1>8. memory' \in [Addr -> Byte] /\ unflushed' = {}
    <2> HIDE DEF data, accepted
    <2> QED
      BY <1>1, <1>4, <1>5
  <1> HIDE DEF data, accepted
  <1> QED
    BY <1>1, <1>7, <1>8, ForgottenCall
       DEF AccessInv, TypeOK, FlushInv, MessageInv, TransferInv, ReplyInv, Accessing

LEMMA RefuseExtendedKeeps ==
  ASSUME AccessInv, RefuseExtended
  PROVE  AccessInv'
  <1>1. /\ at = "nub" /\ at' = "nub" /\ Forget
        /\ UNCHANGED <<memory, unflushed>>
        /\ Reply("kDSReplyUnsupportedOptionError", <<>>, 0, FALSE)
    BY DEF RefuseExtended
  <1>2. AcknowledgedMeansDone'
    BY <1>1, ReplyIsRight
  <1>3. TypeOK /\ unflushed = {}
    BY <1>1 DEF AccessInv, FlushInv
  <1> QED
    BY <1>1, <1>2, <1>3, ForgottenCall
       DEF AccessInv, TypeOK, FlushInv, MessageInv, TransferInv, ReplyInv, Accessing

\* What is fetched is there, if it does not fault.
LEMMA FetchedIsRight ==
  ASSUME NEW start \in Nat, NEW n \in Nat \ {0}, start + n <= NumAddr
  PROVE  \A i \in 1 .. n : start + i - 1 \in Mapped =>
           Fetched(start, n)[i] = memory[start + i - 1]
  <1>1. start + n - 1 \in 0 .. NumAddr - 1 /\ NumAddr \in Nat \ {0}
    BY AddressesAreNumbers
  <1>2. TRKValidMemory32(start, n)
    BY <1>1 DEF TRKValidMemory32
  <1> QED
    BY <1>2 DEF Fetched

LEMMA StopInfoKeeps ==
  ASSUME AccessInv, NEW pc \in Addr, TRKTargetAddStopInfo(pc)
  PROVE  AccessInv'
  <1> DEFINE start == pc - (pc % StopInfoBytes)
             info  == Fetched(start, StopInfoBytes)
  <1>1. /\ at = "nub" /\ at' = "nub" /\ Forget
        /\ UNCHANGED <<memory, unflushed>>
        /\ reply' = [status |-> "kDSNotifyStopped", pc |-> pc,
                     instruction |-> TRKTargetReadInstruction(pc),
                     data |-> info, start |-> start]
    BY DEF TRKTargetAddStopInfo
  <1>2. pc \in Nat /\ pc + 1 <= NumAddr /\ StopInfoBytes \in Nat \ {0}
    BY AddressesAreNumbers, AccessAssumption
  <1>3. start \in Nat
    BY <1>2
  <1>4. start + StopInfoBytes <= NumAddr
    BY AccessAssumption
  <1>5. pc \in Mapped => TRKTargetReadInstruction(pc) = memory[pc]
    <2>1. pc + 1 - 1 \in Mapped => Fetched(pc, 1)[1] = memory[pc + 1 - 1]
      BY <1>2, FetchedIsRight
    <2>2. pc + 1 - 1 = pc
      BY <1>2
    <2> QED
      BY <2>1, <2>2 DEF TRKTargetReadInstruction
  <1>6. \A i \in 1 .. StopInfoBytes :
          start + i - 1 \in Mapped => info[i] = memory[start + i - 1]
    <2> HIDE DEF start
    <2> QED
      BY <1>2, <1>3, <1>4, FetchedIsRight
  <1> HIDE DEF start, info
  <1>7. AcknowledgedMeansDone'
    BY <1>1, <1>5, <1>6 DEF AcknowledgedMeansDone
  <1>8. TypeOK /\ unflushed = {}
    BY <1>1 DEF AccessInv, FlushInv
  <1> QED
    BY <1>1, <1>7, <1>8, ForgottenCall
       DEF AccessInv, TypeOK, FlushInv, MessageInv, TransferInv, ReplyInv, Accessing

LEMMA IdleKeeps ==
  ASSUME AccessInv, TRK_Idle
  PROVE  AccessInv'
  <1>1. /\ at = "nub" /\ at' = "target" /\ Forget /\ reply' = NoReply
        /\ UNCHANGED <<memory, unflushed>>
    BY DEF TRK_Idle
  <1>2. TypeOK /\ unflushed = {}
    BY <1>1 DEF AccessInv, FlushInv
  <1> QED
    BY <1>1, <1>2, ForgottenCall, NoReplyIsRight
       DEF AccessInv, TypeOK, FlushInv, MessageInv, TransferInv, ReplyInv, Accessing

LEMMA InterruptKeeps ==
  ASSUME AccessInv, TransportInterrupt
  PROVE  AccessInv'
  <1>1. reply' = NoReply /\ at = "target" /\ at' = "nub"
        /\ UNCHANGED <<memory, unflushed, callVars, reply>>
    BY DEF TransportInterrupt, AccessInv, ReplyInv
  <1> QED
    BY <1>1, NoReplyIsRight
       DEF AccessInv, TypeOK, FlushInv, MessageInv, TransferInv, ReplyInv,
           Accessing, callVars, answerVars

\* A call that the nub begins to serve, or gives back at once.
LEMMA CallKeeps ==
  ASSUME AccessInv, NEW c \in Calls, TRKTargetSupportRequest(c)
  PROVE  AccessInv'
  <1>1. /\ at = "target" /\ reply' = NoReply /\ unflushed = {}
        /\ call' = c /\ transferred' = <<>> /\ refused' = FALSE
        /\ overlong' = FALSE /\ memory' = memory
        /\ c.command \in Accesses => /\ c.buffer + c.count <= NumAddr
                                     /\ Span(c.buffer, c.count) \subseteq Mapped
    BY DEF TRKTargetSupportRequest, AccessInv, FlushInv, ReplyInv
  <1>2. c.count \in 0 .. MaxCount /\ c.buffer \in Addr /\ c.count \in Nat
    BY AddressesAreNumbers DEF Calls
  <1>3. TypeOK
    BY DEF AccessInv
  <1>4. CASE c.command \in Accesses /\ (c.buffer = 0 \/ c.count = 0)
    <2>1. PICK stale \in IoResults : FinishCall(stale, TRUE, c.count, {})
      BY <1>4 DEF TRKTargetSupportRequest
    <2>2. /\ at' = "nub" /\ count' = c.count /\ UNCHANGED <<done, length>>
          /\ result' \in IoResults /\ unflushed' = {}
      BY <1>1, <2>1 DEF FinishCall, IoResults
    <2> QED
      BY <1>1, <1>2, <1>3, <2>2, NoReplyIsRight
         DEF AccessInv, TypeOK, FlushInv, MessageInv, TransferInv, ReplyInv, Accessing
  <1>5. CASE ~(c.command \in Accesses /\ (c.buffer = 0 \/ c.count = 0))
    <2>1. SendRequest(0, {})
      BY <1>5 DEF TRKTargetSupportRequest
    <2>2. /\ at' = "wait" /\ done' = 0 /\ unflushed' = {}
          /\ length' = IF c.count > DS_MAXREADWRITELENGTH
                       THEN DS_MAXREADWRITELENGTH ELSE c.count
          /\ UNCHANGED <<result, count>>
      BY <1>1, <1>2, <2>1 DEF SendRequest, answerVars
    <2>3. length' \in 0 .. DS_MAXREADWRITELENGTH /\ 0 + length' <= c.count
      BY <1>2, <2>2, AddressesAreNumbers
    <2>4. TypeOK'
      BY <1>1, <1>2, <1>3, <2>2, <2>3, AddressesAreNumbers DEF TypeOK
    <2>5. MessageInv'
      BY <1>1, <1>2, <1>5, <2>2, <2>3 DEF MessageInv, Accessing
    <2>6. TransferInv' /\ FlushInv'
      BY <1>1, <2>2 DEF TransferInv, FlushInv, Accessing
    <2> QED
      BY <1>1, <2>2, <2>4, <2>5, <2>6, NoReplyIsRight DEF AccessInv, ReplyInv
  <1> QED
    BY <1>4, <1>5

\* A good reply to a message, the last or not, moves the bytes it says.
\* After it, what was transferred is in the buffer, unless it was too much.
LEMMA MessageMoves ==
  ASSUME AccessInv, NEW io_result \in IoResults, NEW n \in 0 .. length + 1,
         n <= length \/ call.command = "kDSReadFile",
         TRK_SuppAccessFile(io_result, n)
  PROVE  /\ memory' \in [Addr -> Byte]
         /\ transferred' \in Seq(Byte)
         /\ n <= length =>
              /\ Len(transferred') = done + n
              /\ \A i \in 1 .. done + n :
                   transferred'[i] = memory'[call.buffer + i - 1]
         /\ \A a \in Addr : memory'[a] # memory[a] =>
              call.command = "kDSReadFile" /\ a \in Span(call.buffer, call.count)
  <1> DEFINE bytes == IF call.command = "kDSReadFile"
                      THEN Data("file", done, n) ELSE Bytes(Place, n)
  <1>1. /\ Accessing
        /\ transferred' = transferred \o bytes
        /\ memory' = IF Taken(n) THEN Copied(Place, bytes) ELSE memory
    BY DEF TRK_SuppAccessFile, Accessing
  <1>2. /\ memory \in [Addr -> Byte] /\ transferred \in Seq(Byte)
        /\ done \in Nat /\ length \in Nat /\ n \in Nat
        /\ call.buffer \in Nat /\ call.count \in Nat
    BY AddressesAreNumbers DEF AccessInv, TypeOK, Calls
  <1>3. /\ call.buffer + call.count <= NumAddr
        /\ Span(call.buffer, call.count) \subseteq Mapped
        /\ done + length <= call.count
        /\ Len(transferred) = done
        /\ \A i \in 1 .. done : transferred[i] = memory[call.buffer + i - 1]
    BY <1>1 DEF AccessInv, MessageInv, TransferInv
  <1>4. Place = call.buffer + done /\ Place \in Nat
    BY <1>2 DEF Place
  <1>5. /\ bytes \in [1 .. n -> Byte] /\ bytes \in Seq(Byte) /\ Len(bytes) = n
    <2>1. CASE call.command = "kDSReadFile"
      BY <1>2, <2>1, DataType
    <2>2. CASE call.command # "kDSReadFile"
      <3>1. Place + n <= NumAddr
        BY <1>2, <1>3, <1>4, <2>2, AddressesAreNumbers
      <3> QED
        BY <1>2, <1>4, <2>2, <3>1, BytesType
    <2> QED
      BY <2>1, <2>2
  <1>6. /\ Copied(Place, bytes) \in [Addr -> Byte]
        /\ \A b \in Addr : b \notin Span(Place, n) => Copied(Place, bytes)[b] = memory[b]
        /\ \A b \in Span(Place, n) \ Unmapped :
             Copied(Place, bytes)[b] = bytes[b - Place + 1]
    <2> HIDE DEF bytes
    <2> QED
      BY <1>2, <1>4, <1>5, CopiedEffect
  <1>7. n <= length => Span(Place, n) \subseteq Span(call.buffer, call.count)
    BY <1>2, <1>3, <1>4, AddressesAreNumbers DEF Span
  <1>8. ASSUME n <= length, NEW i \in done + 1 .. done + n
        PROVE  bytes[i - done] = memory'[call.buffer + i - 1]
    <2> DEFINE b == call.buffer + i - 1
    <2>1. i - done \in 1 .. n /\ b = Place + (i - done) - 1 /\ b - Place + 1 = i - done
      BY <1>2, <1>4
    <2>2. b \in Span(Place, n)
      BY <1>2, <1>3, <1>4, <1>8, AddressesAreNumbers DEF Span, Addr
    <2>3. b \notin Unmapped
      BY <1>3, <1>7, <1>8, <2>2 DEF Mapped
    <2>4. CASE call.command = "kDSReadFile"
      <3>1. memory' = Copied(Place, bytes)
        BY <1>1, <1>8, <2>4 DEF Taken
      <3> HIDE DEF bytes, b
      <3>2. memory'[b] = bytes[i - done]
        BY <1>6, <2>1, <2>2, <2>3, <3>1
      <3> QED
        BY <3>2 DEF b
    <2>5. CASE call.command # "kDSReadFile"
      <3>1. memory' = memory /\ bytes = Bytes(Place, n)
        BY <1>1, <2>5 DEF Taken
      <3>2. Place + n <= NumAddr
        BY <1>2, <1>3, <1>4, <1>8, AddressesAreNumbers
      <3>3. Bytes(Place, n)[i - done] = memory[Place + (i - done) - 1]
        BY <1>2, <1>4, <2>1, <3>2, BytesType
      <3> QED
        BY <2>1, <3>1, <3>3
    <2> QED
      BY <2>4, <2>5
  <1>9. ASSUME n <= length, NEW i \in 1 .. done
        PROVE  transferred[i] = memory'[call.buffer + i - 1]
    <2>1. call.buffer + i - 1 \in Addr /\ call.buffer + i - 1 \notin Span(Place, n)
      BY <1>2, <1>3, <1>4, AddressesAreNumbers DEF Span, Addr
    <2> HIDE DEF bytes
    <2> QED
      BY <1>1, <1>3, <1>6, <2>1
  <1>10. ASSUME n <= length, NEW i \in 1 .. done + n
         PROVE  transferred'[i] = memory'[call.buffer + i - 1]
    <2> HIDE DEF bytes
    <2>1. CASE i <= done
      <3>1. transferred'[i] = transferred[i]
        BY <1>1, <1>2, <1>3, <1>5, <2>1
      <3>2. i \in 1 .. done
        BY <1>2, <2>1
      <3> QED
        BY <1>9, <1>10, <3>1, <3>2
    <2>2. CASE i > done
      <3>1. i \in done + 1 .. done + n
        BY <1>2, <2>2
      <3>2. transferred'[i] = bytes[i - done]
        BY <1>1, <1>2, <1>3, <1>5, <3>1
      <3> QED
        BY <1>8, <1>10, <3>1, <3>2
    <2> QED
      BY <1>2, <2>1, <2>2
  <1> HIDE DEF bytes
  <1>11. /\ transferred' \in Seq(Byte) /\ Len(transferred') = done + n
         /\ memory' \in [Addr -> Byte]
    <2>1. transferred \o bytes \in Seq(Byte)
      BY <1>2, <1>5
    <2>2. Len(transferred \o bytes) = done + n
      BY <1>2, <1>3, <1>5, ConcatProperties
    <2>3. memory' \in [Addr -> Byte]
      BY <1>1, <1>2, <1>6
    <2> QED
      BY <1>1, <2>1, <2>2, <2>3
  <1>12. ASSUME NEW a \in Addr, memory'[a] # memory[a]
         PROVE  call.command = "kDSReadFile" /\ a \in Span(call.buffer, call.count)
    <2>1. Taken(n)
      BY <1>1, <1>12
    <2>2. a \in Span(Place, n)
      BY <1>1, <1>6, <1>12, <2>1
    <2> QED
      BY <1>7, <2>1, <2>2 DEF Taken
  <1> QED
    BY <1>10, <1>11, <1>12

\* What FinishCall does to a call under way: the result is one of the io
\* results, an error if the call failed, and a read's buffer is flushed.
LEMMA FinishCallEffect ==
  ASSUME AccessInv, Accessing, call' = call,
         NEW io_result \in IoResults, NEW failed \in BOOLEAN, NEW m \in Nat,
         NEW written, written \subseteq Span(call.buffer, done + m),
         call.command # "kDSReadFile" => written = {},
         FinishCall(io_result, failed, done + m, written)
  PROVE  /\ at' = "nub" /\ count' = done + m /\ count' \in Nat
         /\ result' \in IoResults /\ unflushed' = {}
         /\ failed => result' # "kDSIONoError"
         /\ UNCHANGED <<done, length>>
  <1>1. /\ done \in Nat /\ call.buffer \in Nat
        /\ unflushed \subseteq Span(call.buffer, done)
        /\ call.command # "kDSReadFile" => unflushed = {}
    BY AddressesAreNumbers DEF AccessInv, TypeOK, Calls, FlushInv
  <1>2. Span(call.buffer, done) \subseteq Span(call.buffer, done + m)
    BY <1>1, AddressesAreNumbers DEF Span
  <1>3. unflushed' = {}
    BY <1>1, <1>2 DEF FinishCall
  <1> QED
    BY <1>1, <1>3 DEF FinishCall, IoResults

\* A good reply to a message of an access.
LEMMA ReplyKeeps ==
  ASSUME AccessInv, NEW io_result \in IoResults, NEW n \in 0 .. length + 1,
         n <= length \/ call.command = "kDSReadFile",
         TRK_SuppAccessFile(io_result, n)
  PROVE  AccessInv'
  <1> DEFINE written == IF Taken(n) THEN Span(Place, n) ELSE {}
             more == n = length /\ done + n < call.count /\ io_result = "kDSIONoError"
  <1>1. /\ Accessing /\ at = "wait"
        /\ overlong' = (overlong \/ n > length)
        /\ UNCHANGED <<call, reply, refused>>
        /\ more => SendRequest(done + n, written)
        /\ ~more => FinishCall(io_result, FALSE, done + n, written)
    BY DEF TRK_SuppAccessFile, Accessing
  <1>2. /\ TypeOK /\ reply = NoReply /\ refused = FALSE /\ overlong = FALSE
        /\ done \in Nat /\ length \in Nat /\ n \in Nat /\ call.buffer \in Nat
        /\ call.count \in 0 .. MaxCount /\ call \in Calls
        /\ call.buffer + call.count <= NumAddr
        /\ Span(call.buffer, call.count) \subseteq Mapped
        /\ unflushed \subseteq Span(call.buffer, done)
        /\ call.command # "kDSReadFile" => unflushed = {}
    BY <1>1, AddressesAreNumbers
       DEF AccessInv, TypeOK, Calls, FlushInv, TransferInv, ReplyInv, MessageInv
  <1>3. /\ memory' \in [Addr -> Byte]
        /\ transferred' \in Seq(Byte)
        /\ n <= length =>
             /\ Len(transferred') = done + n
             /\ \A i \in 1 .. done + n :
                  transferred'[i] = memory'[call.buffer + i - 1]
    BY MessageMoves
  <1>4. /\ written \subseteq Span(call.buffer, done + n)
        /\ call.command # "kDSReadFile" => written = {}
    <2>1. Span(Place, n) \subseteq Span(call.buffer, done + n)
      BY <1>2, AddressesAreNumbers DEF Place, Span
    <2> QED
      BY <2>1 DEF Taken
  <1>5. CASE more
    <2> HIDE DEF written
    <2>1. /\ at' = "wait" /\ done' = done + n
          /\ length' = IF call.count - (done + n) > DS_MAXREADWRITELENGTH
                       THEN DS_MAXREADWRITELENGTH ELSE call.count - (done + n)
          /\ unflushed' = unflushed \cup written
          /\ UNCHANGED <<result, count>>
      BY <1>1, <1>5 DEF SendRequest, answerVars
    <2>2. /\ done' \in 0 .. MaxCount /\ done' < call.count
          /\ length' \in 0 .. DS_MAXREADWRITELENGTH
          /\ done' + length' <= call.count
      BY <1>2, <1>5, <2>1, AddressesAreNumbers
    <2>3. overlong' = FALSE /\ n <= length
      <3>1. n = length /\ ~(n > length)
        BY <1>2, <1>5
      <3> DEFINE more_than_asked == n > length
      <3>2. overlong' = (overlong \/ more_than_asked) /\ overlong = FALSE
        BY <1>1, <1>2
      <3>3. more_than_asked = FALSE
        BY <3>1
      <3> HIDE DEF more_than_asked
      <3>4. overlong' = FALSE
        BY <3>2, <3>3
      <3> QED
        BY <1>2, <3>1, <3>4
    <2>4. TypeOK'
      BY <1>1, <1>2, <1>3, <2>1, <2>2, <1>4 DEF TypeOK, Span
    <2>5. FlushInv'
      <3>1. Span(call.buffer, done) \subseteq Span(call.buffer, done + n)
        BY <1>2, AddressesAreNumbers DEF Span
      <3>2. unflushed' \subseteq Span(call.buffer, done')
        BY <1>2, <1>4, <2>1, <3>1
      <3>3. call.command # "kDSReadFile" => unflushed' = {}
        BY <1>2, <1>4, <2>1
      <3> QED
        BY <1>1, <2>1, <3>2, <3>3 DEF FlushInv, Accessing, Span
    <2>6. MessageInv'
      BY <1>1, <1>2, <2>2 DEF MessageInv, Accessing, Span
    <2>7. TransferInv'
      BY <1>1, <1>2, <1>3, <2>1, <2>3 DEF TransferInv, Accessing
    <2> QED
      BY <1>1, <1>2, <2>4, <2>5, <2>6, <2>7, NoReplyIsRight DEF AccessInv, ReplyInv
  <1>6. CASE ~more
    <2>1. /\ at' = "nub" /\ count' \in Nat /\ result' \in IoResults
          /\ unflushed' = {} /\ UNCHANGED <<done, length>>
      <3>1. FinishCall(io_result, FALSE, done + n, written)
        BY <1>1, <1>6
      <3> HIDE DEF written, more
      <3> QED
        BY <1>1, <1>2, <1>4, <3>1, FinishCallEffect
    <2> HIDE DEF written, more
    <2> QED
      BY <1>1, <1>2, <1>3, <2>1, NoReplyIsRight
         DEF AccessInv, TypeOK, FlushInv, MessageInv, TransferInv, ReplyInv, Accessing
  <1> QED
    BY <1>5, <1>6

\* No good reply to a message of an access.
LEMMA BadReplyKeeps ==
  ASSUME AccessInv, NEW stale \in IoResults, NEW n \in 0 .. MaxCount,
         TRK_SuppAccessFile_NoReply(stale, n)
  PROVE  AccessInv' /\ result' # "kDSIONoError"
  <1>1. /\ Accessing /\ UNCHANGED <<memory, call, reply, transferred, overlong>>
        /\ refused' = TRUE /\ FinishCall(stale, TRUE, done + n, {})
    BY DEF TRK_SuppAccessFile_NoReply, Accessing
  <1>2. n \in Nat /\ reply = NoReply /\ TypeOK
    BY <1>1, AddressesAreNumbers DEF AccessInv, ReplyInv, Accessing
  <1>3. /\ at' = "nub" /\ count' \in Nat /\ result' \in IoResults
        /\ unflushed' = {} /\ UNCHANGED <<done, length>>
        /\ result' # "kDSIONoError"
    BY <1>1, <1>2, FinishCallEffect
  <1> QED
    BY <1>1, <1>2, <1>3, NoReplyIsRight
       DEF AccessInv, TypeOK, FlushInv, MessageInv, TransferInv, ReplyInv, Accessing

\* Open, close and position, with a good reply or without.
LEMMA OtherCallKeeps ==
  ASSUME AccessInv, NEW io_result \in IoResults,
         HandleFileRequest(io_result) \/ HandleFileRequest_NoReply(io_result)
  PROVE  AccessInv' /\ (refused' => result' # "kDSIONoError")
  <1>1. /\ at = "wait" /\ call.command \in Others
        /\ UNCHANGED <<memory, call, reply, transferred, overlong>>
    BY DEF HandleFileRequest, HandleFileRequest_NoReply
  <1>2. /\ call.command # "kDSReadFile" /\ unflushed = {} /\ reply = NoReply
        /\ refused = FALSE /\ TypeOK
    BY <1>1 DEF Others, AccessInv, FlushInv, TransferInv, ReplyInv
  <1>3. /\ at' = "nub" /\ count' = 0 /\ UNCHANGED <<done, length>>
        /\ unflushed' = {}
    BY <1>1, <1>2 DEF HandleFileRequest, HandleFileRequest_NoReply, FinishCall
  <1>4. /\ result' \in IoResults
        /\ refused' \in BOOLEAN
        /\ refused' => result' # "kDSIONoError"
    <2>1. CASE HandleFileRequest(io_result)
      BY <1>2, <2>1 DEF HandleFileRequest, FinishCall, IoResults
    <2>2. CASE HandleFileRequest_NoReply(io_result)
      BY <2>2 DEF HandleFileRequest_NoReply, FinishCall, IoResults
    <2> QED
      BY <2>1, <2>2
  <1> QED
    BY <1>1, <1>2, <1>3, <1>4, NoReplyIsRight
       DEF AccessInv, TypeOK, FlushInv, MessageInv, TransferInv, ReplyInv, Accessing

-----------------------------------------------------------------------------
\* The invariant is kept by every step.
LEMMA AccessInvIsInductive == AccessInv /\ [Next]_vars => AccessInv'
  <1> SUFFICES ASSUME AccessInv, [Next]_vars PROVE AccessInv'
    OBVIOUS
  <1>1. CASE Command
    BY <1>1, ReadMemoryKeeps, WriteMemoryKeeps DEF Command
  <1>2. CASE RefuseExtended
    BY <1>2, RefuseExtendedKeeps
  <1>3. CASE \E c \in Calls : TRKTargetSupportRequest(c)
    BY <1>3, CallKeeps
  <1>4. CASE Answer
    <2>1. length \in Nat
      BY AddressesAreNumbers DEF AccessInv, TypeOK
    <2>2. \A n \in 0 .. length : n \in 0 .. length + 1 /\ n <= length
      BY <2>1
    <2>3. length + 1 \in 0 .. length + 1
      BY <2>1
    <2> QED
      BY <1>4, <2>2, <2>3, ReplyKeeps, OtherCallKeeps DEF Answer
  <1>5. CASE NoAnswer
    BY <1>5, BadReplyKeeps, OtherCallKeeps DEF NoAnswer
  <1>6. CASE TRK_Idle
    BY <1>6, IdleKeeps
  <1>7. CASE TransportInterrupt
    BY <1>7, InterruptKeeps
  <1>8. CASE UNCHANGED vars
    <2>1. UNCHANGED <<memory, unflushed, at, callVars, reply>>
      BY <1>8 DEF vars
    <2>2. AcknowledgedMeansDone'
      BY <2>1 DEF AccessInv, ReplyInv, AcknowledgedMeansDone, Bytes
    <2> QED
      BY <2>1, <2>2
         DEF AccessInv, TypeOK, FlushInv, MessageInv, TransferInv, ReplyInv,
             Accessing, callVars, answerVars
  <1>9. CASE \E pc \in Addr : TRKTargetAddStopInfo(pc)
    BY <1>9, StopInfoKeeps
  <1> QED
    BY <1>1, <1>2, <1>3, <1>4, <1>5, <1>6, <1>7, <1>8, <1>9 DEF Next

\* It holds at the start.
LEMMA AccessInvHoldsAtStart == Init \/ MslInit_Alone => AccessInv
  <1> SUFFICES ASSUME Init \/ MslInit_Alone PROVE AccessInv
    OBVIOUS
  <1>1. /\ memory = [a \in Addr |-> <<"target", a>>]
        /\ unflushed = {} /\ at \in {"nub", "target"}
        /\ call = NoCall /\ done = 0 /\ length = 0
        /\ result = "kDSIONoError" /\ count = 0 /\ reply = NoReply
        /\ transferred = <<>> /\ refused = FALSE /\ overlong = FALSE
    BY DEF Init, MslInit_Alone
  <1>2. /\ NoCall.command = "kDSCloseFile" /\ NoCall \in Calls
    BY AddressesAreNumbers, AccessAssumption DEF NoCall, Calls, Others, Addr
  <1>3. "kDSCloseFile" \notin Accesses
    BY DEF Accesses
  <1>4. [a \in Addr |-> <<"target", a>>] \in [Addr -> Byte]
    BY AddressesAreNumbers DEF Byte
  <1>5. TypeOK
    BY <1>1, <1>2, <1>4, AddressesAreNumbers DEF TypeOK, IoResults
  <1>6. AcknowledgedMeansDone
    BY <1>1 DEF AcknowledgedMeansDone, NoReply
  <1> QED
    BY <1>1, <1>2, <1>3, <1>5, <1>6
       DEF AccessInv, FlushInv, MessageInv, TransferInv, ReplyInv, Accessing

\* Every state of the nub satisfies the invariant.
LEMMA Invariance == Spec => []AccessInv
  BY AccessInvIsInductive, AccessInvHoldsAtStart, PTL DEF Spec

\* A step that leaves the wait for a reply is the handling of one, or of none.
LEMMA StepsOfACall ==
  ASSUME [Next]_vars, at = "wait", vars' # vars
  PROVE  \/ \E io_result \in IoResults : \E n \in 0 .. length :
              TRK_SuppAccessFile(io_result, n)
         \/ /\ call.command = "kDSReadFile"
            /\ \E io_result \in IoResults : TRK_SuppAccessFile(io_result, length + 1)
         \/ \E stale \in IoResults : \E n \in 0 .. MaxCount :
              TRK_SuppAccessFile_NoReply(stale, n)
         \/ \E io_result \in IoResults :
              HandleFileRequest(io_result) \/ HandleFileRequest_NoReply(io_result)
  BY DEF Next, Command, TRKDoReadMemory, TRKDoWriteMemory, RefuseExtended,
         TRKTargetAddStopInfo,
         TRKTargetSupportRequest, TRK_Idle, TransportInterrupt, Answer, NoAnswer

-----------------------------------------------------------------------------
(***************************************************************************)
(* Theorems.                                                               *)
(***************************************************************************)

\* Every variable keeps its type, in particular no message asks for more than
\* a message can hold.
THEOREM TypeCorrect == Spec => []TypeOK
  BY Invariance, PTL DEF AccessInv

\* The target never executes an old copy of what TRK_SuppAccessFile or
\* TRKTargetAccessMemory wrote.
THEOREM NoStaleCode == Spec => []NothingStaleIsExecuted
  <1>1. AccessInv => NothingStaleIsExecuted
    BY DEF AccessInv, FlushInv, NothingStaleIsExecuted
  <1> QED
    BY <1>1, Invariance, PTL

\* A memory command that TRKDoReadMemory or TRKDoWriteMemory acknowledges
\* without error is done for its whole range.
THEOREM CommandsAreDone == Spec => []AcknowledgedMeansDone
  BY Invariance, PTL DEF AccessInv, ReplyInv

\* The end of a call of which a message got no good reply.
LEMMA FailureStep ==
  AccessInv /\ [Next]_vars =>
    [CallEnds /\ refused' => result' # "kDSIONoError"]_vars
  <1> SUFFICES ASSUME AccessInv, [Next]_vars, vars' # vars, CallEnds, refused'
               PROVE  result' # "kDSIONoError"
    OBVIOUS
  <1>1. at = "wait" /\ refused = FALSE
    BY DEF CallEnds, AccessInv, TransferInv
  <1>2. ASSUME NEW io_result, NEW n, TRK_SuppAccessFile(io_result, n)
        PROVE  FALSE
    <2>1. refused' = refused
      BY <1>2 DEF TRK_SuppAccessFile
    <2> QED
      BY <1>1, <2>1
  <1> QED
    BY <1>1, <1>2, StepsOfACall, BadReplyKeeps, OtherCallKeeps

\* TRKTargetSupportRequest never reports a call as successful of which a
\* message got no good reply.
THEOREM FailuresAreTold == Spec => FailureIsReported
  BY FailureStep, Invariance, PTL DEF Spec, FailureIsReported

\* What a step may change while a call waits for a reply.
Changed(a) == memory'[a] # memory[a] =>
                call.command = "kDSReadFile" /\ a \in Span(call.buffer, call.count)

LEMMA ChangeStep ==
  AccessInv /\ [Next]_vars => [at = "wait" => \A a \in Addr : Changed(a)]_vars
  <1> SUFFICES ASSUME AccessInv, [Next]_vars, vars' # vars, at = "wait"
               PROVE  \A a \in Addr : Changed(a)
    OBVIOUS
  <1>1. length \in Nat
    BY AddressesAreNumbers DEF AccessInv, TypeOK
  <1>2. ASSUME NEW io_result \in IoResults, NEW n \in 0 .. length,
               TRK_SuppAccessFile(io_result, n)
        PROVE  \A a \in Addr : Changed(a)
    <2>1. n \in 0 .. length + 1 /\ n <= length
      BY <1>1
    <2> QED
      BY <1>2, <2>1, MessageMoves DEF Changed
  <1>3. ASSUME NEW io_result \in IoResults, call.command = "kDSReadFile",
               TRK_SuppAccessFile(io_result, length + 1)
        PROVE  \A a \in Addr : Changed(a)
    <2>1. length + 1 \in 0 .. length + 1
      BY <1>1
    <2> QED
      BY <1>3, <2>1, MessageMoves DEF Changed
  <1>4. ASSUME memory' = memory PROVE \A a \in Addr : Changed(a)
    BY <1>4 DEF Changed
  <1> QED
    BY <1>2, <1>3, <1>4, StepsOfACall
       DEF TRK_SuppAccessFile_NoReply, HandleFileRequest, HandleFileRequest_NoReply

\* TRK_SuppAccessFile changes nothing outside the buffer of a read, whatever
\* lengths the replies say.
THEOREM NothingElseChanges == Spec => OnlyTheBufferChanges
  BY ChangeStep, Invariance, PTL DEF Spec, OnlyTheBufferChanges, Changed

\* The last good reply of a call that went well.
LEMMA LastReplyIsExact ==
  ASSUME AccessInv, NEW io_result \in IoResults, NEW n \in 0 .. length + 1,
         n <= length \/ call.command = "kDSReadFile",
         TRK_SuppAccessFile(io_result, n), CallEnds, ~overlong'
  PROVE  /\ count' = Len(transferred')
         /\ count' <= call.count
         /\ transferred' = [i \in 1 .. count' |-> memory'[call.buffer + i - 1]]
  <1> DEFINE written == IF Taken(n) THEN Span(Place, n) ELSE {}
             more == n = length /\ done + n < call.count /\ io_result = "kDSIONoError"
  <1>1. /\ Accessing
        /\ overlong' = (overlong \/ n > length)
        /\ more => SendRequest(done + n, written)
        /\ ~more => FinishCall(io_result, FALSE, done + n, written)
    BY DEF TRK_SuppAccessFile, Accessing
  <1>2. done \in Nat /\ length \in Nat /\ n \in Nat /\ call.count \in Nat
        /\ done + length <= call.count
    BY <1>1, AddressesAreNumbers DEF AccessInv, TypeOK, MessageInv, Calls
  <1>3. ~(n > length)
    BY <1>1
  <1>4. n <= length
    BY <1>2, <1>3
  <1>5. /\ transferred' \in Seq(Byte) /\ Len(transferred') = done + n
        /\ \A i \in 1 .. done + n : transferred'[i] = memory'[call.buffer + i - 1]
    BY <1>4, MessageMoves
  <1>6. FinishCall(io_result, FALSE, done + n, written)
    <2> HIDE DEF written
    <2>1. ~SendRequest(done + n, written)
      BY DEF SendRequest, CallEnds
    <2> QED
      BY <1>1, <2>1
  <1>7. count' = done + n
    BY <1>6 DEF FinishCall
  <1>8. transferred' = [i \in 1 .. Len(transferred') |-> transferred'[i]]
    BY <1>5
  <1> HIDE DEF written, more
  <1> QED
    BY <1>2, <1>4, <1>5, <1>7, <1>8

\* The end of a call that went well.
Success == /\ CallEnds /\ call.command \in Accesses
           /\ result' = "kDSIONoError" /\ ~overlong'

Exact == /\ count' = Len(transferred')
         /\ count' <= call.count
         /\ transferred' = [i \in 1 .. count' |-> memory'[call.buffer + i - 1]]

LEMMA ExactStep ==
  AccessInv /\ [Next]_vars => [Success => Exact]_vars
  <1> SUFFICES ASSUME AccessInv, [Next]_vars, vars' # vars, Success
               PROVE  Exact
    OBVIOUS
  <1>1. length \in Nat /\ at = "wait" /\ CallEnds /\ ~overlong'
          /\ call.command \in Accesses /\ result' = "kDSIONoError"
    BY AddressesAreNumbers DEF AccessInv, TypeOK, CallEnds, Success
  <1>2. ASSUME NEW io_result \in IoResults, NEW n \in 0 .. length,
               TRK_SuppAccessFile(io_result, n)
        PROVE  Exact
    <2>1. n \in 0 .. length + 1 /\ n <= length
      BY <1>1
    <2> QED
      BY <1>1, <1>2, <2>1, LastReplyIsExact DEF Exact
  <1>3. ASSUME NEW io_result \in IoResults, call.command = "kDSReadFile",
               TRK_SuppAccessFile(io_result, length + 1)
        PROVE  Exact
    <2>1. length + 1 \in 0 .. length + 1
      BY <1>1
    <2> QED
      BY <1>1, <1>3, <2>1, LastReplyIsExact DEF Exact
  <1>4. \A stale \in IoResults : \A n \in 0 .. MaxCount :
          ~TRK_SuppAccessFile_NoReply(stale, n)
    BY <1>1, BadReplyKeeps
  <1>5. \A io_result \in IoResults :
          ~(HandleFileRequest(io_result) \/ HandleFileRequest_NoReply(io_result))
    BY <1>1 DEF HandleFileRequest, HandleFileRequest_NoReply, Others, Accesses
  <1> QED
    BY <1>1, <1>2, <1>3, <1>4, <1>5, StepsOfACall

\* A call that TRKTargetSupportRequest reports as successful moved exactly the
\* bytes it says, in however many messages.
THEOREM TransfersAreExact == Spec => TransferIsExact
  BY ExactStep, Invariance, PTL DEF Spec, TransferIsExact, Success, Exact

-----------------------------------------------------------------------------
(***************************************************************************)
(* The library of MslSupport.                                              *)
(***************************************************************************)

\* What of a function under way the trap hands to the nub.
LibType ==
  lib \in [phase : {"none"}]
     \cup [phase : {"looked", "trapped"}, function : Functions,
           buffer : Addr, count : 0 .. MaxCount]
     \cup [phase : {"answered"}, function : Functions, result : IoResults,
           count : Nat, moved : Nat]

\* The nub waits just for the function that trapped.
CallInv ==
  /\ lib.phase = "trapped" <=> at = "wait"
  /\ at = "wait" => call.command = CommandOf(lib.function)
  /\ at = "wait" /\ call.command \in Others => transferred = <<>>

\* While a function is under way, a host is there or the target is stopped.
HostInv == lib.phase # "none" => connected \/ (at = "nub" /\ stopped)

\* What the function finds in r3 and in memory agrees.
AnswerInv ==
  lib.phase = "answered" /\ lib.result = "kDSIONoError" =>
    /\ lib.count = lib.moved
    /\ CommandOf(lib.function) \in {"kDSOpenFile", "kDSPositionFile"} => word = "host"

LibInv == LibType /\ CallInv /\ HostInv /\ AnswerInv /\ TheProgramIsTold

\* The functions, and what each asks for.
LEMMA CommandsOfFunctions ==
  \A f \in Functions : CommandOf(f) \in Accesses \cup Others
  BY DEF Functions, Console, CommandOf, Accesses, Others

\* Every step of the library and the host is one of TargetAccess, or none.
LEMMA LibStepsAccess == LibType /\ [MslNext]_<<vars, libVars>> => [Next]_vars
  <1> SUFFICES ASSUME LibType, [MslNext]_<<vars, libVars>> PROVE [Next]_vars
    OBVIOUS
  <1>1. CASE Trap
    <2>1. lib \in [phase : {"looked", "trapped"}, function : Functions,
                   buffer : Addr, count : 0 .. MaxCount]
      BY <1>1 DEF Trap, LibType
    <2>2. [command |-> CommandOf(lib.function), buffer |-> lib.buffer,
           count |-> lib.count] \in Calls
      BY <2>1, CommandsOfFunctions DEF Calls
    <2> QED
      BY <1>1, <2>2 DEF Trap, Next
  <1>2. CASE HostAnswers \/ HostDoesNotAnswer \/ Run \/ Interrupt \/ Commands
             \/ \E pc \in Addr : Stop(pc)
    BY <1>2 DEF HostAnswers, HostDoesNotAnswer, Run, Interrupt, Commands, Stop, Next
  <1>3. CASE Return \/ TRK_DoConnect \/ TRKDoDisconnect
             \/ \E on \in BOOLEAN : SetStopped(on) \/ TRKDoSetOption(on)
    BY <1>3 DEF Return, TRK_DoConnect, TRKDoDisconnect, SetStopped, TRKDoSetOption
  <1>4. CASE \E f \in Functions, a \in Addr, n \in 0 .. MaxCount : Begin(f, a, n)
    BY <1>4 DEF Begin
  <1>5. CASE UNCHANGED <<vars, libVars>>
    BY <1>5
  <1> QED
    BY <1>1, <1>2, <1>3, <1>4, <1>5 DEF MslNext

\* A good reply to a message: what the target is told if it is the last one.
LEMMA AnswerEffect ==
  ASSUME AccessInv, CallInv, Answer
  PROVE  /\ at = "wait" /\ at' \in {"wait", "nub"} /\ call' = call
         /\ call.command \in Others => at' = "nub" /\ transferred' = transferred
         /\ at' = "nub" => count' = Len(transferred')
  <1>1. ASSUME NEW io_result \in IoResults, HandleFileRequest(io_result)
        PROVE  /\ at = "wait" /\ at' = "nub" /\ call' = call
               /\ transferred' = transferred /\ count' = Len(transferred')
    BY <1>1 DEF HandleFileRequest, FinishCall, CallInv
  <1>2. length \in Nat
    BY AddressesAreNumbers DEF AccessInv, TypeOK
  <1>3. ASSUME NEW io_result \in IoResults, NEW n \in 0 .. length + 1,
               n <= length \/ call.command = "kDSReadFile",
               TRK_SuppAccessFile(io_result, n)
        PROVE  /\ at = "wait" /\ at' \in {"wait", "nub"} /\ call' = call
               /\ call.command \notin Others
               /\ at' = "nub" => count' = Len(transferred')
    <2> DEFINE bytes == IF call.command = "kDSReadFile"
                        THEN Data("file", done, n) ELSE Bytes(Place, n)
    <2>1. /\ Accessing /\ call' = call /\ transferred' = transferred \o bytes
          /\ at' \in {"wait", "nub"}
          /\ at' = "nub" => count' = done + n
      BY <1>3 DEF TRK_SuppAccessFile, Accessing, SendRequest, FinishCall
    <2>2. /\ done \in Nat /\ n \in Nat /\ call.buffer \in Nat
          /\ transferred \in Seq(Byte) /\ Len(transferred) = done
          /\ call.buffer + call.count <= NumAddr /\ call.count \in Nat
          /\ done + length <= call.count
          /\ memory \in [Addr -> Byte]
      BY <1>2, <2>1, AddressesAreNumbers
         DEF AccessInv, TypeOK, TransferInv, MessageInv, Calls
    <2>3. bytes \in Seq(Byte) /\ Len(bytes) = n
      <3>1. CASE call.command = "kDSReadFile"
        BY <2>2, <3>1, DataType
      <3>2. CASE call.command # "kDSReadFile"
        <4>1. Place \in Nat /\ Place + n <= NumAddr
          BY <1>2, <1>3, <2>2, <3>2, AddressesAreNumbers DEF Place
        <4> QED
          BY <2>2, <3>2, <4>1, BytesType
      <3> QED
        BY <3>1, <3>2
    <2> HIDE DEF bytes
    <2>4. Len(transferred') = done + n
      BY <2>1, <2>2, <2>3, ConcatProperties
    <2> QED
      BY <2>1, <2>4 DEF Accessing, Accesses, Others
  <1>4. \A n \in 0 .. length : n \in 0 .. length + 1 /\ n <= length
    BY <1>2
  <1>5. length + 1 \in 0 .. length + 1
    BY <1>2
  <1> QED
    BY <1>1, <1>3, <1>4, <1>5 DEF Answer

\* No good reply: the function ends, and is not told that it went well.
LEMMA NoAnswerEffect ==
  ASSUME AccessInv, NoAnswer
  PROVE  /\ at = "wait" /\ at' = "nub" /\ call' = call
         /\ result' # "kDSIONoError"
  <1>1. ASSUME NEW stale \in IoResults, NEW n \in 0 .. MaxCount,
               TRK_SuppAccessFile_NoReply(stale, n)
        PROVE  at = "wait" /\ at' = "nub" /\ call' = call /\ result' # "kDSIONoError"
    BY <1>1, BadReplyKeeps DEF TRK_SuppAccessFile_NoReply, FinishCall
  <1>2. ASSUME NEW stale \in IoResults, HandleFileRequest_NoReply(stale)
        PROVE  at = "wait" /\ at' = "nub" /\ call' = call /\ result' # "kDSIONoError"
    BY <1>2, OtherCallKeeps DEF HandleFileRequest_NoReply, FinishCall
  <1> QED
    BY <1>1, <1>2 DEF NoAnswer

\* A call of the target, which begins with nothing transferred.
LEMMA CallEffect ==
  ASSUME NEW c \in Calls, TRKTargetSupportRequest(c)
  PROVE  /\ at = "target" /\ at' \in {"wait", "nub"} /\ call' = c
         /\ transferred' = <<>>
         /\ at' = "nub" => result' # "kDSIONoError"
  BY DEF TRKTargetSupportRequest, FinishCall, SendRequest, IoResults

\* What the library remembers is the same as long as it is left alone.
LEMMA LibKept ==
  ASSUME LibInv, UNCHANGED <<lib, word>>, at # "wait", at' # "wait",
         HostInv', TheProgramIsTold'
  PROVE  LibInv'
  BY DEF LibInv, LibType, CallInv, AnswerInv

LEMMA BeginKeeps ==
  ASSUME LibInv, NEW f \in Functions, NEW a \in Addr, NEW n \in 0 .. MaxCount,
         Begin(f, a, n)
  PROVE  LibInv'
  <1>1. /\ at = "target" /\ lib.phase = "none"
        /\ UNCHANGED <<vars, connected, stopped, word>>
    BY DEF Begin
  <1>2. at' = at
    BY <1>1 DEF vars
  <1>3. CASE NoHost(f)
    <2>1. lib' = lib /\ returned'.err = "kIOError"
      BY <1>3 DEF Begin
    <2> QED
      BY <1>1, <1>2, <2>1, LibKept DEF HostInv, TheProgramIsTold
  <1>4. CASE ~NoHost(f)
    <2>1. /\ lib' = [phase |-> "looked", function |-> f, buffer |-> a, count |-> n]
          /\ returned' = NoReturn /\ connected
      BY <1>4 DEF Begin, NoHost
    <2> QED
      BY <1>1, <1>2, <2>1
         DEF LibInv, LibType, CallInv, HostInv, AnswerInv, TheProgramIsTold, NoReturn
  <1> QED
    BY <1>3, <1>4

\* The nub is asked: the answer comes at once, or the nub waits for the host.
LEMMA TrapKeeps ==
  ASSUME LibInv, AccessInv', Trap
  PROVE  LibInv'
  <1> DEFINE c == [command |-> CommandOf(lib.function), buffer |-> lib.buffer,
                   count |-> lib.count]
  <1>1. /\ lib \in [phase : {"looked", "trapped"}, function : Functions,
                    buffer : Addr, count : 0 .. MaxCount]
        /\ lib.phase = "looked"
        /\ TRKTargetSupportRequest(c)
        /\ lib' = IF at' = "nub" THEN Answered ELSE [lib EXCEPT !.phase = "trapped"]
        /\ returned' = NoReturn
        /\ UNCHANGED <<connected, stopped>>
    BY DEF LibInv, LibType, Trap, Keep
  <1>2. c \in Calls
    BY <1>1, CommandsOfFunctions DEF Calls
  <1>3. /\ at = "target" /\ at' \in {"wait", "nub"} /\ call' = c
        /\ transferred' = <<>>
        /\ at' = "nub" => result' # "kDSIONoError"
    BY <1>1, <1>2, CallEffect
  <1>4. connected'
    BY <1>1, <1>3 DEF LibInv, HostInv
  <1>5. CASE at' = "nub"
    <2>1. /\ lib' = Answered /\ lib'.phase = "answered"
          /\ lib'.result = result'
      BY <1>1, <1>5 DEF Answered
    <2>2. result' \in IoResults /\ count' \in Nat /\ Len(transferred') \in Nat
      BY <1>3 DEF AccessInv, TypeOK
    <2>3. LibType'
      BY <1>1, <2>1, <2>2 DEF LibType, Answered
    <2> QED
      BY <1>1, <1>3, <1>4, <1>5, <2>1, <2>3
         DEF LibInv, CallInv, HostInv, AnswerInv, TheProgramIsTold, NoReturn
  <1>6. CASE at' = "wait"
    <2>1. /\ lib'.phase = "trapped" /\ lib'.function = lib.function
          /\ lib' \in [phase : {"looked", "trapped"}, function : Functions,
                       buffer : Addr, count : 0 .. MaxCount]
      BY <1>1, <1>6
    <2> QED
      BY <1>1, <1>3, <1>4, <1>6, <2>1
         DEF LibInv, LibType, CallInv, HostInv, AnswerInv, TheProgramIsTold, NoReturn
  <1> QED
    BY <1>3, <1>5, <1>6

LEMMA HostAnswersKeeps ==
  ASSUME LibInv, AccessInv, AccessInv', HostAnswers
  PROVE  LibInv'
  <1>1. /\ Answer
        /\ word' = IF call.command \in {"kDSOpenFile", "kDSPositionFile"}
                   THEN "host" ELSE word
        /\ lib' = IF at' = "nub" THEN Answered ELSE [lib EXCEPT !.phase = "trapped"]
        /\ returned' = NoReturn
        /\ UNCHANGED <<connected, stopped>>
    BY DEF HostAnswers, Keep
  <1>2. /\ at = "wait" /\ at' \in {"wait", "nub"} /\ call' = call
        /\ call.command \in Others => at' = "nub" /\ transferred' = transferred
        /\ at' = "nub" => count' = Len(transferred')
    BY <1>1, AnswerEffect DEF LibInv
  <1>3. /\ lib.phase = "trapped" /\ call.command = CommandOf(lib.function)
        /\ lib \in [phase : {"looked", "trapped"}, function : Functions,
                    buffer : Addr, count : 0 .. MaxCount]
        /\ connected'
    BY <1>1, <1>2 DEF LibInv, LibType, CallInv, HostInv
  <1>4. CASE at' = "nub"
    <2>1. /\ lib' = Answered /\ lib'.phase = "answered"
          /\ lib'.function = lib.function
          /\ lib'.count = count' /\ lib'.moved = Len(transferred')
      BY <1>1, <1>4 DEF Answered
    <2>2. result' \in IoResults /\ count' \in Nat /\ Len(transferred') \in Nat
      BY DEF AccessInv, TypeOK
    <2>3. LibType'
      BY <1>3, <2>1, <2>2 DEF LibType, Answered
    <2> QED
      BY <1>1, <1>2, <1>3, <1>4, <2>1, <2>3
         DEF LibInv, CallInv, HostInv, AnswerInv, TheProgramIsTold, NoReturn
  <1>5. CASE at' = "wait"
    <2>1. /\ lib'.phase = "trapped" /\ lib'.function = lib.function
          /\ lib' \in [phase : {"looked", "trapped"}, function : Functions,
                       buffer : Addr, count : 0 .. MaxCount]
      BY <1>1, <1>3, <1>5
    <2> QED
      BY <1>1, <1>2, <1>3, <1>5, <2>1
         DEF LibInv, LibType, CallInv, HostInv, AnswerInv, TheProgramIsTold, NoReturn
  <1> QED
    BY <1>2, <1>4, <1>5

LEMMA HostDoesNotAnswerKeeps ==
  ASSUME LibInv, AccessInv, AccessInv', HostDoesNotAnswer
  PROVE  LibInv'
  <1>1. /\ NoAnswer
        /\ lib' = IF at' = "nub" THEN Answered ELSE [lib EXCEPT !.phase = "trapped"]
        /\ returned' = NoReturn
        /\ UNCHANGED <<connected, stopped>>
    BY DEF HostDoesNotAnswer, Keep
  <1>2. /\ at = "wait" /\ at' = "nub" /\ call' = call /\ result' # "kDSIONoError"
    BY <1>1, NoAnswerEffect
  <1>3. /\ lib \in [phase : {"looked", "trapped"}, function : Functions,
                    buffer : Addr, count : 0 .. MaxCount]
        /\ connected'
    BY <1>1, <1>2 DEF LibInv, LibType, CallInv, HostInv
  <1>4. /\ lib' = Answered /\ lib'.phase = "answered" /\ lib'.result = result'
    BY <1>1, <1>2 DEF Answered
  <1>5. result' \in IoResults /\ count' \in Nat /\ Len(transferred') \in Nat
    BY DEF AccessInv, TypeOK
  <1>6. LibType'
    BY <1>3, <1>4, <1>5 DEF LibType, Answered
  <1> QED
    BY <1>1, <1>2, <1>3, <1>4, <1>6
       DEF LibInv, CallInv, HostInv, AnswerInv, TheProgramIsTold, NoReturn

LEMMA ReturnKeeps ==
  ASSUME LibInv, Return
  PROVE  LibInv'
  <1>1. /\ at = "target" /\ lib.phase = "answered"
        /\ lib' = NoLib /\ UNCHANGED vars
        /\ returned' = [function |-> lib.function, err |-> ErrorOf(lib.result),
                        count |-> lib.count, moved |-> lib.moved, word |-> word]
    BY DEF Return
  <1>2. at' = at
    BY <1>1 DEF vars
  <1>3. lib.result \in IoResults
    BY <1>1 DEF LibInv, LibType
  <1>4. ErrorOf(lib.result) = "kIONoError" => lib.result = "kDSIONoError"
    BY <1>3 DEF ErrorOf, IoResults
  <1>5. TheProgramIsTold'
    BY <1>1, <1>4 DEF TheProgramIsTold, LibInv, AnswerInv
  <1> QED
    BY <1>1, <1>2, <1>5 DEF LibInv, LibType, CallInv, HostInv, AnswerInv, NoLib

\* The host, the switch and the commands.
LEMMA HostKeeps ==
  ASSUME LibInv,
         \/ TRK_DoConnect \/ TRKDoDisconnect
         \/ \E on \in BOOLEAN : SetStopped(on) \/ TRKDoSetOption(on)
         \/ Run \/ Interrupt \/ Commands \/ \E pc \in Addr : Stop(pc)
  PROVE  LibInv'
  <1>1. /\ UNCHANGED <<lib, word>> /\ returned' = NoReturn
        /\ at # "wait" /\ at' # "wait"
    <2>1. CASE TRK_DoConnect \/ TRKDoDisconnect
      BY <2>1 DEF TRK_DoConnect, TRKDoDisconnect, vars
    <2>2. CASE \E on \in BOOLEAN : SetStopped(on) \/ TRKDoSetOption(on)
      BY <2>2 DEF SetStopped, TRKDoSetOption, vars
    <2>3. CASE Run \/ Interrupt
      BY <2>3 DEF Run, Interrupt, TRK_Idle, TransportInterrupt
    <2>4. CASE Commands \/ \E pc \in Addr : Stop(pc)
      BY <2>4 DEF Commands, Stop, Command, TRKDoReadMemory, TRKDoWriteMemory,
                  RefuseExtended, TRKTargetAddStopInfo
    <2> QED
      BY <2>1, <2>2, <2>3, <2>4
  <1>2. HostInv'
    <2>1. CASE TRK_DoConnect \/ TRKDoDisconnect
      BY <2>1 DEF TRK_DoConnect, TRKDoDisconnect, vars, HostInv
    <2>2. CASE \E on \in BOOLEAN : SetStopped(on) \/ TRKDoSetOption(on)
      BY <2>2 DEF SetStopped, TRKDoSetOption, vars, LibInv, HostInv
    <2>3. CASE Run \/ Interrupt
      BY <2>3 DEF Run, Interrupt, TRK_Idle, TransportInterrupt, LibInv, HostInv
    <2>4. CASE Commands \/ \E pc \in Addr : Stop(pc)
      BY <1>1, <2>4 DEF Commands, Stop, HostInv
    <2> QED
      BY <2>1, <2>2, <2>3, <2>4
  <1>3. TheProgramIsTold'
    BY <1>1 DEF TheProgramIsTold, NoReturn
  <1> QED
    BY <1>1, <1>2, <1>3, LibKept

\* Both invariants are kept by every step.
LEMMA LibInvIsInductive ==
  AccessInv /\ LibInv /\ [MslNext]_<<vars, libVars>> => AccessInv' /\ LibInv'
  <1> SUFFICES ASSUME AccessInv, LibInv, [MslNext]_<<vars, libVars>>
               PROVE  AccessInv' /\ LibInv'
    OBVIOUS
  <1>1. AccessInv'
    BY LibStepsAccess, AccessInvIsInductive DEF LibInv
  <1>2. CASE \E f \in Functions, a \in Addr, n \in 0 .. MaxCount : Begin(f, a, n)
    BY <1>1, <1>2, BeginKeeps
  <1>3. CASE Trap \/ HostAnswers \/ HostDoesNotAnswer \/ Return
    BY <1>1, <1>3, TrapKeeps, HostAnswersKeeps, HostDoesNotAnswerKeeps, ReturnKeeps
  <1>4. CASE \/ TRK_DoConnect \/ TRKDoDisconnect
             \/ \E on \in BOOLEAN : SetStopped(on) \/ TRKDoSetOption(on)
             \/ Run \/ Interrupt \/ Commands \/ \E pc \in Addr : Stop(pc)
    BY <1>1, <1>4, HostKeeps
  <1>5. CASE UNCHANGED <<vars, libVars>>
    <2>1. UNCHANGED <<at, call, transferred, libVars>>
      BY <1>5 DEF vars, callVars
    <2> QED
      BY <1>1, <2>1 DEF libVars, LibInv, LibType, CallInv, HostInv, AnswerInv,
                        TheProgramIsTold
  <1> QED
    BY <1>2, <1>3, <1>4, <1>5 DEF MslNext

LEMMA LibInvHoldsAtStart == MslInit \/ MslInit_Alone => LibInv
  BY DEF MslInit, MslInit_Alone, Init, LibInv, LibType, CallInv, HostInv, AnswerInv,
         TheProgramIsTold, NoLib, NoReturn

LEMMA LibInvariance == MslSpec => [](AccessInv /\ LibInv)
  <1>1. MslInit \/ MslInit_Alone => AccessInv /\ LibInv
    BY AccessInvHoldsAtStart, LibInvHoldsAtStart DEF MslInit
  <1> QED
    BY <1>1, LibInvIsInductive, PTL DEF MslSpec

\* The nub asks only a host that is there, although the library looked long
\* before it trapped and hosts come and go: TRKDoDisconnect leaves the target
\* stopped, and who lets it run has connected.
THEOREM RequestsNeedAHost == MslSpec => []RequestsHaveAHost
  <1>1. LibInv => RequestsHaveAHost
    BY DEF LibInv, CallInv, HostInv, RequestsHaveAHost
  <1> QED
    BY <1>1, LibInvariance, PTL

\* The functions of mslsupp.c tell the program success only for what the host
\* did.
THEOREM ProgramsAreTold == MslSpec => []TheProgramIsTold
  BY LibInvariance, PTL DEF LibInv

\* What TargetAccess promises holds under the library, with a host that comes
\* and goes, and for a program without one.
THEOREM LibraryKeepsAccess ==
  MslSpec => /\ []NothingStaleIsExecuted
             /\ []AcknowledgedMeansDone
             /\ TransferIsExact
             /\ FailureIsReported
             /\ OnlyTheBufferChanges
  <1>1. AccessInv => NothingStaleIsExecuted /\ AcknowledgedMeansDone
    BY DEF AccessInv, FlushInv, ReplyInv, NothingStaleIsExecuted
  <1>2. LibInv => LibType
    BY DEF LibInv
  <1> QED
    BY <1>1, <1>2, LibStepsAccess, FailureStep, ChangeStep, ExactStep, LibInvariance,
       PTL DEF MslSpec, TransferIsExact, FailureIsReported, OnlyTheBufferChanges,
               Changed, Success, Exact
=============================================================================
