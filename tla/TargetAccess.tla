---------------------------- MODULE TargetAccess ----------------------------
(***************************************************************************)
(* What the nub does to the memory of the target: the memory commands of   *)
(* the host, and the file calls of the target, whose data the host sends   *)
(* or takes in messages of limited length.  TrkNub says who has the        *)
(* buffers meanwhile; here are the data, the counts and the results.       *)
(*                                                                         *)
(* An access of the memory commands may fault: the nub catches its own     *)
(* exception and skips the instruction.  The buffer of a file call is      *)
(* memory of the target's own, which does not fault.  The words in which a *)
(* call returns its count or handle are not in `memory', and the host does *)
(* not ask for more than fits in a message.                                *)
(***************************************************************************)
EXTENDS Integers, Sequences

CONSTANTS
  NumAddr,               \* addresses wrap, as a u32 does
  Unmapped,              \* the addresses at which an access faults
  DS_MAXREADWRITELENGTH, \* bytes of data in a message
  MaxCount,              \* the most bytes of a call or a command
  PPC_CACHE_ALIGNMENT,
  StopInfoBytes          \* of memory, in the notification of a stop

Addr   == 0 .. NumAddr - 1
Mapped == Addr \ Unmapped

ASSUME AccessAssumption ==
  /\ NumAddr \in Nat \ {0}
  /\ Unmapped \subseteq Addr
  /\ DS_MAXREADWRITELENGTH \in Nat \ {0}
  /\ MaxCount \in 0 .. NumAddr
  /\ PPC_CACHE_ALIGNMENT \in Nat \ {0}
  /\ StopInfoBytes \in 1 .. NumAddr
  /\ \A a \in Addr : a - (a % StopInfoBytes) + StopInfoBytes <= NumAddr

VARIABLES
  memory,       \* of the target; a byte is known by where it comes from
  unflushed,    \* written by the nub, and old in the instruction cache
  at,           \* who has the processor; "wait": the nub, in TRK_RequestSend
  call,         \* the support call: its command, buffer and count
  done,         \* bytes that the messages before took
  length,       \* bytes that the message under way asks for
  result,       \* r3 after the call
  count,        \* the count after the call
  reply,        \* history: the last memory command, and its reply
  transferred,  \* history: the bytes that went to or came from the file
  refused,      \* history: a message of the call got no good reply
  overlong      \* history: a read got more than it asked for

answerVars == <<result, count>>
callVars == <<call, done, length, answerVars, transferred, refused, overlong>>
vars == <<memory, unflushed, at, callVars, reply>>

IoResults == {"kDSIONoError", "kDSIOError", "kDSIOEOF"}
Accesses  == {"kDSReadFile", "kDSWriteFile"}
Others    == {"kDSOpenFile", "kDSCloseFile", "kDSPositionFile"}
Calls     == [command : Accesses \cup Others, buffer : Addr, count : 0 .. MaxCount]

\* The addresses of n bytes from a, and the bytes there.
Span(a, n) == {b \in Addr : a <= b /\ b < a + n}
Bytes(a, n) == [i \in 1 .. n |-> memory[a + i - 1]]

\* Memory after the data are copied to a, where that is possible.
Copied(a, data) ==
  [b \in Addr |-> IF b \in Span(a, Len(data)) \ Unmapped
                  THEN data[b - a + 1] ELSE memory[b]]

Data(source, from, n) == [i \in 1 .. n |-> <<source, from + i>>]

Byte == {"target", "host", "file", "stack"} \X Nat

NoCall  == [command |-> "kDSCloseFile", buffer |-> 0, count |-> 0]
NoReply == [status |-> "none", data |-> <<>>, start |-> 0, dataSpace |-> FALSE]

Init ==
  /\ memory = [a \in Addr |-> <<"target", a>>]
  /\ unflushed = {}
  /\ at = "nub"
  /\ call = NoCall
  /\ done = 0
  /\ length = 0
  /\ result = "kDSIONoError"
  /\ count = 0
  /\ reply = NoReply
  /\ transferred = <<>>
  /\ refused = FALSE
  /\ overlong = FALSE

\* What was a call is not kept after it.
Forget ==
  /\ call' = NoCall
  /\ done' = 0
  /\ length' = 0
  /\ result' = "kDSIONoError"
  /\ count' = 0
  /\ transferred' = <<>>
  /\ refused' = FALSE
  /\ overlong' = FALSE

-----------------------------------------------------------------------------
(***************************************************************************)
(* Memory commands.                                                        *)
(***************************************************************************)

\* The one range of gTRKMemMap is all of memory: what is left to refuse is a
\* range that wraps, or is empty, except at 0 where the end wraps too.
TRKValidMemory32(start, n) == start <= (start + n - 1) % NumAddr

\* The nub's own exception is looked for before the copy.
Bug_TRKTargetAccessMemory(start, n) ==
  IF ~TRKValidMemory32(start, n) THEN "kDSReplyInvalidMemoryRange"
  ELSE "kDSReplyNoError"

\* The error of an access of n bytes from start.
TRKTargetAccessMemory(start, n) ==
  IF ~TRKValidMemory32(start, n) THEN "kDSReplyInvalidMemoryRange"
  ELSE IF Span(start, n) \cap Unmapped # {} THEN "kDSReplyCWDSException"
  ELSE "kDSReplyNoError"

\* With an error there are no data.
Reply(status, data, start, dataSpace) ==
  reply' = IF status = "kDSReplyNoError"
           THEN [status |-> status, data |-> data,
                 start |-> start, dataSpace |-> dataSpace]
           ELSE [NoReply EXCEPT !.status = status]

\* A read of data space is answered from the place in the stack buffer that
\* the address has in its cache line: the last bytes are whatever is there.
TRKDoReadMemory(start, n, dataSpace) ==
  LET shift == IF dataSpace THEN start % PPC_CACHE_ALIGNMENT ELSE 0
      data  == [i \in 1 .. n |-> IF shift + i <= n
                                 THEN memory[start + shift + i - 1]
                                 ELSE <<"stack", i>>]
  IN  /\ at = "nub"
      /\ Reply(TRKTargetAccessMemory(start, n), data, start, dataSpace)
      /\ Forget
      /\ UNCHANGED <<memory, unflushed, at>>

\* A write goes on after a byte that faults, and the whole range is flushed.
TRKDoWriteMemory(start, n) ==
  LET data == Data("host", 0, n)
  IN  /\ at = "nub"
      /\ Reply(TRKTargetAccessMemory(start, n), data, start, FALSE)
      /\ IF TRKValidMemory32(start, n)
         THEN /\ memory' = Copied(start, data)
              /\ unflushed' = unflushed \ Span(start, n)
         ELSE UNCHANGED <<memory, unflushed>>
      /\ Forget
      /\ UNCHANGED at

\* An address of more than 32 bits.
RefuseExtended ==
  /\ at = "nub"
  /\ Reply("kDSReplyUnsupportedOptionError", <<>>, 0, FALSE)
  /\ Forget
  /\ UNCHANGED <<memory, unflushed, at>>

\* What is in the nub's buffer after a read of n bytes from start, whose error
\* nobody looks at: for a byte that faults, what is in a register of the nub.
Fetched(start, n) ==
  [i \in 1 .. n |-> IF TRKValidMemory32(start, n) /\ start + i - 1 \in Mapped
                    THEN memory[start + i - 1] ELSE <<"stack", i>>]

TRKTargetReadInstruction(pc) == Fetched(pc, 1)[1]

\* The notification shows the instruction at the PC, an address of which is one
\* instruction here, and the memory around it.  (When the target stops,
\* StepControl says.)
TRKTargetAddStopInfo(pc) ==
  LET start == pc - (pc % StopInfoBytes)
  IN  /\ at = "nub"
      /\ reply' = [status |-> "kDSNotifyStopped", pc |-> pc,
                   instruction |-> TRKTargetReadInstruction(pc),
                   data |-> Fetched(start, StopInfoBytes), start |-> start]
      /\ Forget
      /\ UNCHANGED <<memory, unflushed, at>>

-----------------------------------------------------------------------------
(***************************************************************************)
(* Support calls.                                                          *)
(***************************************************************************)

\* The io_result is left as it is.
Bug_FinishCall(io_result, failed, n, written) ==
  /\ at' = "nub"
  /\ result' = io_result
  /\ count' = n
  /\ unflushed' = IF call'.command = "kDSReadFile"
                  THEN (unflushed \cup written) \ Span(call'.buffer, n)
                  ELSE unflushed
  /\ UNCHANGED <<done, length>>

\* Only what went well is flushed.
Bug_FinishCall_Flush(io_result, failed, n, written) ==
  /\ at' = "nub"
  /\ result' = IF io_result = "kDSIONoError" /\ failed THEN "kDSIOError" ELSE io_result
  /\ count' = n
  /\ unflushed' = IF call'.command = "kDSReadFile" /\ ~failed
                  THEN (unflushed \cup written) \ Span(call'.buffer, n)
                  ELSE unflushed \cup written
  /\ UNCHANGED <<done, length>>

\* The end of TRKTargetSupportRequest: an error of another kind is made one of
\* the io results, the count set, and what a read brought flushed.
FinishCall(io_result, failed, n, written) ==
  /\ at' = "nub"
  /\ result' = IF io_result = "kDSIONoError" /\ failed THEN "kDSIOError" ELSE io_result
  /\ count' = n
  /\ unflushed' = IF call'.command = "kDSReadFile"
                  THEN (unflushed \cup written) \ Span(call'.buffer, n)
                  ELSE unflushed
  /\ UNCHANGED <<done, length>>

\* The message that goes on after n bytes.
SendRequest(n, written) ==
  /\ at' = "wait"
  /\ done' = n
  /\ length' = IF call'.count - n > DS_MAXREADWRITELENGTH
               THEN DS_MAXREADWRITELENGTH ELSE call'.count - n
  /\ unflushed' = unflushed \cup written
  /\ UNCHANGED answerVars

\* The target calls.  With nothing to do, or no buffer (NULL), the io result is
\* uninitialised.
TRKTargetSupportRequest(c) ==
  /\ at = "target"
  /\ c.command \in Accesses => c.buffer + c.count <= NumAddr
                               /\ Span(c.buffer, c.count) \subseteq Mapped
  /\ call' = c
  /\ transferred' = <<>>
  /\ refused' = FALSE
  /\ overlong' = FALSE
  /\ IF c.command \in Accesses /\ (c.buffer = 0 \/ c.count = 0)
     THEN \E stale \in IoResults : FinishCall(stale, TRUE, c.count, {})
     ELSE SendRequest(0, {})
  /\ UNCHANGED <<memory, reply>>

\* The second message is for the place of the first.
Bug_Place == call.buffer

\* &data[done]
Place == call.buffer + done

\* More than was asked for is taken, too.
Bug_Taken(n) == call.command = "kDSReadFile"

\* The data of a reply are taken unless they are more than was asked for.
Taken(n) == call.command = "kDSReadFile" /\ n <= length

\* A reply that says n bytes.  If that is not what the message asked for, it is
\* the last message.
TRK_SuppAccessFile(io_result, n) ==
  LET bytes   == IF call.command = "kDSReadFile"
                 THEN Data("file", done, n) ELSE Bytes(Place, n)
      written == IF Taken(n) THEN Span(Place, n) ELSE {}
      more    == n = length /\ done + n < call.count /\ io_result = "kDSIONoError"
  IN  /\ at = "wait" /\ call.command \in Accesses
      /\ transferred' = transferred \o bytes
      /\ memory' = IF Taken(n) THEN Copied(Place, bytes) ELSE memory
      /\ overlong' = (overlong \/ n > length)
      /\ UNCHANGED <<call, reply, refused>>
      /\ IF more THEN SendRequest(done + n, written)
                 ELSE FinishCall(io_result, FALSE, done + n, written)

\* No good reply.  The result and the length are read all the same, through a
\* pointer to another message or to none.
TRK_SuppAccessFile_NoReply(stale, n) ==
  /\ at = "wait" /\ call.command \in Accesses
  /\ refused' = TRUE
  /\ UNCHANGED <<memory, call, reply, transferred, overlong>>
  /\ FinishCall(stale, TRUE, done + n, {})

\* Open, close and position are one message.
HandleFileRequest(io_result) ==
  /\ at = "wait" /\ call.command \in Others
  /\ UNCHANGED <<memory, call, reply, transferred, refused, overlong>>
  /\ FinishCall(io_result, FALSE, 0, {})

\* Only open reads the result where there is no good reply.
HandleFileRequest_NoReply(stale) ==
  /\ at = "wait" /\ call.command \in Others
  /\ refused' = TRUE
  /\ UNCHANGED <<memory, call, reply, transferred, overlong>>
  /\ FinishCall(IF call.command = "kDSOpenFile" THEN stale ELSE "kDSIONoError",
                TRUE, 0, {})

-----------------------------------------------------------------------------
\* The target gets the processor, and an interrupt takes it away.
TRK_Idle ==
  /\ at = "nub"
  /\ at' = "target"
  /\ reply' = NoReply
  /\ Forget
  /\ UNCHANGED <<memory, unflushed>>

TransportInterrupt ==
  /\ at = "target"
  /\ at' = "nub"
  /\ UNCHANGED <<memory, unflushed, callVars, reply>>

Command ==
  \E start \in Addr, n \in 0 .. MaxCount :
    \/ \E dataSpace \in BOOLEAN : TRKDoReadMemory(start, n, dataSpace)
    \/ TRKDoWriteMemory(start, n)

\* A host writes no more than it was given, but a console may return more than
\* it was asked for.
Answer ==
  \E io_result \in IoResults :
    \/ \E n \in 0 .. length : TRK_SuppAccessFile(io_result, n)
    \/ /\ call.command = "kDSReadFile"
       /\ TRK_SuppAccessFile(io_result, length + 1)
    \/ HandleFileRequest(io_result)

NoAnswer ==
  \E stale \in IoResults :
    \/ \E n \in 0 .. MaxCount : TRK_SuppAccessFile_NoReply(stale, n)
    \/ HandleFileRequest_NoReply(stale)

Next ==
  \/ Command
  \/ RefuseExtended
  \/ \E pc \in Addr : TRKTargetAddStopInfo(pc)
  \/ \E c \in Calls : TRKTargetSupportRequest(c)
  \/ Answer
  \/ NoAnswer
  \/ TRK_Idle
  \/ TransportInterrupt

Spec == Init /\ [][Next]_vars

-----------------------------------------------------------------------------
(***************************************************************************)
(* What must hold.                                                         *)
(***************************************************************************)

TypeOK ==
  /\ memory \in [Addr -> Byte]
  /\ unflushed \subseteq Addr
  /\ at \in {"nub", "target", "wait"}
  /\ call \in Calls
  /\ done \in 0 .. MaxCount
  /\ length \in 0 .. DS_MAXREADWRITELENGTH
  /\ result \in IoResults
  /\ count \in Nat
  /\ transferred \in Seq(Byte)

\* The target never executes an old copy of what the nub wrote: also where a
\* read ended early, failed after some messages, or reported a count that is
\* not that of the bytes it brought.
NothingStaleIsExecuted == at = "target" => unflushed = {}

\* A memory command that is acknowledged without error did what it says for
\* the whole range: what a read answers is what is there, and what a write
\* brought is there.  (Of a read of data space that holds only at the start of
\* a cache line.)  What a notification shows is there, too, but for the bytes
\* that fault: of those it does not say that they do.
AcknowledgedMeansDone ==
  /\ reply.status = "kDSReplyNoError" =>
       /\ Span(reply.start, Len(reply.data)) \subseteq Mapped
       /\ \/ reply.data = Bytes(reply.start, Len(reply.data))
          \/ reply.dataSpace /\ reply.start % PPC_CACHE_ALIGNMENT # 0
  /\ reply.status = "kDSNotifyStopped" =>
       /\ reply.pc \in Mapped => reply.instruction = memory[reply.pc]
       /\ \A i \in 1 .. StopInfoBytes :
            reply.start + i - 1 \in Mapped => reply.data[i] = memory[reply.start + i - 1]

CallEnds == at = "wait" /\ at' = "nub"

\* A call that the target is told went well moved as many bytes as it is told,
\* and those: in as many messages as it took, with a host that takes or gives
\* less than it is asked for.  A host that gives more is believed its count.
TransferIsExact ==
  [][ CallEnds /\ call.command \in Accesses /\ result' = "kDSIONoError"
      /\ ~overlong' =>
        /\ count' = Len(transferred')
        /\ count' <= call.count
        /\ transferred' = [i \in 1 .. count' |-> memory'[call.buffer + i - 1]] ]_vars

\* A call of which a message got no good reply is not reported to have gone
\* well, whatever is read in its place.
FailureIsReported ==
  [][ CallEnds /\ refused' => result' # "kDSIONoError" ]_vars

\* A call changes nothing but the bytes of a read's buffer, whatever the
\* lengths in the replies.
OnlyTheBufferChanges ==
  [][ at = "wait" =>
        \A a \in Addr : memory'[a] # memory[a] =>
          call.command = "kDSReadFile" /\ a \in Span(call.buffer, call.count) ]_vars
=============================================================================
