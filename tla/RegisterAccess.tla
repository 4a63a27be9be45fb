---------------------------- MODULE RegisterAccess ----------------------------
(***************************************************************************)
(* The registers of the target while the nub has the processor: what of    *)
(* them is kept in gTRKCPUState, what is still in the processor, what the  *)
(* host's commands do to either, and what the target goes on with.         *)
(*                                                                         *)
(* A value is known by whose it is and by the register it is meant for:    *)
(* "target", what the target itself had when it was interrupted; "host",   *)
(* what the host sent; "nub", what the nub needs for itself; "stack", what *)
(* lay behind the end of a packet; "old", a value that was the target's    *)
(* before, and of a timer the value at the interrupt.                      *)
(*                                                                         *)
(* Register n of the extended 2 block is the paired single register whose  *)
(* first half is floating point register n: they are one here.  The FPSCR  *)
(* and the FPECR are registers like the others, although the nub reaches   *)
(* them in a way of their own.                                             *)
(***************************************************************************)
EXTENDS Integers

CONSTANTS
  LastDefault, LastFP, LastExtended1, LastExtended2, \* of each block
  TBL, TBU, DEC, GQR0, HID2,                         \* in the extended 1 block
  Restored,      \* of the extended 1 block, by TRKRestoreExtended1Block
  HeaderWords,   \* sizeof(msgbuf_t), in words of 32 bits
  BufferWords,   \* kMessageBufferSize
  MaxWords       \* the most words of data in a packet

ASSUME RegisterAssumption ==
  /\ LastDefault \in Nat /\ LastFP \in Nat /\ LastExtended1 \in Nat
  /\ LastExtended2 \in 0 .. LastFP
  /\ TBL \in 0 .. LastExtended1 /\ TBU \in TBL .. LastExtended1
  /\ DEC \in 0 .. LastExtended1
  /\ Restored \subseteq (0 .. LastExtended1) \ ((TBL .. TBU) \cup {DEC})
  /\ {GQR0, HID2} \subseteq Restored
  /\ HeaderWords \in Nat \ {0}
  /\ MaxWords \in Nat /\ BufferWords \in Nat
  /\ HeaderWords + MaxWords <= BufferWords

Blocks == {"Default", "FP", "Extended1", "Extended2"}

Last(block) == CASE block = "Default"   -> LastDefault
                 [] block = "FP"        -> LastFP
                 [] block = "Extended1" -> LastExtended1
                 [] block = "Extended2" -> LastExtended2

\* The registers, by the block under which they are kept here.
DefaultRegs   == {"Default"} \X (0 .. LastDefault)
FPRegs        == {"FP"} \X (0 .. LastFP)
Extended1Regs == {"Extended1"} \X (0 .. LastExtended1)
KeptRegs      == DefaultRegs \cup Extended1Regs
Regs          == KeptRegs \cup FPRegs

Home(block, n) == IF block = "Extended2" THEN <<"FP", n>> ELSE <<block, n>>
Range(block, first, last) == {Home(block, n) : n \in first .. last}

Extended1(ns) == {"Extended1"} \X ns
TimeBase      == Extended1(TBL .. TBU)
Timers        == TimeBase \cup Extended1({DEC})

Target(r) == <<"target", r>>
Host(r)   == <<"host", r>>
Values    == {"target", "host", "nub", "stack", "old"} \X Regs

VARIABLES
  cpu,     \* the registers of the processor, less those that the nub uses, SPRG1
           \* to SPRG3 among them: ContextSwitch has those
  state,   \* gTRKCPUState
  restore, \* gTRKRestoreFlags.TBR
  at,      \* who has the processor
  told,    \* history: what the host can know of each register
  reply    \* history: the last reply

vars == <<cpu, state, restore, at, told, reply>>

NoReply == [status |-> "none", data |-> <<>>]

-----------------------------------------------------------------------------
(***************************************************************************)
(* From the target to the nub and back.                                    *)
(***************************************************************************)

\* Every word of the block is saved; the timers go on meanwhile.
TRKSaveExtended1Block ==
  [r \in KeptRegs |-> IF r \in Timers THEN <<"old", r>> ELSE Target(r)]

Init ==
  /\ cpu = [r \in Regs |-> Target(r)]
  /\ state = TRKSaveExtended1Block
  /\ restore = FALSE
  /\ at = "nub"
  /\ told = [r \in Regs |-> "target"]
  /\ reply = NoReply

\* Whatever the registers hold is now what the target has made of them.
TRK_InterruptHandler ==
  /\ at = "target"
  /\ at' = "nub"
  /\ cpu' = [r \in Regs |-> Target(r)]
  /\ state' = TRKSaveExtended1Block
  /\ told' = [r \in Regs |-> "target"]
  /\ reply' = NoReply
  /\ UNCHANGED restore

\* The time base is always restored.
Bug_Extended1Restored == Extended1(Restored) \cup TimeBase

\* The decrementer has a flag, too, but no code that restores it.
Extended1Restored == Extended1(Restored) \cup (IF restore THEN TimeBase ELSE {})

TRKSwapAndGo ==
  /\ at = "nub"
  /\ at' = "target"
  /\ cpu' = [r \in Regs |-> IF r \in DefaultRegs \cup Extended1Restored
                            THEN state[r] ELSE cpu[r]]
  /\ state' = [r \in KeptRegs |-> <<"old", r>>]
  /\ restore' = FALSE
  /\ reply' = NoReply
  /\ UNCHANGED told

-----------------------------------------------------------------------------
(***************************************************************************)
(* Commands.                                                               *)
(***************************************************************************)

ReplyTo(err) ==
  CASE err = "kNoError"                -> "kDSReplyNoError"
    [] err = "kUnsupportedError"       -> "kDSReplyUnsupportedOptionError"
    [] err = "kInvalidRegister"        -> "kDSReplyInvalidRegisterRange"
    [] err = "kMessageBufferUnderflow" -> "kDSReplyPacketSizeError"
    [] err = "kCWDSException"          -> "kDSReplyCWDSException"

Replies == {"kDSReplyNoError", "kDSReplyUnsupportedOptionError",
            "kDSReplyInvalidRegisterRange", "kDSReplyPacketSizeError",
            "kDSReplyCWDSException"}

\* Nothing but the reply.
Refuse(err) ==
  /\ at = "nub"
  /\ reply' = [NoReply EXCEPT !.status = ReplyTo(err)]
  /\ UNCHANGED <<cpu, state, restore, at, told>>

\* A special purpose register of the nub's own, written by an instruction that
\* is put together for it.
TRKPPCAccessSPR(regs, n) ==
  [regs EXCEPT ![<<"Extended1", n>>] = <<"nub", <<"Extended1", n>>>>]

\* Paired singles are moved as they are only with these two so.
PairedSingle(regs) == TRKPPCAccessSPR(TRKPPCAccessSPR(regs, HID2), GQR0)

\* All of them from the processor.
Bug_Value(block, n) == cpu[Home(block, n)]

\* Default and extended 1 from the state, and the others one by one from the
\* processor.
Value(block, n) ==
  IF block \in {"Default", "Extended1"} THEN state[Home(block, n)]
  ELSE cpu[Home(block, n)]

\* All four blocks in one reply, unless in one of them the nub meets its own
\* exception: then the blocks after it are not read.
ReadAll(failed) ==
  /\ at = "nub"
  /\ reply' = IF failed = "none"
              THEN [status |-> ReplyTo("kNoError"),
                    data |-> [block \in Blocks |->
                                [n \in 0 .. Last(block) |-> Value(block, n)]]]
              ELSE [NoReply EXCEPT !.status = ReplyTo("kCWDSException")]
  /\ cpu' = IF failed = "FP" THEN cpu ELSE PairedSingle(cpu)
  /\ UNCHANGED <<state, restore, at, told>>

\* The range is looked at, and all registers are sent.  (The code has the names
\* of the two numbers the other way round.)
TRKDoReadRegisters(first, last) ==
  IF first > last THEN Refuse("kInvalidRegister")
  ELSE \E failed \in {"none", "FP", "Extended2"} : ReadAll(failed)

\* The host is told that the target stopped, and with it what the default block
\* holds.  (When that is, StepControl says, and TargetAccess, what else is told.)
TRKTargetAddStopInfo ==
  /\ at = "nub"
  /\ reply' = [status |-> "kDSNotifyStopped",
                data |-> [block \in {"Default"} |->
                            [n \in 0 .. LastDefault |-> Value(block, n)]]]
  /\ UNCHANGED <<cpu, state, restore, at, told>>

Width(block) == IF block \in {"Default", "Extended1"} THEN 1 ELSE 2

\* The length of a buffer with a packet of this many words of data: the header
\* is counted twice if there are any.
TRKTestForPacket(words) ==
  LET length == 2 * HeaderWords + words
  IN  IF words = 0 THEN HeaderWords
      ELSE IF length > BufferWords THEN BufferWords ELSE length

\* In the buffer, and in the packet, there are data for the first n registers.
Fits(block, n, words) == HeaderWords + n * Width(block) <= TRKTestForPacket(words)
Sent(block, n, words) == n * Width(block) <= words

\* The value for register n of a range from first.
Got(block, first, n, words) ==
  <<IF Sent(block, n - first + 1, words) THEN "host" ELSE "stack", Home(block, n)>>

\* regs, with the registers ns written.
Written(regs, block, first, ns, words) ==
  [r \in DOMAIN regs |-> IF r \in {Home(block, n) : n \in ns}
                         THEN Got(block, first, r[2], words) ELSE regs[r]]

\* The host knows what is in a register when all that it sent was taken.  The
\* halves of the time base are set together.
Acknowledge(block, first, last, words, err) ==
  LET regs == Range(block, first, last)
      all  == err = "kNoError" /\ Sent(block, last - first + 1, words)
  IN  /\ reply' = [NoReply EXCEPT !.status = ReplyTo(err)]
      /\ told' = [r \in Regs |->
                    IF r \in regs THEN IF all THEN "host" ELSE "unknown"
                    ELSE IF /\ r \in TimeBase /\ told[r] = "target"
                            /\ regs \cap TimeBase # {}
                    THEN "unknown" ELSE told[r]]

\* The block is written up to the end of the buffer.
MessageGetBlock_ui32(block, first, last, words) ==
  /\ state' = Written(state, block, first,
                      {n \in first .. last : Fits(block, n - first + 1, words)}, words)
  /\ Acknowledge(block, first, last, words,
                 IF Fits(block, last - first + 1, words) THEN "kNoError"
                 ELSE "kMessageBufferUnderflow")

TRKTargetAccessDefault(first, last, words) ==
  /\ at = "nub"
  /\ MessageGetBlock_ui32("Default", first, last, words)
  /\ UNCHANGED <<cpu, restore, at>>

\* The flag is set before the data are taken.
TRKTargetAccessExtended1(first, last, words) ==
  /\ at = "nub"
  /\ restore' = (restore \/ (first <= TBU /\ last >= TBL))
  /\ MessageGetBlock_ui32("Extended1", first, last, words)
  /\ UNCHANGED <<cpu, at>>

\* The error of a buffer that ends is lost, and the writing goes on with the
\* value there is.  A register whose access fails keeps its value.
TRKTargetAccessFP(first, last, words, failed) ==
  /\ at = "nub"
  /\ cpu' = Written(cpu, "FP", first, (first .. last) \ failed, words)
  /\ Acknowledge("FP", first, last, words,
                 IF failed = {} THEN "kNoError" ELSE "kCWDSException")
  /\ UNCHANGED <<state, restore, at>>

TRKTargetAccessExtended2(first, last, words, failed) ==
  /\ at = "nub"
  /\ cpu' = Written(PairedSingle(cpu), "Extended2", first,
                    (first .. last) \ failed, words)
  /\ Acknowledge("Extended2", first, last, words,
                 IF failed = {} THEN "kNoError" ELSE "kCWDSException")
  /\ UNCHANGED <<state, restore, at>>

\* The host sends what the registers of a range take, or less.
Packets(block, first, last) ==
  {words \in 0 .. MaxWords : words <= (last - first + 1) * Width(block)}

TRKDoWriteRegisters(block, first, last) ==
  IF first > last THEN Refuse("kInvalidRegister")
  ELSE IF block \notin Blocks THEN Refuse("kUnsupportedError")
  ELSE IF last > Last(block) THEN Refuse("kInvalidRegister")
  ELSE \E words \in Packets(block, first, last) :
         \/ block = "Default" /\ TRKTargetAccessDefault(first, last, words)
         \/ block = "Extended1" /\ TRKTargetAccessExtended1(first, last, words)
         \/ \E failed \in SUBSET (first .. last) :
              \/ block = "FP" /\ TRKTargetAccessFP(first, last, words, failed)
              \/ block = "Extended2" /\ TRKTargetAccessExtended2(first, last, words, failed)

\* Any of the registers that the host may ask for, and one behind them.
Numbers == 0 .. (LastDefault + LastFP + LastExtended1 + 1)

Next ==
  \/ TRK_InterruptHandler
  \/ TRKSwapAndGo
  \/ TRKTargetAddStopInfo
  \/ \E first, last \in Numbers :
       \/ TRKDoReadRegisters(first, last)
       \/ \E block \in Blocks \cup {"other"} : TRKDoWriteRegisters(block, first, last)

Spec == Init /\ [][Next]_vars

-----------------------------------------------------------------------------
(***************************************************************************)
(* What must hold.                                                         *)
(***************************************************************************)

TypeOK ==
  /\ cpu \in [Regs -> Values]
  /\ state \in [KeptRegs -> Values]
  /\ restore \in BOOLEAN
  /\ at \in {"nub", "target"}
  /\ told \in [Regs -> {"target", "host", "unknown"}]
  /\ reply.status \in {"none", "kDSNotifyStopped"} \cup Replies

\* The target goes on with what the host wrote to its registers and was told
\* that it did, and else with what it had: whatever the nub needed for itself,
\* and with timers that have not been set back.  What the host wrote does not
\* reach the registers that TRKRestoreExtended1Block leaves out.
Reaches == DefaultRegs \cup FPRegs \cup Extended1(Restored) \cup TimeBase

TheTargetGoesOnWith ==
  [][ at = "nub" /\ at' = "target" =>
        \A r \in Regs :
          /\ told[r] = "target" => cpu'[r] = Target(r)
          /\ told[r] = "host" /\ r \in Reaches => cpu'[r] = Host(r) ]_vars

\* What the host reads of a register, in any of the blocks, or is told of it when
\* the target stops, is what it wrote there, or what the target had: also after
\* the nub changed the register in the processor.  (Of a timer it reads the
\* value at the interrupt.)
TheHostReads ==
  reply.status \in {"kDSReplyNoError", "kDSNotifyStopped"} /\ reply.data # <<>> =>
    \A block \in DOMAIN reply.data : \A n \in 0 .. Last(block) :
      LET r == Home(block, n)
      IN  r \notin Timers =>
            /\ told[r] = "target" => reply.data[block][n] = Target(r)
            /\ told[r] = "host" => reply.data[block][n] = Host(r)
=============================================================================
