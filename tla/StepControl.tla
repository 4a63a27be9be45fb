----------------------------- MODULE StepControl -----------------------------
(***************************************************************************)
(* The single steps of the target, instruction by instruction.  A step is  *)
(* made of traces: the nub sets the trace bit SE in the MSR of the target, *)
(* lets it execute one instruction, takes the trace exception, and decides *)
(* whether the step is done.  TrkNub leaves that decision open; here it is *)
(* made by count and range, over a small program that also holds           *)
(* breakpoints and support traps.                                          *)
(*                                                                         *)
(* What leaves all of this state alone has no action: a request that is    *)
(* refused, a step over, input that makes TRKSwapAndGo return at once.     *)
(***************************************************************************)
EXTENDS Integers

CONSTANTS
  NumAddr,     \* instructions of the target: addresses wrap, as a u32 does
  MaxCount,    \* the largest count of a step: 255, a u8
  Instruction  \* the instructions that occur

Kinds == {"plain", "trap", "support", "badSupport"}

ASSUME StepAssumption ==
  /\ NumAddr \in Nat \ {0}
  /\ MaxCount \in Nat \ {0}
  /\ Instruction \subseteq Kinds

VARIABLES
  code,         \* the program of the target
  PC,           \* gTRKCPUState.Default.PC
  msr,          \* the bits SE and EE of gTRKCPUState.Extended1.MSR
  exceptionID,  \* gTRKCPUState.Extended1.exceptionID
  stopped,      \* gTRKState.stopped
  step,         \* gTRKStepStatus
  at,           \* who has the processor
  event,        \* the event of the target that is queued
  left,         \* history: instructions left of a counted step, -1 past its end
  serviced,     \* history: a support call was serviced during the step
  moved         \* history: the host wrote the PC during the step

vars == <<code, PC, msr, exceptionID, stopped, step, at, event,
          left, serviced, moved>>
saved == <<code, PC, exceptionID>>
history == <<left, serviced, moved>>

Addr  == 0 .. NumAddr - 1
Ranges == Addr \X Addr
Step  == [active : BOOLEAN, type : {"intoCount", "intoRange"},
          count : 0 .. MaxCount, range : Ranges]

Init ==
  /\ code \in [Addr -> Instruction]
  /\ PC \in Addr
  /\ msr \in [SE : {FALSE}, EE : BOOLEAN]
  /\ exceptionID = "none"
  /\ stopped = TRUE
  /\ step = [active |-> FALSE, type |-> "intoCount", count |-> 0,
             range |-> <<0, 0>>]
  /\ at = "nub"
  /\ event = "none"
  /\ left = -1
  /\ serviced = FALSE
  /\ moved = FALSE

-----------------------------------------------------------------------------
(***************************************************************************)
(* Steps.                                                                  *)
(***************************************************************************)

\* Interrupts are off while the target is traced, and on when the trace ends.
TRKTargetEnableTrace(enable) == msr' = [SE |-> enable, EE |-> ~enable]

\* One instruction more than asked for.
Bug_TRKTargetDoStep(s) ==
  /\ step' = [s EXCEPT !.active = TRUE]
  /\ TRKTargetEnableTrace(TRUE)
  /\ stopped' = FALSE

\* The step status s is set and the target is ready to execute one
\* instruction.
TRKTargetDoStep(s) ==
  /\ step' = [s EXCEPT !.active = TRUE,
                       !.count  = IF s.type = "intoCount" THEN @ - 1 ELSE @]
  /\ TRKTargetEnableTrace(TRUE)
  /\ stopped' = FALSE

\* The range ends one instruction late.
Bug_InRange(pc, range) == pc >= range[1] /\ pc <= range[2] + 1

\* The range includes its ends.
InRange(pc, range) == pc >= range[1] /\ pc <= range[2]

\* The last instruction is not traced.
Bug_StepGoesOn ==
  /\ exceptionID = "trace"
  /\ \/ step.type = "intoCount" /\ step.count > 1
     \/ step.type = "intoRange" /\ InRange(PC, step.range)

\* A step that is not done: anything but a trace exception ends it.
StepGoesOn ==
  /\ exceptionID = "trace"
  /\ \/ step.type = "intoCount" /\ step.count > 0
     \/ step.type = "intoRange" /\ InRange(PC, step.range)

Handling(events) == at = "nub" /\ event \in events

\* TRKTargetCheckStep where the step is active and goes on.
TRKTargetInterrupt_Again ==
  /\ Handling({"breakpoint", "exception"})
  /\ step.active /\ StepGoesOn
  /\ TRKTargetDoStep(step)
  /\ event' = "none"
  /\ UNCHANGED <<saved, at, history>>

\* The trace bit is left on.
Bug_TRKTargetInterrupt ==
  /\ Handling({"breakpoint", "exception"})
  /\ ~(step.active /\ StepGoesOn)
  /\ step' = [step EXCEPT !.active = FALSE]
  /\ stopped' = TRUE
  /\ event' = "none"
  /\ UNCHANGED <<saved, msr, at, history>>

\* There is no step, or it is done: the target is stopped and the host told.
TRKTargetInterrupt ==
  /\ Handling({"breakpoint", "exception"})
  /\ ~(step.active /\ StepGoesOn)
  /\ IF step.active
     THEN TRKTargetEnableTrace(FALSE) /\ step' = [step EXCEPT !.active = FALSE]
     ELSE UNCHANGED <<msr, step>>
  /\ stopped' = TRUE
  /\ event' = "none"
  /\ UNCHANGED <<saved, at, history>>

\* The address after a.
Following(a) == (a + 1) % NumAddr

\* A support call is serviced and the target goes on after its trap.  The step
\* is not looked at.
TRKTargetSupportRequest ==
  /\ Handling({"support"})
  /\ code[PC] = "support"
  /\ PC' = Following(PC)
  /\ serviced' = TRUE
  /\ event' = "none"
  /\ UNCHANGED <<code, msr, exceptionID, stopped, step, at, left, moved>>

\* A call that is not valid is dropped.
Bug_TRKTargetSupportRequest_Invalid ==
  /\ Handling({"support"})
  /\ code[PC] # "support"
  /\ event' = "none"
  /\ UNCHANGED <<saved, msr, stopped, step, at, history>>

\* A call that is not valid is posted again as an exception.
TRKTargetSupportRequest_Invalid ==
  /\ Handling({"support"})
  /\ code[PC] # "support"
  /\ event' = "exception"
  /\ UNCHANGED <<saved, msr, stopped, step, at, history>>

-----------------------------------------------------------------------------
(***************************************************************************)
(* Commands of the host.  The main loop handles them when there is no      *)
(* event of the target.                                                    *)
(***************************************************************************)

Command == Handling({"none"})

\* What TRKDoStep does for the parameters s.  A request that makes no sense,
\* or comes while the target is not stopped, is refused and changes nothing.
TRKDoStep(s) ==
  /\ Command /\ stopped
  /\ TRKTargetDoStep(s)
  /\ left' = IF s.type = "intoCount" THEN s.count ELSE -1
  /\ serviced' = FALSE
  /\ moved' = FALSE
  /\ UNCHANGED <<saved, at, event>>

\* TRKTargetSingleStep.
StepIntoCount(n) ==
  /\ n >= 1
  /\ TRKDoStep([step EXCEPT !.type = "intoCount", !.count = n])

\* TRKTargetStepOutOfRange.
StepIntoRange(range) ==
  /\ InRange(PC, range)
  /\ TRKDoStep([step EXCEPT !.type = "intoRange", !.range = range])

TRKDoContinue ==
  /\ Command /\ stopped
  /\ stopped' = FALSE
  /\ at' = "target"
  /\ UNCHANGED <<saved, msr, step, event, history>>

\* A step in progress is not cancelled.
TRKDoStop ==
  /\ Command /\ ~stopped
  /\ stopped' = TRUE
  /\ UNCHANGED <<saved, msr, step, at, event, history>>

TRKDoWriteRegisters(pc) ==
  /\ Command
  /\ PC' = pc
  /\ moved' = TRUE
  /\ UNCHANGED <<code, msr, exceptionID, stopped, step, at, event,
                 left, serviced>>

\* With nothing to do the nub gives the processor to a target that is not
\* stopped.
TRK_Idle ==
  /\ Command /\ ~stopped
  /\ at' = "target"
  /\ UNCHANGED <<saved, msr, stopped, step, event, history>>

-----------------------------------------------------------------------------
(***************************************************************************)
(* The target, and TRK_InterruptHandler and TRKPostInterruptEvent after    *)
(* it.                                                                     *)
(***************************************************************************)

SupportTrap == {"support", "badSupport"}

InterruptEventType(id, pc) ==
  IF id \notin {"program", "trace"} THEN "exception"
  ELSE IF code[pc] \in SupportTrap THEN "support"
  ELSE "breakpoint"

Raise(id, pc) ==
  /\ at' = "nub"
  /\ exceptionID' = id
  /\ event' = InterruptEventType(id, pc)
  /\ UNCHANGED <<msr, stopped, step, serviced, moved>>

\* An instruction is executed, and may branch.  A trace exception comes after
\* it.
TargetExecutes(next) ==
  /\ at = "target" /\ code[PC] = "plain"
  /\ PC' = next
  /\ left' = IF left >= 0 THEN left - 1 ELSE left
  /\ UNCHANGED code
  /\ IF msr.SE
     THEN Raise("trace", next)
     ELSE UNCHANGED <<msr, exceptionID, stopped, step, at, event,
                      serviced, moved>>

\* A trap, or an instruction that faults, is not executed.
TargetFaults ==
  /\ at = "target"
  /\ IF code[PC] = "plain" THEN Raise("dsi", PC) ELSE Raise("program", PC)
  /\ UNCHANGED <<code, PC, left>>

\* Input activates the nub; there is no event for it.
TransportInterrupt ==
  /\ at = "target" /\ msr.EE
  /\ at' = "nub"
  /\ exceptionID' = "external"
  /\ UNCHANGED <<code, PC, msr, stopped, step, event, history>>

-----------------------------------------------------------------------------
Nub ==
  \/ TRKTargetInterrupt_Again
  \/ TRKTargetInterrupt
  \/ TRKTargetSupportRequest
  \/ TRKTargetSupportRequest_Invalid
  \/ TRK_Idle

Host ==
  \/ \E n \in 0 .. MaxCount : StepIntoCount(n)
  \/ \E range \in Ranges : StepIntoRange(range)
  \/ TRKDoContinue
  \/ TRKDoStop
  \/ \E pc \in Addr : TRKDoWriteRegisters(pc)

Target ==
  \/ \E next \in Addr : TargetExecutes(next)
  \/ TargetFaults

Next == Nub \/ Host \/ Target \/ TransportInterrupt

Spec == Init /\ [][Next]_vars

\* The nub is one thread that polls, and a traced target executes an
\* instruction or faults.
FairSpec == Spec /\ WF_vars(Nub) /\ WF_vars(msr.SE /\ Target)

-----------------------------------------------------------------------------
(***************************************************************************)
(* What must hold.                                                         *)
(***************************************************************************)

TypeOK ==
  /\ code \in [Addr -> Instruction]
  /\ PC \in Addr
  /\ msr \in [SE : BOOLEAN, EE : BOOLEAN]
  /\ exceptionID \in {"none", "trace", "program", "dsi", "external"}
  /\ stopped \in BOOLEAN
  /\ step \in Step
  /\ at \in {"nub", "target"}
  /\ event \in {"none", "breakpoint", "exception", "support"}
  /\ left \in -1 .. MaxCount
  /\ serviced \in BOOLEAN
  /\ moved \in BOOLEAN

\* The target is traced exactly while a step is active, with interrupts off:
\* a trace exception never comes from a step that is over, and no input of the
\* host comes between the nub and the instruction.
TracedWhileStepping == msr.SE = step.active /\ (msr.SE => ~msr.EE)

\* The count of a step is that of the instructions still to be executed,
\* also after Stop and Continue in the middle of it, unless a support call
\* was serviced on the way.
CountIsExact ==
  step.active /\ step.type = "intoCount" /\ ~serviced =>
    left = IF event # "none" /\ exceptionID = "trace"
           THEN step.count ELSE step.count + 1

\* A counted step that no exception cut short is reported after as many
\* instructions as the host asked for.
StepIsExact ==
  [][ TRKTargetInterrupt /\ step.active /\ step.type = "intoCount"
      /\ exceptionID = "trace" /\ ~serviced => left = 0 ]_vars

\* A step out of a range executes nothing outside the range.
RangeIsExact ==
  step.active /\ step.type = "intoRange" /\ at = "target"
  /\ ~serviced /\ ~moved => PC \in step.range[1] .. step.range[2]

Counting == step.active /\ step.type = "intoCount"

\* A counted step ends, unless a support call is serviced on the way.
StepEnds == Counting ~> (~step.active \/ stopped \/ serviced)

\* "Re-post invalid support-requests as an exception to be reported by the
\* debugger": they are, also where a trace leads to one and the exception is
\* taken for the trace; the trap then traps again.  Only the host can move
\* the target away from one.
BadSupportIsReported ==
  Handling({"support"}) /\ code[PC] = "badSupport"
    ~> (stopped \/ code[PC] # "badSupport")
=============================================================================
