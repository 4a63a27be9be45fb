----------------------------- MODULE ContextSwitch -----------------------------
(***************************************************************************)
(* Two programs on one processor: the target and the nub.  How each gets   *)
(* its registers back when the other has had the processor, and what       *)
(* happens to those of the nub when it faults.                             *)
(*                                                                         *)
(* A value is known by whose it is and by the register it was in when that *)
(* program last had the processor; "old" values were the target's before.  *)
(* r5 to r12 are "low" and r13 to r30 "high": the code treats them alike.  *)
(* What else the target has is in RegisterAccess.                          *)
(***************************************************************************)
EXTENDS Integers

CONSTANTS
  Exceptions, \* of the processor, by their vectors
  External,   \* TRK_TRANSPORT_INT_KEY: the external interrupt
  Skipped     \* those after which the nub goes on behind the instruction

ASSUME ExceptionAssumption ==
  External \in Exceptions /\ Skipped \subseteq Exceptions \ {External}

Programs == {"target", "nub"}

Context == {"r0", "r1", "r2", "r3", "r4", "low", "high", "r31",
            "CR", "LR", "CTR", "XER", "PC", "MSR"}
Scratch == {"SRR0", "SRR1", "SPRG1", "SPRG2", "SPRG3"}
Regs    == Context \cup Scratch

\* gTRKState keeps these of the nub.
NubRegs == Context \ {"PC", "CR"}

\* What a function may change for its caller.
Volatile == {"r0", "r3", "r4", "low", "CR", "LR", "CTR", "XER"}

Target(r) == <<"target", r>>
Nub(r)    == <<"nub", r>>
Id(e)     == <<"id", e>>
Zero      == <<"zero", "">>
Junk      == <<"junk", "">>
Quiet     == <<"quiet", "MSR">>  \* the nub's MSR without EE and RI
Values    == ({"target", "nub", "old", "os"} \X Context)
             \cup ({"id"} \X Exceptions) \cup {Zero, Junk, Quiet, Nub("next")}

VARIABLES
  cpu,       \* the registers
  state,     \* gTRKCPUState
  nubState,  \* gTRKState
  inTRK,     \* gTRKExceptionStatus.inTRK
  exception, \* gTRKExceptionStatus: exceptionDetected and exceptionInfo
  activated, \* gTRKState.inputActivated
  vectors,   \* the exceptions that have the nub's code at their vectors
  at,        \* what is executed
  cause,     \* history: the last exception, and whose it was
  lost,      \* history: the registers on which each program cannot count
  posted     \* history: the nub got an event when it was entered last

vars == <<cpu, state, nubState, inTRK, exception, activated, vectors, at,
          cause, lost, posted>>

\* The program has had the processor: its registers are what it made of them.
Running(p) == [r \in Regs |-> IF r \in Context THEN <<p, r>> ELSE Junk]

\* It calls a function, and will go on where the link register says.
Calling(p) == [Running(p) EXCEPT !["LR"] = <<p, "PC">>]

Init ==
  /\ cpu = Calling("target")
  /\ state = [r \in Context |-> Zero]
  /\ nubState = [r \in NubRegs |-> Zero]
  /\ inTRK = TRUE
  /\ exception = [detected |-> FALSE, id |-> Zero, PC |-> Zero]
  /\ activated = FALSE
  /\ vectors = {}
  /\ at = "start"
  /\ cause = [of |-> "target", id |-> External]
  /\ lost = [p \in Programs |-> {}]
  /\ posted = FALSE

-----------------------------------------------------------------------------
(***************************************************************************)
(* The start.                                                              *)
(***************************************************************************)

\* The target calls it, with hardware that the nub knows.  The counter and XER
\* are not saved.
InitMetroTRK ==
  /\ at = "start"
  /\ at' = "init"
  /\ state' = [r \in Context |->
                 IF r \in {"CTR", "XER"} THEN Zero
                 ELSE IF r = "PC" THEN cpu["LR"] ELSE cpu[r]]
  /\ cpu' = Running("nub")
  /\ lost' = [lost EXCEPT !["target"] = {"LR", "CTR", "XER"}]
  /\ UNCHANGED <<nubState, inTRK, exception, activated, vectors, cause, posted>>

\* The target is stopped, and that is all: TRKSwapAndGo saves the MSR.
Bug_TRKInitializeTarget ==
  /\ at = "init"
  /\ at' = "nub"
  /\ UNCHANGED <<cpu, state, nubState, inTRK, exception, activated, vectors,
                 cause, lost, posted>>

\* An exception may come before TRKSwapAndGo has saved the MSR.
TRKInitializeTarget ==
  /\ at = "init"
  /\ at' = "nub"
  /\ nubState' = [nubState EXCEPT !["MSR"] = cpu["MSR"]]
  /\ UNCHANGED <<cpu, state, inTRK, exception, activated, vectors, cause, lost,
                 posted>>

\* The external interrupt is left to the operating system.
Copied(mask) == mask \ {External}

\* The bits that the operating system has set tell which vectors to take.  (The
\* reply is sent before.)
TRKDoOverride(mask) ==
  /\ at = "nub"
  /\ vectors' = vectors \cup Copied(mask)
  /\ UNCHANGED <<cpu, state, nubState, inTRK, exception, activated, at, cause,
                 lost, posted>>

-----------------------------------------------------------------------------
(***************************************************************************)
(* Into the nub.                                                           *)
(***************************************************************************)

\* The processor, and the code at the vector.
ExHandler(regs, e) ==
  [regs EXCEPT !["SPRG1"] = regs["r2"], !["SPRG2"] = regs["r3"],
               !["SPRG3"] = regs["r4"], !["r2"] = regs["PC"],
               !["r4"] = regs["MSR"], !["r3"] = Id(e),
               !["PC"] = Junk, !["MSR"] = Junk]

Interrupt(p, e, regs) ==
  /\ at' = "entry"
  /\ cpu' = regs
  /\ cause' = [of |-> p, id |-> e]
  /\ UNCHANGED <<state, nubState, inTRK, exception, activated, vectors, posted>>

\* Of the target or of the nub.  (Where there is no code of the nub, it is the
\* operating system's.)
Exception(e) ==
  /\ at \in {"target", "nub"}
  /\ e \in vectors
  /\ Interrupt(at, e, ExHandler(Running(at), e))
  /\ lost' = [lost EXCEPT ![at] = {}]

\* The interrupt of the transport, by way of the operating system, which has
\* saved the context of the target.  EE is off in the nub.  r5 to r12 are in the
\* context if it is one of an exception.
TRKLoadContext(exc) ==
  /\ at = "target"
  /\ Interrupt("target", External,
               ExHandler([Running("target") EXCEPT
                            !["low"] = IF exc THEN Target("low") ELSE <<"os", "low">>],
                         External))
  /\ lost' = [lost EXCEPT !["target"] = IF exc THEN {} ELSE {"low"}]

Masked(msr) == IF msr = Nub("MSR") THEN Quiet ELSE Junk

\* Up to the question whether it is the interrupt of the transport, for which CR
\* is needed.
TRK_InterruptHandler ==
  /\ at = "entry"
  /\ at' = IF cpu["r3"] = Id(External) THEN "transport" ELSE "interrupt"
  /\ cpu' = [cpu EXCEPT !["SRR0"] = cpu["r2"], !["SRR1"] = cpu["r4"],
                        !["r4"] = cpu["SPRG3"], !["SPRG3"] = cpu["CR"],
                        !["CR"] = Junk, !["r2"] = Junk,
                        !["MSR"] = Masked(nubState["MSR"])]
  /\ UNCHANGED <<state, nubState, inTRK, exception, activated, vectors, cause,
                 lost, posted>>

\* Nothing for the nub to do, or it is doing it.  gTRKSaveState is written by
\* nobody.
TransportReturn(pending) ==
  /\ at = "transport"
  /\ ~pending \/ inTRK
  /\ at' = "target"
  /\ cpu' = [cpu EXCEPT !["CR"] = Zero, !["r2"] = Zero, !["r3"] = Zero,
                        !["PC"] = cpu["SRR0"], !["MSR"] = cpu["SRR1"]]
  /\ lost' = [lost EXCEPT !["target"] = @ \cup {"CR", "r2", "r3"}]
  /\ UNCHANGED <<state, nubState, inTRK, exception, activated, vectors, cause,
                 posted>>

ActivateByInput(pending) ==
  /\ at = "transport"
  /\ pending /\ ~inTRK
  /\ at' = "interrupt"
  /\ activated' = TRUE
  /\ UNCHANGED <<cpu, state, nubState, inTRK, exception, vectors, cause, lost,
                 posted>>

\* r3 as it is.
Bug_Saved == [r \in Context |->
  CASE r = "r2"  -> cpu["SPRG1"]
    [] r = "PC"  -> cpu["SRR0"]
    [] r = "MSR" -> cpu["SRR1"]
    [] r = "CR"  -> cpu["SPRG3"]
    [] OTHER     -> cpu[r]]

Saved == [r \in Context |->
  CASE r = "r2"  -> cpu["SPRG1"]
    [] r = "r3"  -> cpu["SPRG2"]
    [] r = "PC"  -> cpu["SRR0"]
    [] r = "MSR" -> cpu["SRR1"]
    [] r = "CR"  -> cpu["SPRG3"]
    [] OTHER     -> cpu[r]]

\* The nub's registers, to return from TRKSwapAndGo.
Restored(kept) == [r \in Regs |-> IF r \in NubRegs THEN kept[r] ELSE Junk]

NonTransportInterrupt ==
  /\ at = "interrupt"
  /\ ~inTRK
  /\ at' = "event"
  /\ state' = Saved
  /\ inTRK' = TRUE
  /\ cpu' = Restored(nubState)
  /\ lost' = [lost EXCEPT !["nub"] = Volatile]
  /\ UNCHANGED <<nubState, exception, activated, vectors, cause, posted>>

\* The condition register is left as the handler made it.
Bug_Recovered ==
  [cpu EXCEPT !["r2"] = cpu["SPRG1"], !["r3"] = cpu["SPRG2"]]

Recovered ==
  [cpu EXCEPT !["CR"] = cpu["SPRG3"], !["r2"] = cpu["SPRG1"], !["r3"] = cpu["SPRG2"]]

\* Skips the ones of the memory only.
Bug_SkipInstruction(id, pc) == pc

SkipInstruction(id, pc) ==
  IF (\E e \in Skipped : id = Id(e)) /\ pc = Nub("PC") THEN Nub("next") ELSE pc

\* The nub was interrupted itself: what happened is noted, and it goes on.
TRKExceptionHandler ==
  /\ at = "interrupt"
  /\ inTRK
  /\ at' = "nub"
  /\ exception' = [detected |-> TRUE, id |-> cpu["r3"], PC |-> cpu["SRR0"]]
  /\ cpu' = [Recovered EXCEPT !["PC"] = SkipInstruction(cpu["r3"], cpu["SRR0"]),
                              !["MSR"] = cpu["SRR1"]]
  /\ UNCHANGED <<state, nubState, inTRK, activated, vectors, cause, lost, posted>>

\* The flag stays.
Bug_Deactivated == activated

Deactivated == FALSE

\* A function of the nub, from which it returns to the caller of TRKSwapAndGo.
TRKPostInterruptEvent ==
  /\ at = "event"
  /\ at' = "nub"
  /\ cpu' = [r \in Regs |-> IF r \in Volatile THEN Junk
                            ELSE IF r = "PC" THEN cpu["LR"] ELSE cpu[r]]
  /\ posted' = ~activated
  /\ activated' = Deactivated
  /\ UNCHANGED <<state, nubState, inTRK, exception, vectors, cause, lost>>

-----------------------------------------------------------------------------
(***************************************************************************)
(* Out of the nub.                                                         *)
(***************************************************************************)

\* The nub looks whether one of its accesses failed, and forgets it.
ClearException ==
  /\ at = "nub"
  /\ exception' = [exception EXCEPT !.detected = FALSE]
  /\ UNCHANGED <<cpu, state, nubState, inTRK, activated, vectors, at, cause,
                 lost, posted>>

\* r3 is in use when the registers are saved.
Left == [r \in NubRegs |-> IF r = "r3" THEN Junk ELSE Calling("nub")[r]]

\* The flag is cleared first of all.
Bug_Reactivated == FALSE

Reactivated == inTRK

\* Input has arrived: the nub is entered again.
TRKInterruptHandlerEnableInterrupts ==
  /\ at' = "event"
  /\ activated' = TRUE
  /\ inTRK' = Reactivated
  /\ cpu' = Restored(Left)
  /\ cause' = [of |-> "nub", id |-> External]
  /\ lost' = [lost EXCEPT !["nub"] = Volatile]
  /\ UNCHANGED state

NoOutgoingInput ==
  /\ at' = "target"
  /\ inTRK' = FALSE
  /\ cpu' = [r \in Regs |-> IF r \in Context THEN state[r] ELSE Junk]
  /\ state' = [r \in Context |-> <<"old", r>>]
  /\ UNCHANGED <<activated, cause, lost>>

TRKSwapAndGo(pending) ==
  /\ at = "nub"
  /\ nubState' = Left
  /\ IF pending THEN TRKInterruptHandlerEnableInterrupts ELSE NoOutgoingInput
  /\ UNCHANGED <<exception, vectors, posted>>

Next ==
  \/ InitMetroTRK
  \/ TRKInitializeTarget
  \/ \E mask \in SUBSET Exceptions : TRKDoOverride(mask)
  \/ \E e \in Exceptions : Exception(e)
  \/ \E exc \in BOOLEAN : TRKLoadContext(exc)
  \/ TRK_InterruptHandler
  \/ \E pending \in BOOLEAN :
       \/ TransportReturn(pending)
       \/ ActivateByInput(pending)
       \/ TRKSwapAndGo(pending)
  \/ NonTransportInterrupt
  \/ TRKExceptionHandler
  \/ TRKPostInterruptEvent
  \/ ClearException

Spec == Init /\ [][Next]_vars

-----------------------------------------------------------------------------
(***************************************************************************)
(* What must hold.                                                         *)
(***************************************************************************)

TypeOK ==
  /\ cpu \in [Regs -> Values]
  /\ state \in [Context -> Values]
  /\ nubState \in [NubRegs -> Values]
  /\ inTRK \in BOOLEAN
  /\ exception \in [detected : BOOLEAN, id : Values, PC : Values]
  /\ activated \in BOOLEAN
  /\ vectors \subseteq Exceptions \ {External}
  /\ at \in {"start", "init", "target", "nub", "entry", "transport",
             "interrupt", "event"}
  /\ cause \in [of : Programs, id : Exceptions]
  /\ lost \in [Programs -> SUBSET Context]
  /\ posted \in BOOLEAN

\* The target goes on where it was, with every register that it can count on:
\* whichever way the nub was entered, and however often it was entered again
\* before the target got the processor back.
TheTargetGoesOn ==
  at = "target" => \A r \in Context \ lost["target"] : cpu[r] = Target(r)

\* While the nub has the processor what was saved of the target stays as it is,
\* through every fault of the nub and every entry by input.
TheTargetIsKept ==
  at \in {"init", "nub", "event"} \/ (cause.of = "nub" /\ at \in {"entry", "interrupt"}) =>
    \A r \in Context \ lost["target"] : state[r] = Target(r)

\* The nub goes on with its own registers: after TRKSwapAndGo with the ones that
\* a caller counts on, and after a fault with all of them.
TheNubGoesOn ==
  at = "nub" => \A r \in Context \ (lost["nub"] \cup {"PC"}) : cpu[r] = Nub(r)

\* A fault of the nub is noted as what it was and where, and the nub goes on
\* behind the instruction just if that would fault again.
AFaultIsSeen ==
  [][ at = "interrupt" /\ at' = "nub" =>
        /\ cause.of = "nub"
        /\ exception' = [detected |-> TRUE, id |-> Id(cause.id), PC |-> Nub("PC")]
        /\ cpu'["PC"] = Nub(IF cause.id \in Skipped THEN "next" ELSE "PC") ]_vars

\* The nub is entered with an event just if an exception of the target is the
\* reason, and then goes on where it had left.
AStopIsPosted ==
  [][ at = "event" /\ at' = "nub" =>
        /\ posted' = (cause.of = "target" /\ cause.id # External)
        /\ cpu'["PC"] = Nub("PC") ]_vars

\* The handlers run with the address translation of the nub, or they could not
\* reach their data: from the first exception on.
TheHandlerHasTheMSR ==
  at \in {"transport", "interrupt"} => cpu["MSR"] = Quiet
=============================================================================
