------------------------- MODULE ContextSwitch_proofs -------------------------
(***************************************************************************)
(* Proofs about ContextSwitch: with any exceptions, and any of them        *)
(* skipped.                                                                *)
(***************************************************************************)
EXTENDS ContextSwitch, TLAPS

\* What the nub's TRKSwapAndGo leaves to its caller.
NonVolatile == {"r1", "r2", "high", "r31", "MSR"}

\* The registers that the code of a vector leaves alone.
Untouched == {"r0", "r1", "low", "high", "r31", "CR", "LR", "CTR", "XER"}

\* Whose turn it is, by the flags.
Flags ==
  /\ at \in {"start", "init", "nub", "event"} => inTRK
  /\ at = "target" => ~inTRK
  /\ at \in {"entry", "transport", "interrupt"} => inTRK = (cause.of = "nub")
  /\ at = "transport" => cause.of = "target" /\ cause.id = External
  /\ at \in {"entry", "interrupt"} /\ cause.of = "nub" => cause.id # External
  /\ at = "event" /\ cause.of = "nub" => cause.id = External
  /\ at \in {"start", "init", "nub", "target", "entry", "transport"} => ~activated
  /\ at \in {"interrupt", "event"} => activated = (cause.id = External)

\* What is lost of the program that was interrupted.
LostInv ==
  at \in {"entry", "transport", "interrupt"} =>
    lost[cause.of] \subseteq (IF cause.of = "nub" THEN {} ELSE {"low"})

EntryInv ==
  at = "entry" =>
    /\ \A r \in Untouched \ lost[cause.of] : cpu[r] = <<cause.of, r>>
    /\ cpu["r2"] = <<cause.of, "PC">>
    /\ cpu["r4"] = <<cause.of, "MSR">>
    /\ cpu["r3"] = Id(cause.id)
    /\ cpu["SPRG1"] = <<cause.of, "r2">>
    /\ cpu["SPRG2"] = <<cause.of, "r3">>
    /\ cpu["SPRG3"] = <<cause.of, "r4">>

HandlerInv ==
  at \in {"transport", "interrupt"} =>
    /\ \A r \in (Untouched \ {"CR"}) \ lost[cause.of] : cpu[r] = <<cause.of, r>>
    /\ cpu["r3"] = Id(cause.id)
    /\ cpu["r4"] = <<cause.of, "r4">>
    /\ cpu["SRR0"] = <<cause.of, "PC">>
    /\ cpu["SRR1"] = <<cause.of, "MSR">>
    /\ cpu["SPRG1"] = <<cause.of, "r2">>
    /\ cpu["SPRG2"] = <<cause.of, "r3">>
    /\ cpu["SPRG3"] = <<cause.of, "CR">>

EventInv ==
  at = "event" =>
    /\ lost["nub"] = Volatile
    /\ \A r \in NonVolatile : cpu[r] = Nub(r)
    /\ cpu["LR"] = Nub("PC")

\* gTRKState, from the first instruction after which there may be an exception.
NubStateInv ==
  /\ at \notin {"start", "init"} => nubState["MSR"] = Nub("MSR")
  /\ ~inTRK =>
       /\ \A r \in NonVolatile : nubState[r] = Nub(r)
       /\ nubState["LR"] = Nub("PC")

StartInv ==
  /\ at = "start" => cpu = Calling("target") /\ lost["nub"] = {}
  /\ at = "init" => cpu = Running("nub") /\ lost["nub"] = {}

IInv ==
  /\ TypeOK
  /\ Flags
  /\ LostInv
  /\ EntryInv
  /\ HandlerInv
  /\ EventInv
  /\ NubStateInv
  /\ StartInv
  /\ TheTargetGoesOn
  /\ TheTargetIsKept
  /\ TheNubGoesOn
  /\ TheHandlerHasTheMSR

-----------------------------------------------------------------------------
(***************************************************************************)
(* Values.                                                                 *)
(***************************************************************************)
USE ExceptionAssumption DEF Programs, Context, Scratch, Regs, NubRegs, Volatile, NonVolatile, Untouched, Target, Nub, Id, Zero, Junk, Quiet

LEMMA ValuesOfPrograms ==
  ASSUME NEW p \in {"target", "nub", "old", "os"}, NEW r \in Context
  PROVE  <<p, r>> \in Values
BY DEF Values

LEMMA OtherValues ==
  /\ Zero \in Values /\ Junk \in Values /\ Quiet \in Values
  /\ Nub("next") \in Values
  /\ \A e \in Exceptions : Id(e) \in Values
BY DEF Values

LEMMA RunningRegs ==
  ASSUME NEW p \in Programs
  PROVE  Running(p) \in [Regs -> Values]
BY ValuesOfPrograms, OtherValues DEF Running

LEMMA CallingRegs ==
  ASSUME NEW p \in Programs
  PROVE  /\ Calling(p) \in [Regs -> Values]
         /\ \A r \in Context \ {"LR"} : Calling(p)[r] = <<p, r>>
         /\ Calling(p)["LR"] = <<p, "PC">>
<1>1. Running(p) \in [Regs -> Values]  BY RunningRegs
<1>2. <<p, "PC">> \in Values           BY ValuesOfPrograms
<1>3. QED  BY <1>1, <1>2 DEF Calling, Running

LEMMA ExHandlerRegs ==
  ASSUME NEW regs \in [Regs -> Values], NEW e \in Exceptions
  PROVE  ExHandler(regs, e) \in [Regs -> Values]
<1>1. Id(e) \in Values /\ Junk \in Values  BY OtherValues
<1>2. QED  BY <1>1 DEF ExHandler

LEMMA LeftRegs ==
  /\ Left \in [NubRegs -> Values]
  /\ \A r \in NonVolatile : Left[r] = Nub(r)
  /\ Left["LR"] = Nub("PC")
BY CallingRegs, OtherValues DEF Left

LEMMA InitMetroTRKInv ==
  ASSUME IInv, InitMetroTRK
  PROVE  IInv'
<1>1. TypeOK'
  BY ValuesOfPrograms, OtherValues DEF IInv, InitMetroTRK, Calling, Running,
         TypeOK
<1>2. Flags'
  BY DEF IInv, InitMetroTRK, Calling, Running, Flags
<1>3. LostInv'
  BY DEF IInv, InitMetroTRK, Calling, Running, LostInv
<1>4. EntryInv'
  BY DEF IInv, InitMetroTRK, Calling, Running, EntryInv
<1>5. HandlerInv'
  BY DEF IInv, InitMetroTRK, Calling, Running, HandlerInv
<1>6. EventInv'
  BY DEF IInv, InitMetroTRK, Calling, Running, EventInv
<1>7. NubStateInv'
  BY DEF IInv, InitMetroTRK, Calling, Running, NubStateInv
<1>8. StartInv'
  BY DEF IInv, InitMetroTRK, Calling, Running, StartInv, TypeOK
<1>9. TheTargetGoesOn'
  BY DEF IInv, InitMetroTRK, Calling, Running, TheTargetGoesOn
<1>10. TheTargetIsKept'
<2>1. /\ \A r \in Context \ {"LR"} : cpu[r] = Target(r)
      /\ cpu["LR"] = Target("PC")
  BY CallingRegs DEF IInv, StartInv, InitMetroTRK
<2>2. lost'["target"] = {"LR", "CTR", "XER"}
  BY DEF IInv, TypeOK, InitMetroTRK
<2>3. \A r \in Context \ {"LR", "CTR", "XER"} : state'[r] = Target(r)
  BY <2>1 DEF InitMetroTRK
<2>4. QED  BY <2>2, <2>3 DEF TheTargetIsKept
<1>11. TheNubGoesOn'
  BY DEF IInv, InitMetroTRK, Calling, Running, TheNubGoesOn
<1>12. TheHandlerHasTheMSR'
  BY DEF IInv, InitMetroTRK, Calling, Running, TheHandlerHasTheMSR
<1>13. QED
  BY <1>1, <1>2, <1>3, <1>4, <1>5, <1>6, <1>7, <1>8, <1>9, <1>10, <1>11, <1>12 DEF IInv

LEMMA TRKInitializeTargetInv ==
  ASSUME IInv, TRKInitializeTarget
  PROVE  IInv'
<1>1. TypeOK'
  BY ValuesOfPrograms, OtherValues DEF IInv, TRKInitializeTarget, Running,
         TypeOK
<1>2. Flags'
  BY DEF IInv, TRKInitializeTarget, Running, Flags
<1>3. LostInv'
  BY DEF IInv, TRKInitializeTarget, Running, LostInv
<1>4. EntryInv'
  BY DEF IInv, TRKInitializeTarget, Running, EntryInv
<1>5. HandlerInv'
  BY DEF IInv, TRKInitializeTarget, Running, HandlerInv
<1>6. EventInv'
  BY DEF IInv, TRKInitializeTarget, Running, EventInv
<1>7. NubStateInv'
  BY DEF IInv, TRKInitializeTarget, Running, NubStateInv, TypeOK, StartInv,
         Flags
<1>8. StartInv'
  BY DEF IInv, TRKInitializeTarget, Running, StartInv
<1>9. TheTargetGoesOn'
  BY DEF IInv, TRKInitializeTarget, Running, TheTargetGoesOn
<1>10. TheTargetIsKept'
  BY DEF IInv, TRKInitializeTarget, Running, TheTargetIsKept
<1>11. TheNubGoesOn'
  BY DEF IInv, TRKInitializeTarget, Running, TheNubGoesOn, StartInv
<1>12. TheHandlerHasTheMSR'
  BY DEF IInv, TRKInitializeTarget, Running, TheHandlerHasTheMSR
<1>13. QED
  BY <1>1, <1>2, <1>3, <1>4, <1>5, <1>6, <1>7, <1>8, <1>9, <1>10, <1>11, <1>12 DEF IInv

LEMMA TRKDoOverrideInv ==
  ASSUME IInv, NEW mask \in SUBSET Exceptions, TRKDoOverride(mask)
  PROVE  IInv'
<1>1. TypeOK'
  BY ValuesOfPrograms, OtherValues DEF IInv, TRKDoOverride, Copied, TypeOK
<1>2. Flags'
  BY DEF IInv, TRKDoOverride, Copied, Flags
<1>3. LostInv'
  BY DEF IInv, TRKDoOverride, Copied, LostInv
<1>4. EntryInv'
  BY DEF IInv, TRKDoOverride, Copied, EntryInv
<1>5. HandlerInv'
  BY DEF IInv, TRKDoOverride, Copied, HandlerInv
<1>6. EventInv'
  BY DEF IInv, TRKDoOverride, Copied, EventInv
<1>7. NubStateInv'
  BY DEF IInv, TRKDoOverride, Copied, NubStateInv
<1>8. StartInv'
  BY DEF IInv, TRKDoOverride, Copied, StartInv
<1>9. TheTargetGoesOn'
  BY DEF IInv, TRKDoOverride, Copied, TheTargetGoesOn
<1>10. TheTargetIsKept'
  BY DEF IInv, TRKDoOverride, Copied, TheTargetIsKept
<1>11. TheNubGoesOn'
  BY DEF IInv, TRKDoOverride, Copied, TheNubGoesOn
<1>12. TheHandlerHasTheMSR'
  BY DEF IInv, TRKDoOverride, Copied, TheHandlerHasTheMSR
<1>13. QED
  BY <1>1, <1>2, <1>3, <1>4, <1>5, <1>6, <1>7, <1>8, <1>9, <1>10, <1>11, <1>12 DEF IInv

LEMMA ExceptionInv ==
  ASSUME IInv, NEW e \in Exceptions, Exception(e)
  PROVE  IInv'
<1>1. TypeOK'
<2>1. ExHandler(Running(at), e) \in [Regs -> Values]
  BY RunningRegs, ExHandlerRegs DEF Exception
<2>2. QED  BY <2>1 DEF IInv, TypeOK, Exception, Interrupt
<1>2. Flags'
  BY DEF IInv, Exception, Interrupt, ExHandler, Running, Flags, TypeOK
<1>3. LostInv'
  BY DEF IInv, Exception, Interrupt, ExHandler, Running, LostInv, TypeOK
<1>4. EntryInv'
  BY DEF IInv, Exception, Interrupt, ExHandler, Running, EntryInv
<1>5. HandlerInv'
  BY DEF IInv, Exception, Interrupt, ExHandler, Running, HandlerInv
<1>6. EventInv'
  BY DEF IInv, Exception, Interrupt, ExHandler, Running, EventInv
<1>7. NubStateInv'
  BY DEF IInv, Exception, Interrupt, ExHandler, Running, NubStateInv
<1>8. StartInv'
  BY DEF IInv, Exception, Interrupt, ExHandler, Running, StartInv
<1>9. TheTargetGoesOn'
  BY DEF IInv, Exception, Interrupt, ExHandler, Running, TheTargetGoesOn
<1>10. TheTargetIsKept'
  BY DEF IInv, Exception, Interrupt, ExHandler, Running, TheTargetIsKept, TypeOK
<1>11. TheNubGoesOn'
  BY DEF IInv, Exception, Interrupt, ExHandler, Running, TheNubGoesOn
<1>12. TheHandlerHasTheMSR'
  BY DEF IInv, Exception, Interrupt, ExHandler, Running, TheHandlerHasTheMSR
<1>13. QED
  BY <1>1, <1>2, <1>3, <1>4, <1>5, <1>6, <1>7, <1>8, <1>9, <1>10, <1>11, <1>12 DEF IInv

LEMMA TRKLoadContextInv ==
  ASSUME IInv, NEW exc \in BOOLEAN, TRKLoadContext(exc)
  PROVE  IInv'
<1>1. TypeOK'
<2> DEFINE context == [Running("target") EXCEPT
                         !["low"] = IF exc THEN Target("low") ELSE <<"os", "low">>]
<2>1. context \in [Regs -> Values]
  BY RunningRegs, ValuesOfPrograms
<2>2. ExHandler(context, External) \in [Regs -> Values]
  BY <2>1, ExHandlerRegs
<2>3. QED  BY <2>2 DEF IInv, TypeOK, TRKLoadContext, Interrupt
<1>2. Flags'
  BY DEF IInv, TRKLoadContext, Interrupt, ExHandler, Running, Flags, TypeOK
<1>3. LostInv'
  BY DEF IInv, TRKLoadContext, Interrupt, ExHandler, Running, LostInv, TypeOK
<1>4. EntryInv'
<2> DEFINE low == IF exc THEN Target("low") ELSE <<"os", "low">>
           context == [Running("target") EXCEPT !["low"] = low]
<2>1. /\ \A r \in Context \ {"low"} : context[r] = Target(r)
      /\ exc => context["low"] = Target("low")
      /\ context \in [Regs -> Values]
  BY RunningRegs, ValuesOfPrograms DEF Running
<2>2. lost'["target"] = IF exc THEN {} ELSE {"low"}
  BY DEF IInv, TypeOK, TRKLoadContext
<2>3. cpu' = ExHandler(context, External) /\ cause'.of = "target" /\ cause'.id = External
  BY DEF TRKLoadContext, Interrupt
<2> HIDE DEF context
<2>4. QED  BY <2>1, <2>2, <2>3 DEF ExHandler, EntryInv
<1>5. HandlerInv'
  BY DEF IInv, TRKLoadContext, Interrupt, ExHandler, Running, HandlerInv
<1>6. EventInv'
  BY DEF IInv, TRKLoadContext, Interrupt, ExHandler, Running, EventInv
<1>7. NubStateInv'
  BY DEF IInv, TRKLoadContext, Interrupt, ExHandler, Running, NubStateInv
<1>8. StartInv'
  BY DEF IInv, TRKLoadContext, Interrupt, ExHandler, Running, StartInv
<1>9. TheTargetGoesOn'
  BY DEF IInv, TRKLoadContext, Interrupt, ExHandler, Running, TheTargetGoesOn
<1>10. TheTargetIsKept'
  BY DEF IInv, TRKLoadContext, Interrupt, ExHandler, Running, TheTargetIsKept
<1>11. TheNubGoesOn'
  BY DEF IInv, TRKLoadContext, Interrupt, ExHandler, Running, TheNubGoesOn
<1>12. TheHandlerHasTheMSR'
  BY DEF IInv, TRKLoadContext, Interrupt, ExHandler, Running,
         TheHandlerHasTheMSR
<1>13. QED
  BY <1>1, <1>2, <1>3, <1>4, <1>5, <1>6, <1>7, <1>8, <1>9, <1>10, <1>11, <1>12 DEF IInv

LEMMA TRK_InterruptHandlerInv ==
  ASSUME IInv, TRK_InterruptHandler
  PROVE  IInv'
<1>1. TypeOK'
  BY ValuesOfPrograms, OtherValues DEF IInv, TRK_InterruptHandler, Masked,
         TypeOK
<1>2. Flags'
<2>1. cpu["r3"] = <<"id", cause.id>>
  BY DEF IInv, EntryInv, TRK_InterruptHandler
<2>2. cpu["r3"] = <<"id", External>> <=> cause.id = External
  BY <2>1
<2>3. at' = IF cause.id = External THEN "transport" ELSE "interrupt"
  BY <2>2, Zenon DEF TRK_InterruptHandler
<2>4. cause' = cause /\ inTRK' = inTRK /\ activated' = activated
  BY DEF TRK_InterruptHandler
<2>5. QED
  BY <2>3, <2>4 DEF IInv, TypeOK, Flags, TRK_InterruptHandler
<1>3. LostInv'
  BY DEF IInv, TRK_InterruptHandler, Masked, LostInv
<1>4. EntryInv'
  BY DEF IInv, TRK_InterruptHandler, Masked, EntryInv
<1>5. HandlerInv'
  BY DEF IInv, TRK_InterruptHandler, Masked, HandlerInv, EntryInv, TypeOK,
         Flags, LostInv
<1>6. EventInv'
  BY DEF IInv, TRK_InterruptHandler, Masked, EventInv
<1>7. NubStateInv'
  BY DEF IInv, TRK_InterruptHandler, Masked, NubStateInv
<1>8. StartInv'
  BY DEF IInv, TRK_InterruptHandler, Masked, StartInv
<1>9. TheTargetGoesOn'
  BY DEF IInv, TRK_InterruptHandler, Masked, TheTargetGoesOn
<1>10. TheTargetIsKept'
  BY DEF IInv, TRK_InterruptHandler, Masked, TheTargetIsKept
<1>11. TheNubGoesOn'
  BY DEF IInv, TRK_InterruptHandler, Masked, TheNubGoesOn
<1>12. TheHandlerHasTheMSR'
  BY DEF IInv, TRK_InterruptHandler, Masked, TheHandlerHasTheMSR, TypeOK,
         NubStateInv
<1>13. QED
  BY <1>1, <1>2, <1>3, <1>4, <1>5, <1>6, <1>7, <1>8, <1>9, <1>10, <1>11, <1>12 DEF IInv

LEMMA TransportReturnInv ==
  ASSUME IInv, NEW pending \in BOOLEAN, TransportReturn(pending)
  PROVE  IInv'
<1>1. TypeOK'
  BY ValuesOfPrograms, OtherValues DEF IInv, TransportReturn, TypeOK
<1>2. Flags'
  BY DEF IInv, TransportReturn, Flags
<1>3. LostInv'
  BY DEF IInv, TransportReturn, LostInv
<1>4. EntryInv'
  BY DEF IInv, TransportReturn, EntryInv
<1>5. HandlerInv'
  BY DEF IInv, TransportReturn, HandlerInv
<1>6. EventInv'
  BY DEF IInv, TransportReturn, EventInv
<1>7. NubStateInv'
  BY DEF IInv, TransportReturn, NubStateInv, Flags
<1>8. StartInv'
  BY DEF IInv, TransportReturn, StartInv
<1>9. TheTargetGoesOn'
  BY DEF IInv, TransportReturn, TheTargetGoesOn, TypeOK, HandlerInv, Flags,
         LostInv
<1>10. TheTargetIsKept'
  BY DEF IInv, TransportReturn, TheTargetIsKept
<1>11. TheNubGoesOn'
  BY DEF IInv, TransportReturn, TheNubGoesOn
<1>12. TheHandlerHasTheMSR'
  BY DEF IInv, TransportReturn, TheHandlerHasTheMSR
<1>13. QED
  BY <1>1, <1>2, <1>3, <1>4, <1>5, <1>6, <1>7, <1>8, <1>9, <1>10, <1>11, <1>12 DEF IInv

LEMMA ActivateByInputInv ==
  ASSUME IInv, NEW pending \in BOOLEAN, ActivateByInput(pending)
  PROVE  IInv'
<1>1. TypeOK'
  BY ValuesOfPrograms, OtherValues DEF IInv, ActivateByInput, TypeOK
<1>2. Flags'
  BY DEF IInv, ActivateByInput, Flags
<1>3. LostInv'
  BY DEF IInv, ActivateByInput, LostInv
<1>4. EntryInv'
  BY DEF IInv, ActivateByInput, EntryInv
<1>5. HandlerInv'
  BY DEF IInv, ActivateByInput, HandlerInv
<1>6. EventInv'
  BY DEF IInv, ActivateByInput, EventInv
<1>7. NubStateInv'
  BY DEF IInv, ActivateByInput, NubStateInv
<1>8. StartInv'
  BY DEF IInv, ActivateByInput, StartInv
<1>9. TheTargetGoesOn'
  BY DEF IInv, ActivateByInput, TheTargetGoesOn
<1>10. TheTargetIsKept'
  BY DEF IInv, ActivateByInput, TheTargetIsKept, Flags
<1>11. TheNubGoesOn'
  BY DEF IInv, ActivateByInput, TheNubGoesOn
<1>12. TheHandlerHasTheMSR'
  BY DEF IInv, ActivateByInput, TheHandlerHasTheMSR
<1>13. QED
  BY <1>1, <1>2, <1>3, <1>4, <1>5, <1>6, <1>7, <1>8, <1>9, <1>10, <1>11, <1>12 DEF IInv

LEMMA NonTransportInterruptInv ==
  ASSUME IInv, NonTransportInterrupt
  PROVE  IInv'
<1>1. TypeOK'
  BY ValuesOfPrograms, OtherValues DEF IInv, NonTransportInterrupt, Saved,
         Restored, TypeOK
<1>2. Flags'
  BY DEF IInv, NonTransportInterrupt, Saved, Restored, Flags
<1>3. LostInv'
  BY DEF IInv, NonTransportInterrupt, Saved, Restored, LostInv
<1>4. EntryInv'
  BY DEF IInv, NonTransportInterrupt, Saved, Restored, EntryInv
<1>5. HandlerInv'
  BY DEF IInv, NonTransportInterrupt, Saved, Restored, HandlerInv
<1>6. EventInv'
  BY DEF IInv, NonTransportInterrupt, Saved, Restored, EventInv, TypeOK,
         NubStateInv
<1>7. NubStateInv'
  BY DEF IInv, NonTransportInterrupt, Saved, Restored, NubStateInv
<1>8. StartInv'
  BY DEF IInv, NonTransportInterrupt, Saved, Restored, StartInv
<1>9. TheTargetGoesOn'
  BY DEF IInv, NonTransportInterrupt, Saved, Restored, TheTargetGoesOn
<1>10. TheTargetIsKept'
  BY DEF IInv, NonTransportInterrupt, Saved, Restored, TheTargetIsKept,
         TypeOK, Flags, HandlerInv, LostInv
<1>11. TheNubGoesOn'
  BY DEF IInv, NonTransportInterrupt, Saved, Restored, TheNubGoesOn
<1>12. TheHandlerHasTheMSR'
  BY DEF IInv, NonTransportInterrupt, Saved, Restored, TheHandlerHasTheMSR
<1>13. QED
  BY <1>1, <1>2, <1>3, <1>4, <1>5, <1>6, <1>7, <1>8, <1>9, <1>10, <1>11, <1>12 DEF IInv

LEMMA TRKExceptionHandlerInv ==
  ASSUME IInv, TRKExceptionHandler
  PROVE  IInv'
<1>1. TypeOK'
  BY ValuesOfPrograms, OtherValues DEF IInv, TRKExceptionHandler, Recovered,
         SkipInstruction, TypeOK
<1>2. Flags'
  BY DEF IInv, TRKExceptionHandler, Recovered, SkipInstruction, Flags
<1>3. LostInv'
  BY DEF IInv, TRKExceptionHandler, Recovered, SkipInstruction, LostInv
<1>4. EntryInv'
  BY DEF IInv, TRKExceptionHandler, Recovered, SkipInstruction, EntryInv
<1>5. HandlerInv'
  BY DEF IInv, TRKExceptionHandler, Recovered, SkipInstruction, HandlerInv
<1>6. EventInv'
  BY DEF IInv, TRKExceptionHandler, Recovered, SkipInstruction, EventInv
<1>7. NubStateInv'
  BY DEF IInv, TRKExceptionHandler, Recovered, SkipInstruction, NubStateInv
<1>8. StartInv'
  BY DEF IInv, TRKExceptionHandler, Recovered, SkipInstruction, StartInv
<1>9. TheTargetGoesOn'
  BY DEF IInv, TRKExceptionHandler, Recovered, SkipInstruction, TheTargetGoesOn
<1>10. TheTargetIsKept'
  BY DEF IInv, TRKExceptionHandler, Recovered, SkipInstruction,
         TheTargetIsKept, Flags
<1>11. TheNubGoesOn'
<2>1. cause.of = "nub" /\ lost["nub"] = {}
  BY DEF IInv, Flags, LostInv, TRKExceptionHandler
<2>2. /\ \A r \in Untouched \ {"CR"} : cpu[r] = Nub(r)
      /\ cpu["r4"] = Nub("r4") /\ cpu["SRR1"] = Nub("MSR")
      /\ cpu["SPRG1"] = Nub("r2") /\ cpu["SPRG2"] = Nub("r3")
      /\ cpu["SPRG3"] = Nub("CR")
  BY <2>1 DEF IInv, HandlerInv, TRKExceptionHandler
<2>3. cpu \in [Regs -> Values]
  BY DEF IInv, TypeOK
<2>4. \A r \in Context \ {"PC"} : cpu'[r] = Nub(r)
  BY <2>2, <2>3 DEF TRKExceptionHandler, Recovered
<2>5. QED  BY <2>4 DEF TheNubGoesOn
<1>12. TheHandlerHasTheMSR'
  BY DEF IInv, TRKExceptionHandler, Recovered, SkipInstruction,
         TheHandlerHasTheMSR
<1>13. QED
  BY <1>1, <1>2, <1>3, <1>4, <1>5, <1>6, <1>7, <1>8, <1>9, <1>10, <1>11, <1>12 DEF IInv

LEMMA TRKPostInterruptEventInv ==
  ASSUME IInv, TRKPostInterruptEvent
  PROVE  IInv'
<1>1. TypeOK'
  BY ValuesOfPrograms, OtherValues DEF IInv, TRKPostInterruptEvent,
         Deactivated, TypeOK
<1>2. Flags'
  BY DEF IInv, TRKPostInterruptEvent, Deactivated, Flags
<1>3. LostInv'
  BY DEF IInv, TRKPostInterruptEvent, Deactivated, LostInv
<1>4. EntryInv'
  BY DEF IInv, TRKPostInterruptEvent, Deactivated, EntryInv
<1>5. HandlerInv'
  BY DEF IInv, TRKPostInterruptEvent, Deactivated, HandlerInv
<1>6. EventInv'
  BY DEF IInv, TRKPostInterruptEvent, Deactivated, EventInv
<1>7. NubStateInv'
  BY DEF IInv, TRKPostInterruptEvent, Deactivated, NubStateInv
<1>8. StartInv'
  BY DEF IInv, TRKPostInterruptEvent, Deactivated, StartInv
<1>9. TheTargetGoesOn'
  BY DEF IInv, TRKPostInterruptEvent, Deactivated, TheTargetGoesOn
<1>10. TheTargetIsKept'
  BY DEF IInv, TRKPostInterruptEvent, Deactivated, TheTargetIsKept
<1>11. TheNubGoesOn'
  BY DEF IInv, TRKPostInterruptEvent, Deactivated, TheNubGoesOn, EventInv
<1>12. TheHandlerHasTheMSR'
  BY DEF IInv, TRKPostInterruptEvent, Deactivated, TheHandlerHasTheMSR
<1>13. QED
  BY <1>1, <1>2, <1>3, <1>4, <1>5, <1>6, <1>7, <1>8, <1>9, <1>10, <1>11, <1>12 DEF IInv

LEMMA ClearExceptionInv ==
  ASSUME IInv, ClearException
  PROVE  IInv'
<1>1. TypeOK'
  BY ValuesOfPrograms, OtherValues DEF IInv, ClearException, TypeOK
<1>2. Flags'
  BY DEF IInv, ClearException, Flags
<1>3. LostInv'
  BY DEF IInv, ClearException, LostInv
<1>4. EntryInv'
  BY DEF IInv, ClearException, EntryInv
<1>5. HandlerInv'
  BY DEF IInv, ClearException, HandlerInv
<1>6. EventInv'
  BY DEF IInv, ClearException, EventInv
<1>7. NubStateInv'
  BY DEF IInv, ClearException, NubStateInv
<1>8. StartInv'
  BY DEF IInv, ClearException, StartInv
<1>9. TheTargetGoesOn'
  BY DEF IInv, ClearException, TheTargetGoesOn
<1>10. TheTargetIsKept'
  BY DEF IInv, ClearException, TheTargetIsKept
<1>11. TheNubGoesOn'
  BY DEF IInv, ClearException, TheNubGoesOn
<1>12. TheHandlerHasTheMSR'
  BY DEF IInv, ClearException, TheHandlerHasTheMSR
<1>13. QED
  BY <1>1, <1>2, <1>3, <1>4, <1>5, <1>6, <1>7, <1>8, <1>9, <1>10, <1>11, <1>12 DEF IInv

LEMMA ReenterInv ==
  ASSUME IInv, TRKSwapAndGo(TRUE)
  PROVE  IInv'
<1>1. TypeOK'
<2>1. cpu' \in [Regs -> Values] /\ nubState' \in [NubRegs -> Values]
  BY LeftRegs, OtherValues DEF TRKSwapAndGo, TRKInterruptHandlerEnableInterrupts, Restored
<2>2. lost' \in [Programs -> SUBSET Context]
  BY DEF IInv, TypeOK, TRKSwapAndGo, TRKInterruptHandlerEnableInterrupts
<2>3. cause' \in [of : Programs, id : Exceptions] /\ inTRK' \in BOOLEAN
  BY DEF IInv, TypeOK, TRKSwapAndGo, TRKInterruptHandlerEnableInterrupts, Reactivated
<2>4. QED
  BY <2>1, <2>2, <2>3
  DEF IInv, TypeOK, TRKSwapAndGo, TRKInterruptHandlerEnableInterrupts
<1>2. Flags'
<2>1. inTRK' = TRUE /\ cause'.of = "nub" /\ cause'.id = External
  BY DEF IInv, TypeOK, Flags, TRKSwapAndGo, TRKInterruptHandlerEnableInterrupts, Reactivated
<2>2. at' = "event" /\ activated' = TRUE
  BY DEF TRKSwapAndGo, TRKInterruptHandlerEnableInterrupts
<2>3. QED  BY <2>1, <2>2 DEF Flags
<1>3. LostInv'
  BY DEF IInv, TRKSwapAndGo, TRKInterruptHandlerEnableInterrupts, Reactivated,
         Restored, LostInv
<1>4. EntryInv'
  BY DEF IInv, TRKSwapAndGo, TRKInterruptHandlerEnableInterrupts, Reactivated,
         Restored, EntryInv
<1>5. HandlerInv'
  BY DEF IInv, TRKSwapAndGo, TRKInterruptHandlerEnableInterrupts, Reactivated,
         Restored, HandlerInv
<1>6. EventInv'
<2>1. lost'["nub"] = Volatile
  BY DEF IInv, TypeOK, TRKSwapAndGo, TRKInterruptHandlerEnableInterrupts
<2>2. cpu' = Restored(Left)
  BY DEF TRKSwapAndGo, TRKInterruptHandlerEnableInterrupts
<2>3. \A r \in NonVolatile \cup {"LR"} : cpu'[r] = Left[r]
  BY <2>2 DEF Restored
<2>4. QED  BY <2>1, <2>3, LeftRegs DEF EventInv
<1>7. NubStateInv'
  BY LeftRegs DEF IInv, TRKSwapAndGo, TRKInterruptHandlerEnableInterrupts,
         Reactivated, Restored, NubStateInv, TypeOK, Flags
<1>8. StartInv'
  BY DEF IInv, TRKSwapAndGo, TRKInterruptHandlerEnableInterrupts, Reactivated,
         Restored, StartInv
<1>9. TheTargetGoesOn'
  BY DEF IInv, TRKSwapAndGo, TRKInterruptHandlerEnableInterrupts, Reactivated,
         Restored, TheTargetGoesOn
<1>10. TheTargetIsKept'
  BY DEF IInv, TRKSwapAndGo, TRKInterruptHandlerEnableInterrupts, Reactivated,
         Restored, TheTargetIsKept, TypeOK
<1>11. TheNubGoesOn'
  BY DEF IInv, TRKSwapAndGo, TRKInterruptHandlerEnableInterrupts, Reactivated,
         Restored, TheNubGoesOn
<1>12. TheHandlerHasTheMSR'
  BY DEF IInv, TRKSwapAndGo, TRKInterruptHandlerEnableInterrupts, Reactivated,
         Restored, TheHandlerHasTheMSR
<1>13. QED
  BY <1>1, <1>2, <1>3, <1>4, <1>5, <1>6, <1>7, <1>8, <1>9, <1>10, <1>11, <1>12 DEF IInv

LEMMA LeaveInv ==
  ASSUME IInv, TRKSwapAndGo(FALSE)
  PROVE  IInv'
<1>1. TypeOK'
<2>1. state' \in [Context -> Values]
  BY ValuesOfPrograms DEF TRKSwapAndGo, NoOutgoingInput
<2>2. cpu' \in [Regs -> Values]
  <3>1. \A r \in Context : state[r] \in Values
    BY DEF IInv, TypeOK
  <3>2. QED  BY <3>1, OtherValues DEF TRKSwapAndGo, NoOutgoingInput
<2>3. nubState' \in [NubRegs -> Values]
  BY LeftRegs DEF TRKSwapAndGo
<2>4. QED
  BY <2>1, <2>2, <2>3 DEF IInv, TypeOK, TRKSwapAndGo, NoOutgoingInput
<1>2. Flags'
  BY DEF IInv, TRKSwapAndGo, NoOutgoingInput, Flags
<1>3. LostInv'
  BY DEF IInv, TRKSwapAndGo, NoOutgoingInput, LostInv
<1>4. EntryInv'
  BY DEF IInv, TRKSwapAndGo, NoOutgoingInput, EntryInv
<1>5. HandlerInv'
  BY DEF IInv, TRKSwapAndGo, NoOutgoingInput, HandlerInv
<1>6. EventInv'
  BY LeftRegs DEF IInv, TRKSwapAndGo, NoOutgoingInput, EventInv
<1>7. NubStateInv'
  BY LeftRegs DEF IInv, TRKSwapAndGo, NoOutgoingInput, NubStateInv, TypeOK
<1>8. StartInv'
  BY DEF IInv, TRKSwapAndGo, NoOutgoingInput, StartInv
<1>9. TheTargetGoesOn'
<2>1. \A r \in Context \ lost["target"] : state[r] = Target(r)
  BY DEF IInv, TheTargetIsKept, TRKSwapAndGo
<2>2. QED  BY <2>1 DEF TheTargetGoesOn, TRKSwapAndGo, NoOutgoingInput
<1>10. TheTargetIsKept'
  BY DEF IInv, TRKSwapAndGo, NoOutgoingInput, TheTargetIsKept
<1>11. TheNubGoesOn'
  BY DEF IInv, TRKSwapAndGo, NoOutgoingInput, TheNubGoesOn
<1>12. TheHandlerHasTheMSR'
  BY DEF IInv, TRKSwapAndGo, NoOutgoingInput, TheHandlerHasTheMSR
<1>13. QED
  BY <1>1, <1>2, <1>3, <1>4, <1>5, <1>6, <1>7, <1>8, <1>9, <1>10, <1>11, <1>12 DEF IInv

-----------------------------------------------------------------------------
(***************************************************************************)
(* Theorems.                                                               *)
(***************************************************************************)

LEMMA InitIInv == Init => IInv
<1> SUFFICES ASSUME Init PROVE IInv
  OBVIOUS
<1>1. TypeOK
  <2>1. cpu \in [Regs -> Values]
    BY CallingRegs DEF Init
  <2>2. /\ state \in [Context -> Values] /\ nubState \in [NubRegs -> Values]
        /\ exception \in [detected : BOOLEAN, id : Values, PC : Values]
    BY OtherValues DEF Init
  <2>3. QED  BY <2>1, <2>2 DEF Init, TypeOK
<1>2. Flags /\ LostInv /\ EntryInv /\ HandlerInv /\ EventInv
  BY DEF Init, Flags, LostInv, EntryInv, HandlerInv, EventInv
<1>3. NubStateInv /\ StartInv
  BY DEF Init, NubStateInv, StartInv
<1>4. TheTargetGoesOn /\ TheTargetIsKept /\ TheNubGoesOn /\ TheHandlerHasTheMSR
  BY DEF Init, TheTargetGoesOn, TheTargetIsKept, TheNubGoesOn, TheHandlerHasTheMSR
<1>5. QED  BY <1>1, <1>2, <1>3, <1>4 DEF IInv

LEMMA StutterIInv == IInv /\ UNCHANGED vars => IInv'
BY DEF vars, IInv, TypeOK, Flags, LostInv, EntryInv, HandlerInv, EventInv,
       NubStateInv, StartInv, TheTargetGoesOn, TheTargetIsKept, TheNubGoesOn,
       TheHandlerHasTheMSR

LEMMA NextIInv == IInv /\ [Next]_vars => IInv'
<1> SUFFICES ASSUME IInv, [Next]_vars PROVE IInv'
  OBVIOUS
<1>1. CASE InitMetroTRK           BY <1>1, InitMetroTRKInv
<1>2. CASE TRKInitializeTarget    BY <1>2, TRKInitializeTargetInv
<1>3. ASSUME NEW mask \in SUBSET Exceptions, TRKDoOverride(mask) PROVE IInv'
  BY <1>3, TRKDoOverrideInv
<1>4. ASSUME NEW e \in Exceptions, Exception(e) PROVE IInv'
  BY <1>4, ExceptionInv
<1>5. ASSUME NEW exc \in BOOLEAN, TRKLoadContext(exc) PROVE IInv'
  BY <1>5, TRKLoadContextInv
<1>6. CASE TRK_InterruptHandler   BY <1>6, TRK_InterruptHandlerInv
<1>7. ASSUME NEW pending \in BOOLEAN, TransportReturn(pending) PROVE IInv'
  BY <1>7, TransportReturnInv
<1>8. ASSUME NEW pending \in BOOLEAN, ActivateByInput(pending) PROVE IInv'
  BY <1>8, ActivateByInputInv
<1>9. ASSUME NEW pending \in BOOLEAN, TRKSwapAndGo(pending) PROVE IInv'
  <2>1. CASE pending = TRUE   BY <1>9, <2>1, ReenterInv
  <2>2. CASE pending = FALSE  BY <1>9, <2>2, LeaveInv
  <2>3. QED  BY <2>1, <2>2
<1>10. CASE NonTransportInterrupt  BY <1>10, NonTransportInterruptInv
<1>11. CASE TRKExceptionHandler    BY <1>11, TRKExceptionHandlerInv
<1>12. CASE TRKPostInterruptEvent  BY <1>12, TRKPostInterruptEventInv
<1>13. CASE ClearException         BY <1>13, ClearExceptionInv
<1>14. CASE UNCHANGED vars         BY <1>14, StutterIInv
<1>15. QED
  BY <1>1, <1>2, <1>3, <1>4, <1>5, <1>6, <1>7, <1>8, <1>9, <1>10, <1>11, <1>12,
     <1>13, <1>14 DEF Next

LEMMA IInvariant == Spec => []IInv
BY InitIInv, NextIInv, PTL DEF Spec

\* Every variable holds what it may hold, and the external interrupt never gets
\* the nub's code at its vector: __TRK_copy_vectors leaves it out.
THEOREM TypeCorrect == Spec => []TypeOK
<1>1. IInv => TypeOK  BY DEF IInv
<1>2. QED  BY IInvariant, <1>1, PTL

\* TRKSwapAndGo and the return from the interrupt of the transport give the
\* target its place and every register that it can count on.
THEOREM TargetGoesOn == Spec => []TheTargetGoesOn
<1>1. IInv => TheTargetGoesOn  BY DEF IInv
<1>2. QED  BY IInvariant, <1>1, PTL

\* TRK_InterruptHandler saves the target once: no fault of the nub and no entry by
\* input overwrites gTRKCPUState before TRKSwapAndGo has given it back.
THEOREM TargetIsKept == Spec => []TheTargetIsKept
<1>1. IInv => TheTargetIsKept  BY DEF IInv
<1>2. QED  BY IInvariant, <1>1, PTL

\* The nub has its registers back after TRKSwapAndGo, and after TRKExceptionHandler.
THEOREM NubGoesOn == Spec => []TheNubGoesOn
<1>1. IInv => TheNubGoesOn  BY DEF IInv
<1>2. QED  BY IInvariant, <1>1, PTL

\* TRK_InterruptHandler runs with the translation of the nub, because
\* TRKInitializeTarget saved the MSR before the first exception.
THEOREM HandlerHasTheMSR == Spec => []TheHandlerHasTheMSR
<1>1. IInv => TheHandlerHasTheMSR  BY DEF IInv
<1>2. QED  BY IInvariant, <1>1, PTL

LEMMA FaultStep ==
  ASSUME IInv, [Next]_vars, at = "interrupt", at' = "nub"
  PROVE  /\ cause.of = "nub"
         /\ exception' = [detected |-> TRUE, id |-> Id(cause.id), PC |-> Nub("PC")]
         /\ cpu'["PC"] = Nub(IF cause.id \in Skipped THEN "next" ELSE "PC")
<1>1. TRKExceptionHandler
  BY DEF Next, vars, InitMetroTRK, TRKInitializeTarget, TRKDoOverride, Exception,
         TRKLoadContext, Interrupt, TRK_InterruptHandler, TransportReturn,
         ActivateByInput, TRKSwapAndGo, NonTransportInterrupt,
         TRKPostInterruptEvent, ClearException
<1>2. cause.of = "nub"
  BY <1>1 DEF IInv, Flags, TRKExceptionHandler
<1>3. cpu["r3"] = <<"id", cause.id>> /\ cpu["SRR0"] = Nub("PC")
  BY <1>2 DEF IInv, HandlerInv
<1>4. cpu \in [Regs -> Values] /\ cause.id \in Exceptions
  BY DEF IInv, TypeOK
<1>5. SkipInstruction(cpu["r3"], cpu["SRR0"])
        = Nub(IF cause.id \in Skipped THEN "next" ELSE "PC")
  BY <1>3, <1>4 DEF SkipInstruction
<1>6. cpu'["PC"] = SkipInstruction(cpu["r3"], cpu["SRR0"])
  BY <1>1, <1>4 DEF TRKExceptionHandler, Recovered
<1>7. QED  BY <1>1, <1>2, <1>3, <1>5, <1>6 DEF TRKExceptionHandler

\* TRKExceptionHandler notes the exception of the nub that it was called for, and
\* the nub goes on behind the instruction for just those that are skipped.
THEOREM FaultIsSeen == Spec => AFaultIsSeen
<1>1. IInv /\ [Next]_vars =>
        [ at = "interrupt" /\ at' = "nub" =>
            /\ cause.of = "nub"
            /\ exception' = [detected |-> TRUE, id |-> Id(cause.id), PC |-> Nub("PC")]
            /\ cpu'["PC"] = Nub(IF cause.id \in Skipped THEN "next" ELSE "PC") ]_vars
  BY FaultStep
<1>2. QED  BY IInvariant, <1>1, PTL DEF Spec, AFaultIsSeen

LEMMA EventStep ==
  ASSUME IInv, [Next]_vars, at = "event", at' = "nub"
  PROVE  /\ posted' = (cause.of = "target" /\ cause.id # External)
         /\ cpu'["PC"] = Nub("PC")
<1>1. TRKPostInterruptEvent
  BY DEF Next, vars, InitMetroTRK, TRKInitializeTarget, TRKDoOverride, Exception,
         TRKLoadContext, Interrupt, TRK_InterruptHandler, TransportReturn,
         ActivateByInput, TRKSwapAndGo, NonTransportInterrupt,
         TRKExceptionHandler, ClearException
<1>2. activated = (cause.id = External) /\ (cause.of = "nub" => cause.id = External)
  BY DEF IInv, Flags
<1>3. cause.of \in Programs
  BY DEF IInv, TypeOK
<1>4. posted' = (cause.of = "target" /\ cause.id # External)
  BY <1>1, <1>2, <1>3 DEF TRKPostInterruptEvent
<1>5. cpu'["PC"] = Nub("PC")
  BY <1>1 DEF IInv, EventInv, TRKPostInterruptEvent
<1>6. QED  BY <1>4, <1>5

\* TRKPostInterruptEvent posts an event for an exception of the target and for
\* nothing else: whoever enters the nub sets inputActivated right.
THEOREM StopIsPosted == Spec => AStopIsPosted
<1>1. IInv /\ [Next]_vars =>
        [ at = "event" /\ at' = "nub" =>
            /\ posted' = (cause.of = "target" /\ cause.id # External)
            /\ cpu'["PC"] = Nub("PC") ]_vars
  BY EventStep
<1>2. QED  BY IInvariant, <1>1, PTL DEF Spec, AStopIsPosted
=============================================================================
