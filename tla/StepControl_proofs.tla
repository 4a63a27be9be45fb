------------------------- MODULE StepControl_proofs -------------------------
(***************************************************************************)
(* Steps are exact for every program, every count and every range.         *)
(***************************************************************************)
EXTENDS StepControl, TLAPS

\* The processor is with the target only when its last event was handled.
EventInv == at = "target" => event = "none"

\* RangeIsExact, from the decision to go on to the next trace.
RangeInv ==
  step.active /\ step.type = "intoRange" /\ event = "none"
  /\ ~serviced /\ ~moved => PC \in step.range[1] .. step.range[2]

StepInv ==
  /\ TypeOK
  /\ TracedWhileStepping
  /\ EventInv
  /\ CountIsExact
  /\ RangeInv

\* The two ways to start a step.
LEMMA StepStarts ==
  ASSUME TypeOK,
         NEW s \in Step, TRKTargetDoStep(s), s.type = "intoCount" => s.count > 0
  PROVE  /\ step' \in Step
         /\ step'.active = TRUE /\ step'.type = s.type /\ step'.range = s.range
         /\ s.type = "intoCount" => step'.count = s.count - 1
         /\ msr' = [SE |-> TRUE, EE |-> FALSE]
         /\ stopped' = FALSE
<1> USE StepAssumption
<1>1. s.count - 1 \in 0 .. MaxCount \/ s.type # "intoCount"
  BY DEF Step
<1> QED
  BY <1>1 DEF TRKTargetDoStep, TRKTargetEnableTrace, Step

\* The invariant is kept by every step of the nub, the host and the target.
LEMMA StepInvIsInductive == StepInv /\ [Next]_vars => StepInv'
<1> SUFFICES ASSUME StepInv, [Next]_vars PROVE StepInv'
  OBVIOUS
<1> USE StepAssumption
<1> USE DEF StepInv, TypeOK, TracedWhileStepping, EventInv, CountIsExact,
            RangeInv, saved, history
<1>1. CASE TRKTargetInterrupt_Again
  <2>1. step \in Step /\ (step.type = "intoCount" => step.count > 0)
    BY <1>1 DEF TRKTargetInterrupt_Again, StepGoesOn
  <2>2. /\ step' \in Step
        /\ step'.active = TRUE /\ step'.type = step.type /\ step'.range = step.range
        /\ step.type = "intoCount" => step'.count = step.count - 1
        /\ msr' = [SE |-> TRUE, EE |-> FALSE]
        /\ stopped' = FALSE
    BY <1>1, <2>1, StepStarts DEF TRKTargetInterrupt_Again
  <2>3. /\ exceptionID = "trace" /\ event # "none" /\ event' = "none"
        /\ step.active /\ at = "nub"
        /\ UNCHANGED <<code, PC, exceptionID, at, left, serviced, moved>>
        /\ step.type = "intoRange" => InRange(PC, step.range)
    BY <1>1 DEF TRKTargetInterrupt_Again, StepGoesOn, Handling
  <2>4. RangeInv'
    BY <2>2, <2>3 DEF InRange, Step, Ranges, Addr
  <2>5. CountIsExact'
    BY <2>2, <2>3 DEF Step
  <2> QED
    BY <2>2, <2>3, <2>4, <2>5 DEF Step
<1>2. CASE TRKTargetInterrupt
  <2>1. step' \in Step /\ step'.active = FALSE
    BY <1>2 DEF TRKTargetInterrupt, Step
  <2>2. msr' \in [SE : BOOLEAN, EE : BOOLEAN] /\ msr'.SE = FALSE
    <3>1. CASE step.active
      <4>1. TRKTargetEnableTrace(FALSE)
        BY <1>2, <3>1 DEF TRKTargetInterrupt
      <4>2. msr' = [SE |-> FALSE, EE |-> TRUE]
        BY <4>1 DEF TRKTargetEnableTrace
      <4> QED
        BY <4>2
    <3>2. CASE ~step.active
      <4>1. msr' = msr /\ msr.SE = FALSE
        BY <1>2, <3>2 DEF TRKTargetInterrupt, Step
      <4> QED
        BY <4>1
    <3> QED
      BY <3>1, <3>2
  <2> QED
    BY <1>2, <2>1, <2>2 DEF TRKTargetInterrupt, Handling
<1>3. CASE TRKTargetSupportRequest
  <2>1. PC' \in Addr
    BY <1>3 DEF TRKTargetSupportRequest, Following, Addr
  <2> QED
    BY <1>3, <2>1 DEF TRKTargetSupportRequest, Handling
<1>4. CASE TRKTargetSupportRequest_Invalid
  BY <1>4 DEF TRKTargetSupportRequest_Invalid, Handling
<1>5. CASE TRK_Idle
  BY <1>5 DEF TRK_Idle, Command, Handling
<1>6. ASSUME NEW n \in 0 .. MaxCount, StepIntoCount(n) PROVE StepInv'
  <2> DEFINE s == [step EXCEPT !.type = "intoCount", !.count = n]
  <2>0. n > 0
    BY <1>6 DEF StepIntoCount
  <2>1. s \in Step /\ s.type = "intoCount" /\ s.count = n
    BY DEF Step
  <2>2. TRKDoStep(s)
    BY <1>6 DEF StepIntoCount
  <2> HIDE DEF s
  <2>3. /\ step' \in Step
        /\ step'.active = TRUE /\ step'.type = "intoCount" /\ step'.count = n - 1
        /\ msr' = [SE |-> TRUE, EE |-> FALSE]
        /\ stopped' = FALSE
    BY <2>0, <2>1, <2>2, StepStarts DEF TRKDoStep
  <2>4. /\ at = "nub" /\ event = "none"
        /\ serviced' = FALSE /\ moved' = FALSE
        /\ UNCHANGED <<code, PC, exceptionID, at, event>>
    BY <2>2 DEF TRKDoStep, Command, Handling
  <2>5. left' = n
    BY <2>1, <2>2 DEF TRKDoStep
  <2>6. TypeOK'
    <3>1. msr' \in [SE : BOOLEAN, EE : BOOLEAN] /\ stopped' \in BOOLEAN
      BY <2>3
    <3>2. left' \in -1 .. MaxCount
      BY <2>5
    <3> QED
      BY <2>3, <2>4, <3>1, <3>2
  <2>7. TracedWhileStepping'
    BY <2>3
  <2>8. EventInv' /\ CountIsExact'
    BY <2>0, <2>1, <2>3, <2>4, <2>5 DEF Step
  <2>9. RangeInv'
    BY <2>0, <2>1, <2>3, <2>4, <2>5 DEF Step
  <2> QED
    BY <2>6, <2>7, <2>8, <2>9
<1>7. ASSUME NEW range \in Ranges, StepIntoRange(range) PROVE StepInv'
  <2> DEFINE s == [step EXCEPT !.type = "intoRange", !.range = range]
  <2>1. s \in Step /\ s.type = "intoRange" /\ s.range = range
    BY DEF Step
  <2>2. TRKDoStep(s) /\ PC \in range[1] .. range[2]
    BY <1>7 DEF StepIntoRange, InRange, Ranges, Addr
  <2> HIDE DEF s
  <2>3. /\ step' \in Step
        /\ step'.active = TRUE /\ step'.type = "intoRange" /\ step'.range = range
        /\ msr' = [SE |-> TRUE, EE |-> FALSE]
        /\ stopped' = FALSE
    BY <2>1, <2>2, StepStarts DEF TRKDoStep
  <2>4. /\ at = "nub" /\ event = "none"
        /\ serviced' = FALSE /\ moved' = FALSE
        /\ UNCHANGED <<code, PC, exceptionID, at, event>>
    BY <2>2 DEF TRKDoStep, Command, Handling
  <2>5. left' = -1
    BY <2>1, <2>2 DEF TRKDoStep
  <2>6. TypeOK'
    <3>1. msr' \in [SE : BOOLEAN, EE : BOOLEAN] /\ stopped' \in BOOLEAN
      BY <2>3
    <3>2. left' \in -1 .. MaxCount
      BY <2>5
    <3> QED
      BY <2>3, <2>4, <3>1, <3>2
  <2>7. TracedWhileStepping'
    BY <2>3
  <2>8. EventInv' /\ CountIsExact'
    BY <2>1, <2>2, <2>3, <2>4, <2>5 DEF Step
  <2>9. RangeInv'
    BY <2>1, <2>2, <2>3, <2>4, <2>5 DEF Step
  <2> QED
    BY <2>6, <2>7, <2>8, <2>9
<1>8. CASE TRKDoContinue
  BY <1>8 DEF TRKDoContinue, Command, Handling
<1>9. CASE TRKDoStop
  BY <1>9 DEF TRKDoStop, Command, Handling
<1>10. ASSUME NEW pc \in Addr, TRKDoWriteRegisters(pc) PROVE StepInv'
  BY <1>10 DEF TRKDoWriteRegisters, Command, Handling
<1>11. ASSUME NEW next \in Addr, TargetExecutes(next) PROVE StepInv'
  <2>1. /\ at = "target" /\ event = "none" /\ PC' \in Addr
        /\ left' = IF left >= 0 THEN left - 1 ELSE left
        /\ UNCHANGED <<code, msr, stopped, step, serviced, moved>>
    BY <1>11 DEF TargetExecutes, Raise
  <2>2. left' \in -1 .. MaxCount
    BY <2>1
  <2>3. CASE msr.SE
    <3>1. /\ at' = "nub" /\ exceptionID' = "trace"
          /\ event' \in {"breakpoint", "support"}
      BY <1>11, <2>3 DEF TargetExecutes, Raise, InterruptEventType
    <3> QED
      BY <2>1, <2>2, <3>1 DEF Step
  <2>4. CASE ~msr.SE
    BY <1>11, <2>1, <2>2, <2>4 DEF TargetExecutes, Step
  <2> QED
    BY <2>3, <2>4
<1>12. CASE TargetFaults
  <2>1. /\ at = "target" /\ event = "none" /\ at' = "nub"
        /\ exceptionID' \in {"dsi", "program"}
        /\ event' \in {"breakpoint", "exception", "support"}
        /\ UNCHANGED <<code, PC, left, msr, stopped, step, serviced, moved>>
    BY <1>12 DEF TargetFaults, Raise, InterruptEventType
  <2> QED
    BY <2>1
<1>13. CASE TransportInterrupt
  BY <1>13 DEF TransportInterrupt
<1>14. CASE UNCHANGED vars
  BY <1>14 DEF vars
<1> QED
  BY <1>1, <1>2, <1>3, <1>4, <1>5, <1>6, <1>7, <1>8, <1>9, <1>10, <1>11,
     <1>12, <1>13, <1>14 DEF Next, Nub, Host, Target

\* What the proofs below rest on.
LEMMA StepInvariant == Spec => []StepInv
<1>1. Init => StepInv
  <2> SUFFICES ASSUME Init PROVE StepInv
    OBVIOUS
  <2>1. 0 \in Addr /\ 0 \in 0 .. MaxCount /\ -1 \in -1 .. MaxCount
    BY StepAssumption DEF Addr
  <2>2. step \in Step
    BY <2>1 DEF Init, Step, Ranges
  <2>3. TypeOK
    BY <2>1, <2>2 DEF Init, TypeOK
  <2> QED
    BY <2>3 DEF Init, StepInv, TracedWhileStepping, EventInv, CountIsExact,
                RangeInv
<1> QED
  BY <1>1, StepInvIsInductive, PTL DEF Spec

\* TRKTargetEnableTrace, TRKTargetDoStep, TRKTargetCheckStep: the trace bit is
\* set while a step is active and at no other time.
THEOREM TracesAreSteps == Spec => []TracedWhileStepping
<1>1. StepInv => TracedWhileStepping
  BY DEF StepInv
<1> QED
  BY <1>1, StepInvariant, PTL

\* The count of gTRKStepStatus is that of the instructions still to execute.
THEOREM CountsAreExact == Spec => []CountIsExact
<1>1. StepInv => CountIsExact
  BY DEF StepInv
<1> QED
  BY <1>1, StepInvariant, PTL

\* A step over a range executes nothing outside the range.
THEOREM RangesAreExact == Spec => []RangeIsExact
<1>1. StepInv => RangeIsExact
  BY DEF StepInv, RangeInv, EventInv, RangeIsExact
<1> QED
  BY <1>1, StepInvariant, PTL

\* A counted step is reported after exactly as many instructions as asked for.
THEOREM StepsAreExact == Spec => StepIsExact
<1>1. StepInv /\ TRKTargetInterrupt /\ step.active /\ step.type = "intoCount"
      /\ exceptionID = "trace" /\ ~serviced => left = 0
  <2> SUFFICES ASSUME StepInv, TRKTargetInterrupt, step.active,
                      step.type = "intoCount", exceptionID = "trace", ~serviced
               PROVE  left = 0
    OBVIOUS
  <2>1. left = step.count
    BY DEF StepInv, CountIsExact, TRKTargetInterrupt, Handling
  <2>2. step.count <= 0 /\ step.count \in 0 .. MaxCount
    BY DEF TRKTargetInterrupt, StepGoesOn, StepInv, TypeOK, Step
  <2> QED
    BY <2>1, <2>2, StepAssumption
<1>2. StepInv /\ [Next]_vars =>
        [TRKTargetInterrupt /\ step.active /\ step.type = "intoCount"
         /\ exceptionID = "trace" /\ ~serviced => left = 0]_vars
  BY <1>1
<1> QED
  BY <1>2, StepInvariant, PTL DEF Spec, StepIsExact
=============================================================================
