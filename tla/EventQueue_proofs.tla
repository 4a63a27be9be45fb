-------------------------- MODULE EventQueue_proofs --------------------------
(***************************************************************************)
(* The ring of events implements BoundedFifo, and the ids of the queued    *)
(* events differ, for every length of the ring and every width of the ids. *)
(***************************************************************************)
EXTENDS EventQueue, TLAPS, SequenceTheorems

USE DEF Slots

\* Positions go round the ring without leaving it.
LEMMA RoundInRange ==
  ASSUME NEW p \in Slots, NEW i \in 0 .. NUBQUEUELENGTH
  PROVE  Round(p, i) \in Slots
  BY QueueAssumption DEF Round

\* Two entries of the queue are never in the same slot.
LEMMA RoundIsInjective ==
  ASSUME NEW p \in Slots,
         NEW i \in 0 .. NUBQUEUELENGTH - 1, NEW j \in 0 .. NUBQUEUELENGTH - 1,
         Round(p, i) = Round(p, j)
  PROVE  i = j
  BY QueueAssumption DEF Round

\* One place on, and i more, is i + 1 places on.
LEMMA RoundNext ==
  ASSUME NEW p \in Slots, NEW i \in 0 .. NUBQUEUELENGTH - 1
  PROVE  Round(Round(p, 1), i) = Round(p, i + 1)
  BY QueueAssumption DEF Round

\* The remainder of a number less than twice the divisor.
LEMMA Remainder ==
  ASSUME NEW n \in Nat \ {0}, NEW a \in 0 .. n + n - 1
  PROVE  a % n = IF a < n THEN a ELSE a - n
  OBVIOUS

\* The next id is an id, and every earlier one is one more post away.
LEMMA NextIdStep ==
  ASSUME RingInv
  PROVE  /\ NextId \in Ids
         /\ NextId = IF fEventID + 1 = EventIdLimit
                     THEN kTRKFirstEventID ELSE fEventID + 1
  <1>1. fEventID + 1 \in 1 .. EventIdLimit /\ fEventID \in Nat
        /\ EventIdLimit \in Nat \ {0}
    BY QueueAssumption DEF RingInv, Ids
  <1>2. CASE fEventID + 1 = EventIdLimit
    <2>1. (fEventID + 1) % EventIdLimit = 0
      BY <1>1, <1>2, Remainder
    <2> QED
      BY <1>1, <1>2, <2>1, QueueAssumption DEF NextId, Ids, RingInv
  <1>3. CASE fEventID + 1 # EventIdLimit
    <2>1. fEventID + 1 < EventIdLimit /\ fEventID + 1 \in Nat
      BY <1>1, <1>3
    <2>2. (fEventID + 1) % EventIdLimit = fEventID + 1
      BY <1>1, <2>1
    <2> QED
      BY <1>1, <1>3, <2>2, QueueAssumption DEF NextId, Ids, RingInv
  <1> QED
    BY <1>2, <1>3

\* A post that is not refused fills the slot behind the queue.
LEMMA PostStep ==
  ASSUME RingInv, NEW e \in Event, TRKPostEvent(e), fCount # NUBQUEUELENGTH
  PROVE  /\ fEventList' = [fEventList EXCEPT ![Round(fFirst, fCount)] =
                             [event |-> e, fId |-> fEventID]]
         /\ fEventID' = NextId
         /\ fCount' = fCount + 1
         /\ fFirst' = fFirst
         /\ answer' = Accepted(<<>>)
         /\ Round(fFirst, fCount) \in Slots
         /\ \A i \in 0 .. fCount - 1 :
              /\ Round(fFirst, i) \in Slots
              /\ Round(fFirst, i) # Round(fFirst, fCount)
  <1>1. /\ NUBQUEUELENGTH \in Nat \ {0} /\ fFirst \in Slots
        /\ fCount \in 0 .. NUBQUEUELENGTH - 1
    BY QueueAssumption DEF RingInv
  <1>2. (fFirst + fCount) % NUBQUEUELENGTH = Round(fFirst, fCount)
    <2>1. fFirst + fCount \in 0 .. NUBQUEUELENGTH + NUBQUEUELENGTH - 1
      BY <1>1
    <2> QED
      BY <1>1, <2>1 DEF Round
  <1>3. \A i \in 0 .. fCount - 1 :
          /\ Round(fFirst, i) \in Slots
          /\ Round(fFirst, i) # Round(fFirst, fCount)
    BY <1>1 DEF Round
  <1>4. Round(fFirst, fCount) \in Slots
    BY <1>1, RoundInRange
  <1> QED
    BY <1>2, <1>3, <1>4 DEF TRKPostEvent

\* A get from a queue that is not empty moves on by one slot.
LEMMA GetStep ==
  ASSUME RingInv, TRKGetNextEvent, fCount > 0
  PROVE  /\ fFirst' = Round(fFirst, 1)
         /\ fCount' = fCount - 1
         /\ fEventList' = fEventList
         /\ fEventID' = fEventID
         /\ answer' = Accepted(<<fEventList[fFirst].event>>)
         /\ Round(fFirst, 0) = fFirst
         /\ \A i \in 0 .. fCount - 2 :
              Round(fFirst', i) = Round(fFirst, i + 1)
  <1>1. NUBQUEUELENGTH \in Nat \ {0} /\ fFirst \in Slots
        /\ fCount \in 1 .. NUBQUEUELENGTH
    BY QueueAssumption DEF RingInv
  <1>2. fFirst' = Round(fFirst, 1) /\ Round(fFirst, 0) = fFirst
    BY <1>1 DEF TRKGetNextEvent, Round
  <1>3. \A i \in 0 .. fCount - 2 : Round(fFirst', i) = Round(fFirst, i + 1)
    BY <1>1, <1>2 DEF Round
  <1> QED
    BY <1>2, <1>3 DEF TRKGetNextEvent

LEMMA NextKeepsRing == RingInv /\ [Next]_vars => RingInv'
  <1> SUFFICES ASSUME RingInv, [Next]_vars PROVE RingInv'
    OBVIOUS
  <1>1. ASSUME TRKGetNextEvent PROVE RingInv'
    <2>1. CASE fCount > 0
      <3>1. fCount' \in 0 .. NUBQUEUELENGTH /\ fFirst' \in Slots
        <4>1. 1 \in 0 .. NUBQUEUELENGTH /\ fFirst \in Slots
              /\ fCount - 1 \in 0 .. NUBQUEUELENGTH
          BY <2>1, QueueAssumption DEF RingInv
        <4> QED
          BY <1>1, <2>1, <4>1, GetStep, RoundInRange
      <3>2. fEventList' \in [Slots -> Entry] /\ fEventID' \in Ids
        BY <1>1, <2>1, GetStep DEF RingInv
      <3>3. ASSUME NEW i \in 0 .. fCount' - 1
            PROVE  fEventList'[Round(fFirst', i)].fId = IdBefore(fEventID', fCount' - i)
        <4>1. i \in 0 .. fCount - 2 /\ fCount' - i = fCount - (i + 1)
          BY <1>1, <2>1, <3>3, GetStep DEF RingInv
        <4>2. fEventList'[Round(fFirst', i)] = fEventList[Round(fFirst, i + 1)]
          BY <1>1, <2>1, <4>1, GetStep
        <4>3. fEventList[Round(fFirst, i + 1)].fId = IdBefore(fEventID, fCount - (i + 1))
          BY <4>1 DEF RingInv
        <4>4. IdBefore(fEventID', fCount' - i) = IdBefore(fEventID, fCount - (i + 1))
          BY <1>1, <2>1, <4>1, GetStep DEF IdBefore
        <4> QED
          BY <4>2, <4>3, <4>4
      <3> QED
        BY <3>1, <3>2, <3>3 DEF RingInv
    <2>2. CASE ~(fCount > 0)
      BY <1>1, <2>2 DEF TRKGetNextEvent, RingInv
    <2> QED
      BY <2>1, <2>2
  <1>2. ASSUME NEW e \in Event, TRKPostEvent(e) PROVE RingInv'
    <2>1. CASE fCount # NUBQUEUELENGTH
      <3>1. fCount' \in 0 .. NUBQUEUELENGTH /\ fFirst' \in Slots
        BY <1>2, <2>1, PostStep, QueueAssumption DEF RingInv
      <3>2. fEventID' \in Ids
        BY <1>2, <2>1, PostStep, NextIdStep
      <3>3. fEventList' \in [Slots -> Entry]
        <4>1. [event |-> e, fId |-> fEventID] \in Entry
          BY DEF Entry, RingInv
        <4> QED
          BY <1>2, <2>1, <4>1, PostStep DEF RingInv
      <3>4. ASSUME NEW i \in 0 .. fCount' - 1
            PROVE  fEventList'[Round(fFirst', i)].fId = IdBefore(fEventID', fCount' - i)
        <4>1. i \in 0 .. fCount /\ fCount' - i = fCount - i + 1
              /\ fCount - i \in 0 .. NUBQUEUELENGTH - 1
          BY <1>2, <2>1, <3>4, PostStep, QueueAssumption DEF RingInv
        <4>2. CASE i = fCount
          <5>1. fEventList'[Round(fFirst', i)].fId = fEventID
            <6>1. fEventList'[Round(fFirst, fCount)]
                    = [event |-> e, fId |-> fEventID]
              BY <1>2, <2>1, PostStep DEF RingInv
            <6> QED
              BY <1>2, <2>1, <4>2, <6>1, PostStep
          <5>2. IdBefore(fEventID', fCount' - i) = fEventID
            <6>1. fEventID' = (IF fEventID + 1 = EventIdLimit
                               THEN kTRKFirstEventID ELSE fEventID + 1)
              BY <1>2, <2>1, PostStep, NextIdStep
            <6>2. fCount' - i = 1 /\ fEventID \in Ids
              BY <4>1, <4>2 DEF RingInv
            <6> QED
              BY <6>1, <6>2, QueueAssumption DEF IdBefore, Ids
          <5> QED
            BY <5>1, <5>2
        <4>3. CASE i # fCount
          <5>1. i \in 0 .. fCount - 1
            BY <4>1, <4>3 DEF RingInv
          <5>2. fEventList'[Round(fFirst', i)] = fEventList[Round(fFirst, i)]
            BY <1>2, <2>1, <5>1, PostStep DEF RingInv
          <5>3. fEventList[Round(fFirst, i)].fId = IdBefore(fEventID, fCount - i)
            BY <5>1 DEF RingInv
          <5>4. IdBefore(fEventID', fCount' - i) = IdBefore(fEventID, fCount - i)
            <6>1. fEventID \in Ids /\ fCount - i \in 1 .. NUBQUEUELENGTH - 1
              BY <4>1, <5>1 DEF RingInv
            <6>2. fEventID' = (IF fEventID + 1 = EventIdLimit
                               THEN kTRKFirstEventID ELSE fEventID + 1)
              BY <1>2, <2>1, PostStep, NextIdStep
            <6> QED
              BY <4>1, <6>1, <6>2, QueueAssumption DEF IdBefore, Ids
          <5> QED
            BY <5>2, <5>3, <5>4
        <4> QED
          BY <4>2, <4>3
      <3> QED
        BY <3>1, <3>2, <3>3, <3>4 DEF RingInv
    <2>2. CASE fCount = NUBQUEUELENGTH
      BY <1>2, <2>2 DEF TRKPostEvent, RingInv
    <2> QED
      BY <2>1, <2>2
  <1>3. CASE UNCHANGED vars
    BY <1>3 DEF vars, RingInv
  <1> QED
    BY <1>1, <1>2, <1>3 DEF Next

\* The queued events carry the last ids that were given, in order, round the
\* wrap of the counter.
THEOREM RingIsConsistent == Spec => []RingInv
  <1>1. Init => RingInv
    BY QueueAssumption DEF Init, TRKInitializeEventQueue, RingInv, Ids
  <1> QED
    BY <1>1, NextKeepsRing, PTL DEF Spec

\* No two queued events have the same id, if there are at least as many ids as
\* slots.
THEOREM IdsDiffer == Spec => []EventIdsDiffer
  <1>1. RingInv => EventIdsDiffer
    <2> SUFFICES ASSUME RingInv,
                        NEW i \in 0 .. fCount - 1, NEW j \in 0 .. fCount - 1,
                        IdBefore(fEventID, fCount - i) = IdBefore(fEventID, fCount - j)
                 PROVE  i = j
      BY DEF RingInv, EventIdsDiffer
    <2> QED
      BY QueueAssumption DEF RingInv, IdBefore, Ids
  <1> QED
    BY <1>1, RingIsConsistent, PTL

-----------------------------------------------------------------------------
ContentsTyped == Contents \in Seq(Event) /\ Len(Contents) = fCount

LEMMA ContentsType == RingInv => ContentsTyped
  <1> SUFFICES ASSUME RingInv PROVE ContentsTyped
    OBVIOUS
  <1>1. fCount \in Nat /\ \A i \in 1 .. fCount : Round(fFirst, i - 1) \in Slots
    <2>1. fCount \in 0 .. NUBQUEUELENGTH /\ fFirst \in Slots
          /\ NUBQUEUELENGTH \in Nat
      BY QueueAssumption DEF RingInv
    <2> QED
      BY <2>1, RoundInRange
  <1> QED
    BY <1>1 DEF ContentsTyped, Contents, RingInv, Entry

LEMMA ContentsTypeNext ==
  RingInv' => Contents' \in Seq(Event) /\ Len(Contents') = fCount'
  <1>1. RingInv' => ContentsTyped'
    BY ContentsType, PTL
  <1> QED
    BY <1>1 DEF ContentsTyped

\* A get is a Get of one item.
LEMMA GetIsGet == ASSUME RingInv, TRKGetNextEvent PROVE Fifo!Get(1)
  <1>1. Contents \in Seq(Event) /\ Len(Contents) = fCount /\ fCount \in Nat
    BY ContentsType DEF ContentsTyped, RingInv
  <1>2. CASE fCount > 0
    <2> DEFINE rest == [i \in 1 .. fCount - 1 |->
                          fEventList[Round(fFirst, i)].event]
    <2>1. SubSeq(Contents, 1, 1) = <<Contents[1]>>
      <3>1. /\ SubSeq(Contents, 1, 1) \in Seq(Event)
            /\ Len(SubSeq(Contents, 1, 1)) = 1
            /\ SubSeq(Contents, 1, 1)[1] = Contents[1]
        BY <1>1, <1>2
      <3>2. Contents[1] \in Event
        BY <1>1, <1>2
      <3> DEFINE x == Contents[1]
      <3>3. <<x>> \in Seq(Event) /\ Len(<<x>>) = 1 /\ <<x>>[1] = x
        BY <3>2
      <3> HIDE DEF x
      <3>4. \A i \in 1 .. 1 : SubSeq(Contents, 1, 1)[i] = <<x>>[i]
        BY <3>1, <3>3 DEF x
      <3>5. SubSeq(Contents, 1, 1) = <<x>>
        BY <3>1, <3>3, <3>4, SeqEqual
      <3> QED
        BY <3>5 DEF x
    <2>2. Contents[1] = fEventList[fFirst].event
      BY <1>1, <1>2, GetStep DEF Contents
    <2>3. answer' = Accepted(SubSeq(Contents, 1, 1))
      BY <1>2, <2>1, <2>2, GetStep
    <2>4. Contents' = rest
      <3>1. fCount' = fCount - 1 /\ fEventList' = fEventList
        BY <1>2, GetStep
      <3>2. \A i \in 1 .. fCount - 1 : Round(fFirst', i - 1) = Round(fFirst, i)
        BY <1>1, <1>2, GetStep
      <3> QED
        BY <3>1, <3>2 DEF Contents, Round
    <2>5. SubSeq(Contents, 2, Len(Contents)) = rest
      <3>1. SubSeq(Contents, 2, fCount)
              = [i \in 1 .. fCount - 1 |-> Contents[i + 1]]
        BY <1>1, <1>2
      <3>2. \A i \in 1 .. fCount - 1 :
              Contents[i + 1] = fEventList[Round(fFirst, i)].event
        BY <1>1 DEF Contents
      <3> QED
        BY <1>1, <3>1, <3>2
    <2> QED
      BY <1>1, <1>2, <2>3, <2>4, <2>5 DEF Fifo!Get, Fifo!Accepted, Accepted
  <1>3. CASE ~(fCount > 0)
    <2>1. Contents' = Contents /\ answer' = Refused
      BY <1>3 DEF TRKGetNextEvent, Contents, Round
    <2> QED
      BY <1>1, <1>3, <2>1 DEF Fifo!Get, Fifo!Refused, Refused
  <1> QED
    BY <1>2, <1>3

\* A post is a Put of one item.
LEMMA PostIsPut ==
  ASSUME RingInv, NEW e \in Event, TRKPostEvent(e)
  PROVE  Fifo!Put(<<e>>)
  <1>1. Contents \in Seq(Event) /\ Len(Contents) = fCount /\ fCount \in Nat
        /\ fCount <= NUBQUEUELENGTH /\ NUBQUEUELENGTH \in Nat
    BY ContentsType, QueueAssumption DEF ContentsTyped, RingInv
  <1>2. <<e>> \in Seq(Event) /\ Len(<<e>>) = 1
    OBVIOUS
  <1>3. CASE fCount # NUBQUEUELENGTH
    <2>1. /\ fCount' = fCount + 1 /\ fFirst' = fFirst
          /\ answer' = Accepted(<<>>)
          /\ fEventList'[Round(fFirst, fCount)].event = e
          /\ \A i \in 0 .. fCount - 1 :
               fEventList'[Round(fFirst, i)] = fEventList[Round(fFirst, i)]
      <3> DEFINE entry == [event |-> e, fId |-> fEventID]
      <3>1. fEventList' = [fEventList EXCEPT ![Round(fFirst, fCount)] = entry]
        BY <1>3, PostStep
      <3>2. entry.event = e
        OBVIOUS
      <3> HIDE DEF entry
      <3>3. DOMAIN fEventList = Slots
        BY DEF RingInv
      <3> QED
        BY <1>3, <3>1, <3>2, <3>3, PostStep
    <2>2. Contents' = [i \in 1 .. fCount + 1 |->
                         fEventList'[Round(fFirst, i - 1)].event]
      BY <2>1 DEF Contents, Round
    <2>3. Contents' = Append(Contents, e)
      <3>1. Append(Contents, e) \in Seq(Event)
            /\ Len(Append(Contents, e)) = fCount + 1
        BY <1>1
      <3>2. \A i \in 1 .. fCount + 1 :
              Append(Contents, e)[i] = fEventList'[Round(fFirst, i - 1)].event
        BY <1>1, <2>1 DEF Contents
      <3>3. Contents' \in Seq(Event) /\ Len(Contents') = fCount + 1
        BY <2>1, NextKeepsRing, ContentsTypeNext DEF Next
      <3> QED
        BY <1>1, <2>2, <3>1, <3>2, <3>3, SeqEqual
    <2>4. Contents \o <<e>> = Append(Contents, e)
      BY <1>1
    <2> QED
      BY <1>1, <1>2, <1>3, <2>1, <2>3, <2>4
         DEF Fifo!Put, Fifo!Accepted, Accepted
  <1>4. CASE fCount = NUBQUEUELENGTH
    <2>1. Contents' = Contents /\ answer' = Refused
      BY <1>4 DEF TRKPostEvent, Contents, Round
    <2> QED
      BY <1>1, <1>2, <1>4, <2>1 DEF Fifo!Put, Fifo!Refused, Refused
  <1> QED
    BY <1>3, <1>4

\* The event ring is a FIFO, as TrkNub takes it to be.
THEOREM EventQueueIsFifo == Spec => FifoSpec
  <1>1. Init => Fifo!Init
    BY DEF Init, TRKInitializeEventQueue, Contents, Fifo!Init, Fifo!Refused,
           Refused
  <1>2. RingInv /\ [Next]_vars => [Fifo!Next]_(Fifo!vars)
    <2> SUFFICES ASSUME RingInv, [Next]_vars PROVE [Fifo!Next]_(Fifo!vars)
      OBVIOUS
    <2>1. CASE Next
      BY <2>1, GetIsGet, PostIsPut DEF Next, Fifo!Next
    <2>2. CASE UNCHANGED vars
      BY <2>2 DEF vars, Fifo!vars, Contents, Round
    <2> QED
      BY <2>1, <2>2
  <1> QED
    BY <1>1, <1>2, RingIsConsistent, PTL DEF Spec, FifoSpec, Fifo!Spec
=============================================================================
