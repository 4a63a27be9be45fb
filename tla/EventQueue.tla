----------------------------- MODULE EventQueue -----------------------------
(***************************************************************************)
(* gTRKEventQueue: the ring of events in which the nub keeps the events it *)
(* has not handled.  TrkNub uses it as a sequence.                         *)
(***************************************************************************)
EXTENDS Integers, Sequences

CONSTANTS
  NUBQUEUELENGTH,
  Event,             \* the events that are posted
  kTRKFirstEventID,
  EventIdLimit       \* ids are numbers below this: 2^32

ASSUME QueueAssumption ==
  /\ NUBQUEUELENGTH \in Nat \ {0}
  /\ kTRKFirstEventID \in Nat
  /\ EventIdLimit \in Nat
  /\ EventIdLimit >= kTRKFirstEventID + NUBQUEUELENGTH

VARIABLES
  fCount,        \* entries in the queue
  fFirst,        \* the entry that is next
  fEventList,    \* the entries: an event and its id
  fEventID,      \* the next id
  answer         \* history: what the last call returned

vars == <<fCount, fFirst, fEventList, fEventID, answer>>

Accepted(s) == [ok |-> TRUE, data |-> s]
Refused     == [ok |-> FALSE, data |-> <<>>]

Slots == 0 .. NUBQUEUELENGTH - 1
Ids   == kTRKFirstEventID .. EventIdLimit - 1
Entry == [event : Event, fId : Ids]

\* The list is uninitialised.
TRKInitializeEventQueue ==
  /\ fCount = 0
  /\ fFirst = 0
  /\ fEventList \in [Slots -> Entry]
  /\ fEventID = kTRKFirstEventID
  /\ answer = Refused

\* fFirst is not wrapped.
Bug_TRKGetNextEvent ==
  IF fCount > 0
  THEN /\ answer' = Accepted(<<fEventList[fFirst].event>>)
       /\ fCount' = fCount - 1
       /\ fFirst' = IF fFirst + 1 = NUBQUEUELENGTH THEN fFirst ELSE fFirst + 1
       /\ UNCHANGED <<fEventList, fEventID>>
  ELSE /\ answer' = Refused
       /\ UNCHANGED <<fCount, fFirst, fEventList, fEventID>>

TRKGetNextEvent ==
  IF fCount > 0
  THEN /\ answer' = Accepted(<<fEventList[fFirst].event>>)
       /\ fCount' = fCount - 1
       /\ fFirst' = IF fFirst + 1 = NUBQUEUELENGTH THEN 0 ELSE fFirst + 1
       /\ UNCHANGED <<fEventList, fEventID>>
  ELSE /\ answer' = Refused
       /\ UNCHANGED <<fCount, fFirst, fEventList, fEventID>>

\* The id is a u32; one below the first is set to the first.
NextId ==
  LET id == (fEventID + 1) % EventIdLimit
  IN  IF id < kTRKFirstEventID THEN kTRKFirstEventID ELSE id

TRKPostEvent(e) ==
  IF fCount = NUBQUEUELENGTH
  THEN /\ answer' = Refused
       /\ UNCHANGED <<fCount, fFirst, fEventList, fEventID>>
  ELSE LET nextEntry == (fFirst + fCount) % NUBQUEUELENGTH
       IN  /\ fEventList' = [fEventList EXCEPT ![nextEntry] =
                               [event |-> e, fId |-> fEventID]]
           /\ fEventID' = NextId
           /\ fCount' = fCount + 1
           /\ answer' = Accepted(<<>>)
           /\ UNCHANGED fFirst

Init == TRKInitializeEventQueue

Next ==
  \/ TRKGetNextEvent
  \/ \E e \in Event : TRKPostEvent(e)

Spec == Init /\ [][Next]_vars

-----------------------------------------------------------------------------
(***************************************************************************)
(* What must hold.                                                         *)
(***************************************************************************)

\* The entry i places after p, round the ring.
Round(p, i) == IF p + i < NUBQUEUELENGTH THEN p + i ELSE p + i - NUBQUEUELENGTH

\* The id given i posts before id was.
IdBefore(id, i) ==
  IF id - i >= kTRKFirstEventID
  THEN id - i
  ELSE id - i + (EventIdLimit - kTRKFirstEventID)

\* The queued events carry the last ids that were given, in order: no id is
\* that of another queued event, also where the counter wraps.
RingInv ==
  /\ fCount \in 0 .. NUBQUEUELENGTH
  /\ fFirst \in Slots
  /\ fEventList \in [Slots -> Entry]
  /\ fEventID \in Ids
  /\ \A i \in 0 .. fCount - 1 :
       fEventList[Round(fFirst, i)].fId = IdBefore(fEventID, fCount - i)

\* "unique ID for nub event" (nubevent.h): no two queued events share one.
EventIdsDiffer ==
  \A i, j \in 0 .. fCount - 1 :
    fEventList[Round(fFirst, i)].fId = fEventList[Round(fFirst, j)].fId => i = j

\* The events in the queue, oldest first.
Contents == [i \in 1 .. fCount |-> fEventList[Round(fFirst, i - 1)].event]

\* The ring is a queue: events come out once and in the order of the posts,
\* and one is refused only by a full queue.
Fifo == INSTANCE BoundedFifo
          WITH Capacity <- NUBQUEUELENGTH, Batches <- {<<e>> : e \in Event},
               Amounts <- {1}, items <- Contents

FifoSpec == Fifo!Spec
=============================================================================
