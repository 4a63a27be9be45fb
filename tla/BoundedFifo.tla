----------------------------- MODULE BoundedFifo -----------------------------
(***************************************************************************)
(* A queue of at most Capacity items, as a sequence.  What is put comes    *)
(* out once, complete and in order, and a call is refused only when there  *)
(* is no room for what it puts, or less than it asks for: then it has no   *)
(* effect.  EventQueue and CircleBuffer, which keep their items in a ring, *)
(* implement this specification.                                           *)
(***************************************************************************)
EXTENDS Naturals, Sequences

CONSTANTS
  Capacity,
  Batches,     \* the sequences of items that one call may put
  Amounts      \* the numbers of items that one call may ask for

VARIABLES
  items,       \* the items in the queue, the oldest first
  answer       \* what the last call returned

vars == <<items, answer>>

Accepted(s) == [ok |-> TRUE, data |-> s]
Refused     == [ok |-> FALSE, data |-> <<>>]

Init ==
  /\ items = <<>>
  /\ answer = Refused

Put(s) ==
  IF Len(items) + Len(s) <= Capacity
  THEN items' = items \o s /\ answer' = Accepted(<<>>)
  ELSE UNCHANGED items /\ answer' = Refused

Get(n) ==
  IF n <= Len(items)
  THEN /\ items' = SubSeq(items, n + 1, Len(items))
       /\ answer' = Accepted(SubSeq(items, 1, n))
  ELSE UNCHANGED items /\ answer' = Refused

Next ==
  \/ \E s \in Batches : Put(s)
  \/ \E n \in Amounts : Get(n)

Spec == Init /\ [][Next]_vars
=============================================================================
