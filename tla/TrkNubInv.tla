----------------------------- MODULE TrkNubInv -----------------------------
(***************************************************************************)
(* The inductive invariant of TrkNub, for a host that may send its         *)
(* requests without waiting for the replies.                               *)
(*                                                                         *)
(* None of TypeOK, BufferAccounting, RequestsIntact, NoSilentResume and    *)
(* HostViewAgrees is inductive: that a buffer has one owner, or that the   *)
(* queue takes an event, depends on what can be under way while the nub is *)
(* in each of its places, and the parts below say what that is.            *)
(***************************************************************************)
EXTENDS TrkNub

\* The host is synchronous (nubinit.c) and the pool has its three buffers.
SynchronousHost == MaxOutstanding = 1 /\ NumBuffers >= 3

\* No event is dropped because the queue is full: the host has one request
\* under way at a time, or the pool runs dry before the queue is full.
\* NUBQUEUELENGTH and kMessageBufferCount have to be chosen together: a fourth
\* buffer and the queue of two would drop the third request read in a wait,
\* and keep its buffer for good.
QueueSuffices == MaxOutstanding = 1 \/ (NumBuffers <= 3 /\ QueueLength >= 2)

Sent == Commands \cup Replies

\* The nub waits for the reply to its own request; where the wait ends when
\* the pool is empty is not known, and nothing is done from then on.
Waiting == {"wait", "undefined"}

EventRecord == [type : EventTypes, buf : Buffers \cup {NoBuffer}]

DataInv ==
  /\ pc \in Running \cup Halted
  /\ isIdle \in BOOLEAN
  /\ used \subseteq Buffers
  /\ content \in [Buffers -> Sent \cup {Blank}]
  /\ chunks \in 0 .. MaxChunks
  /\ stopped \in BOOLEAN
  /\ stepping \in BOOLEAN
  /\ exc \in [id : {"trace", "program", "other", "external"}, atTrap : BOOLEAN]
  /\ irq \in BOOLEAN
  /\ hostView \in {"stopped", "running"}
  /\ unreported \subseteq {"fault", "badSupport"}

\* A request owns a buffer, every other event owns none.
WellFormed(e) ==
  /\ e \in EventRecord
  /\ e.type = "request" <=> e.buf # NoBuffer

\* At most one event is queued; the events that arrive while the nub waits for
\* a reply are requests, and there is room for two of them.
QueueInv ==
  \/ queue = <<>>
  \/ \E e \in EventRecord :
       /\ queue = <<e>>
       /\ WellFormed(e)
       /\ e.type # "none"
       /\ \/ pc = "loop"
          \/ pc \in Waiting \cup {"reply"} /\ e.type = "request"
  \/ \E e, f \in EventRecord :
       /\ queue = <<e, f>>
       /\ WellFormed(e) /\ WellFormed(f)
       /\ e.type = "request" /\ f.type = "request"
       /\ pc \in Waiting

\* What is being handled in each place.
EventInv ==
  /\ WellFormed(event)
  /\ pc = "loop" => event.type = "none"
  /\ pc = "dispatch" => event.type # "none"
  /\ pc \in Waiting \cup {"reply"} => event.type \in TargetEvents
  /\ pc \in {"swap", "target", "post"} => event.type \in {"none", "request"}

\* The one request of the nub.
SendInv ==
  /\ pc \in Waiting \cup {"reply"} => sendBuf \in Buffers
  /\ pc \notin Waiting \cup {"reply"} => sendBuf = NoBuffer
  /\ pc = "reply" => replyBuf \in Buffers /\ replyBuf # sendBuf
  /\ pc # "reply" => replyBuf = NoBuffer
  /\ owed \in {0, 1}
  /\ owed = 1 => pc \in Waiting

QueueBuffer == IF queue = <<>> THEN NoBuffer ELSE Head(queue).buf

\* The buffer of the second event of the queue.
SecondBuffer ==
  IF queue = <<>> \/ Tail(queue) = <<>> THEN NoBuffer ELSE Head(Tail(queue)).buf

\* Every buffer in use has one owner.
BufferInv ==
  /\ used = {QueueBuffer, SecondBuffer, event.buf, sendBuf, replyBuf} \ {NoBuffer}
  /\ QueueBuffer # NoBuffer =>
       QueueBuffer \notin {SecondBuffer, event.buf, sendBuf, replyBuf}
  /\ SecondBuffer # NoBuffer =>
       SecondBuffer \notin {event.buf, sendBuf, replyBuf}

SwitchInv ==
  /\ inTRK = (pc # "target")
  /\ inputActivated \in BOOLEAN
  /\ inputActivated => pc = "post"

\* The target is stopped only where the nub stopped it.
TargetInv ==
  /\ pc \in {"swap", "target", "post"} => ~stopped
  /\ pc = "dispatch" /\ event.type \in TargetEvents => ~stopped
  /\ queue # <<>> /\ Head(queue).type \in TargetEvents => ~stopped

Faulty  == exc.id = "other" \/ (exc.id = "program" /\ ~exc.atTrap)
Reports == {"breakpoint", "exception"}

\* A fault is on its way to TRKTargetInterrupt, or reported.
FaultInv ==
  "fault" \in unreported =>
    /\ Faulty
    /\ \/ pc = "post" /\ ~inputActivated
       \/ pc = "loop" /\ queue # <<>> /\ Head(queue).type \in Reports
       \/ pc = "dispatch" /\ event.type \in Reports

\* A host that sends no command the dispatcher has no case for: such a command
\* is discarded without an answer (the run nub_unknown).
OnlyKnownCommands == "unknown" \notin Commands

\* Each request in h is one of those in u, in their order.  The host waits for
\* the answer to a discarded command forever, so it is only without these that
\* h has all the requests of u.
Matched(h, u) ==
  \E place \in [DOMAIN h -> 0 .. Len(u)] :
    /\ \A k \in DOMAIN h : h[k] \in AllCommands => place[k] \in 1 .. Len(u)
    /\ \A k, l \in DOMAIN h :
         h[k] \in AllCommands /\ h[l] \in AllCommands /\ k < l => place[k] < place[l]
    /\ OnlyKnownCommands =>
         /\ \A k \in DOMAIN h : h[k] \in AllCommands => h[k] = u[place[k]]
         /\ \A i \in 1 .. Len(u) :
              \E k \in DOMAIN h : h[k] \in AllCommands /\ place[k] = i

\* The requests on their way to their handlers.  Only requests are put into
\* the queue while the nub waits: it can tell them from the reply.
RequestInv ==
  /\ wire \in Seq(Sent)
  /\ unanswered \in Seq(Commands)
  /\ Len(unanswered) <= MaxOutstanding
  /\ pc \in Waiting \cup {"reply"} =>
       \A b \in {QueueBuffer, SecondBuffer} \ {NoBuffer} : content[b] \in Commands
  /\ pc \notin Halted => Matched(Held, unanswered)

\* The reply to the nub's own request is the only one on the wire, and it comes
\* while the nub waits for it.
ReplyInv ==
  \A k \in DOMAIN wire : wire[k] \in Replies =>
    /\ pc \in Waiting
    /\ owed = 0
    /\ \A l \in DOMAIN wire : wire[l] \in Replies => l = k

\* The inductive invariant: the nub, and the requests and the reply on their
\* way to it.
NubInv ==
  /\ DataInv
  /\ QueueInv
  /\ EventInv
  /\ SendInv
  /\ BufferInv
  /\ SwitchInv
  /\ TargetInv
  /\ FaultInv

IInv == NubInv /\ RequestInv /\ ReplyInv

\* The host knows the state of the target at every moment, if it does not ask
\* to step over.
ViewInv == stopped <=> hostView = "stopped"
=============================================================================
