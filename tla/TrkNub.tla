------------------------------- MODULE TrkNub -------------------------------
(***************************************************************************)
(* The core of the debug nub: the main loop, the event queue, the pool of  *)
(* message buffers, the command handlers, the requests the nub itself      *)
(* sends to the host (stop notifications and file support), and the switch *)
(* between the nub and the target program.                                 *)
(*                                                                         *)
(* The nub is one thread.  It shares the processor with the target program *)
(* and talks to the host over a wire on which packets arrive at any time,  *)
(* so a handler is one action unless the wire or the target can act in the *)
(* middle of it: TRK_RequestSend waits for packets ("wait", "reply"), and  *)
(* TRKTargetContinue gives the processor away ("swap", "target", "post").  *)
(* What the nub sends reaches the host in the step that sends it: a host   *)
(* that reads it later is a host that reacts later, and its reactions are  *)
(* already unordered with respect to the nub's steps.                      *)
(*                                                                         *)
(* An operator Bug_X is X with a plausible mistake, and no part of the     *)
(* model: the properties are shown to notice it.                           *)
(***************************************************************************)
EXTENDS Naturals, Sequences

CONSTANTS
  NumBuffers,      \* kMessageBufferCount
  QueueLength,     \* NUBQUEUELENGTH
  Commands,        \* the commands this host sends
  MaxOutstanding,  \* how many requests the host leaves unanswered at once
  MaxChunks        \* bound: messages one file access is split into

AllCommands ==
  {"connect", "disconnect", "reset", "override", "access", "option",
   "continue", "step", "badStep", "stepOver", "stop", "unknown"}

ASSUME ConstantsAssumption ==
  /\ NumBuffers \in Nat \ {0}
  /\ QueueLength \in Nat \ {0}
  /\ Commands \subseteq AllCommands
  /\ MaxOutstanding \in Nat \ {0}
  /\ MaxChunks \in Nat \ {0}

Replies  == {"ack", "nak"}          \* a reply without, with an error
Packet   == AllCommands \cup Replies
Buffers  == 0 .. NumBuffers - 1
NoBuffer == NumBuffers              \* kInvalidMessageBufferId
Blank    == "blank"                 \* a buffer no packet was read into

TargetEvents == {"breakpoint", "exception", "support"}
EventTypes   == TargetEvents \cup {"none", "request", "shutdown"}
Event(t, b)  == [type |-> t, buf |-> b]
NoEvent      == Event("none", NoBuffer)

VARIABLES
  pc,              \* where the nub is, or "target" while the target executes
  isIdle,          \* the main loop's local of that name
  queue,           \* gTRKEventQueue
  event,           \* the event being handled
  used,            \* the buffers with fInUse set
  content,         \* the packet in each buffer
  sendBuf,         \* the buffer of the request being sent to the host
  replyBuf,        \* the buffer of the reply to it
  chunks,          \* messages of the file access not yet answered
  stopped,         \* gTRKState.stopped
  stepping,        \* gTRKStepStatus.active
  inTRK,           \* gTRKExceptionStatus.inTRK
  inputActivated,  \* gTRKState.inputActivated
  exc,             \* exceptionID, and whether the PC is at a SUPPORT_TRAP
  wire,            \* packets sent by the host and not read yet
  irq,             \* an interrupt of the transport that finds input is pending
  unanswered,      \* history: requests of the host with no answer yet
  owed,            \* requests of the nub the host has not answered
  hostView,        \* history: what the host was last told of the target
  unreported       \* history: what the target did that the host was not told

loopVars   == <<pc, isIdle, queue, event>>
bufVars    == <<used, content>>
sendVars   == <<sendBuf, replyBuf, chunks, owed>>
targetVars == <<stopped, stepping>>
switchVars == <<inTRK, inputActivated, exc>>
hostVars   == <<wire, irq, unanswered, hostView, unreported>>
vars == <<loopVars, bufVars, sendVars, targetVars, switchVars, hostVars>>

Running == {"loop", "dispatch", "wait", "reply", "swap", "target", "post"}
Halted  == {"reset", "terminated", "undefined"}

TypeOK ==
  /\ pc \in Running \cup Halted
  /\ isIdle \in BOOLEAN
  /\ queue \in Seq([type : EventTypes, buf : Buffers \cup {NoBuffer}])
  /\ event \in [type : EventTypes, buf : Buffers \cup {NoBuffer}]
  /\ used \subseteq Buffers
  /\ content \in [Buffers -> Packet \cup {Blank}]
  /\ sendBuf \in Buffers \cup {NoBuffer}
  /\ replyBuf \in Buffers \cup {NoBuffer}
  /\ chunks \in 0 .. MaxChunks
  /\ stopped \in BOOLEAN
  /\ stepping \in BOOLEAN
  /\ inTRK \in BOOLEAN
  /\ inputActivated \in BOOLEAN
  /\ exc \in [id : {"trace", "program", "other", "external"}, atTrap : BOOLEAN]
  /\ wire \in Seq(Packet)
  /\ irq \in BOOLEAN
  /\ unanswered \in Seq(AllCommands)
  /\ owed \in Nat
  /\ hostView \in {"stopped", "running"}
  /\ unreported \subseteq {"fault", "badSupport"}

Init ==
  /\ pc = "loop" /\ isIdle = FALSE
  /\ queue = <<>> /\ event = NoEvent
  /\ used = {} /\ content = [b \in Buffers |-> Blank]
  /\ sendBuf = NoBuffer /\ replyBuf = NoBuffer /\ chunks = 0 /\ owed = 0
  /\ stopped = TRUE /\ stepping = FALSE
  /\ inTRK = TRUE /\ inputActivated = FALSE
  /\ exc = [id |-> "other", atTrap |-> FALSE]
  /\ wire = <<>> /\ irq = FALSE /\ unanswered = <<>>
  /\ hostView = "stopped" /\ unreported = {}

-----------------------------------------------------------------------------
(***************************************************************************)
(* The event queue and the pool of message buffers.                        *)
(***************************************************************************)

\* The queue is taken for full one event early.
Bug_TRKPostEvent(q, e) ==
  IF Len(q) + 1 = QueueLength THEN q ELSE Append(q, e)

\* Every caller ignores the error of a full queue: the event is dropped.
TRKPostEvent(q, e) == IF Len(q) = QueueLength THEN q ELSE Append(q, e)

\* The search does not look at fInUse.
Bug_TRK_GetFreeBuffer(b) == b = 0

\* The first buffer that is not in use.
TRK_GetFreeBuffer(b) ==
  /\ b \in Buffers \ used
  /\ \A c \in Buffers \ used : b <= c

PoolEmpty == Buffers \ used = {}

\* A message is not released after it was sent.
Bug_TRK_ReleaseBuffer(bs) == used \ (bs \ {sendBuf})

TRK_ReleaseBuffer(bs) == used \ bs

\* The flag the communication library keeps for *gTRKInputPendingPtr.
InputPending == wire # <<>>

\* A packet waits and is read into the free buffer b.
TRKTestForPacket(b) ==
  /\ InputPending
  /\ TRK_GetFreeBuffer(b)
  /\ used' = used \cup {b}
  /\ content' = [content EXCEPT ![b] = Head(wire)]
  /\ wire' = Tail(wire)

\* TRKTestForPacket ignores the error of an empty pool and goes on with a
\* NULL buffer and an uninitialised buffer id: no state after that is known.
Undefined ==
  /\ pc' = "undefined"
  /\ UNCHANGED <<isIdle, queue, event, bufVars, sendVars, targetVars,
                 switchVars, hostVars>>

\* The event just handled gives its buffer back and the loop goes on.
TRKDestructEvent(alsoFree) ==
  /\ used' = TRK_ReleaseBuffer(alsoFree \cup {event.buf})
  /\ event' = NoEvent
  /\ pc' = "loop"

-----------------------------------------------------------------------------
(***************************************************************************)
(* TRK_NubMainLoop: take an event, else input, else idle.                  *)
(***************************************************************************)

TRKGetNextEvent ==
  /\ pc = "loop"
  /\ queue # <<>>
  /\ event' = Head(queue)
  /\ queue' = Tail(queue)
  /\ isIdle' = FALSE
  /\ pc' = "dispatch"
  /\ UNCHANGED <<bufVars, sendVars, targetVars, switchVars, hostVars>>

\* Input is looked for before the events.
Bug_LoopPolls == pc = "loop" /\ (~isIdle \/ InputPending)

LoopPolls == pc = "loop" /\ queue = <<>> /\ (~isIdle \/ InputPending)

\* No packet waits.
TRKGetInput_Empty ==
  /\ LoopPolls
  /\ ~InputPending
  /\ isIdle' = TRUE
  /\ UNCHANGED <<pc, queue, event, bufVars, sendVars, targetVars, switchVars,
                 hostVars>>

\* TRKTestForPacket reads a packet and TRKProcessInput posts it as a request.
ReadRequest ==
  /\ isIdle' = TRUE
  /\ \E b \in Buffers :
       /\ TRKTestForPacket(b)
       /\ queue' = TRKPostEvent(queue, Event("request", b))
  /\ UNCHANGED <<pc, event, sendVars, targetVars, switchVars, irq, unanswered,
                 hostView, unreported>>

TRKGetInput ==
  /\ LoopPolls
  /\ InputPending
  /\ IF PoolEmpty THEN Undefined ELSE ReadRequest

LoopIsIdle == pc = "loop" /\ queue = <<>> /\ isIdle /\ ~InputPending

\* A stopped target: spin.
TRK_Idle_Stopped ==
  /\ LoopIsIdle
  /\ stopped
  /\ isIdle' = FALSE
  /\ UNCHANGED <<pc, queue, event, bufVars, sendVars, targetVars, switchVars,
                 hostVars>>

\* Whatever the target was, it is not stopped any more; up to the call of
\* TRKSwapAndGo.
TRKTargetContinue ==
  /\ stopped' = FALSE
  /\ pc' = "swap"

\* Idling does not look whether the target is stopped.
Bug_TRK_Idle_Continue ==
  /\ LoopIsIdle
  /\ TRKTargetContinue
  /\ UNCHANGED <<isIdle, queue, event, bufVars, sendVars, stepping,
                 switchVars, hostVars>>

\* A target that is only suspended gets the processor.
TRK_Idle_Continue ==
  /\ LoopIsIdle
  /\ ~stopped
  /\ TRKTargetContinue
  /\ UNCHANGED <<isIdle, queue, event, bufVars, sendVars, stepping,
                 switchVars, hostVars>>

ShutdownEvent ==
  /\ pc = "dispatch"
  /\ event.type = "shutdown"
  /\ used' = TRK_ReleaseBuffer({event.buf})
  /\ event' = NoEvent
  /\ pc' = "terminated"
  /\ UNCHANGED <<isIdle, queue, content, sendVars, targetVars, switchVars,
                 hostVars>>

-----------------------------------------------------------------------------
(***************************************************************************)
(* The command handlers (TRK_DispatchMessage).                             *)
(***************************************************************************)

Dispatching(cmds) ==
  /\ pc = "dispatch"
  /\ event.type = "request"
  /\ content[event.buf] \in cmds

\* The reply to a request; told is what it tells the host of the target.
TRKStandardACK(told) ==
  /\ unanswered' = Tail(unanswered)
  /\ hostView' = told
  /\ UNCHANGED <<wire, irq, unreported>>

\* Connect, ConfigTransport, CheckTargetState, the four memory and register
\* commands, and a Step with bad parameters: answered, and nothing else that
\* the main loop can see.
DoSimpleCommand ==
  /\ Dispatching({"connect", "override", "option", "access", "badStep"})
  /\ TRKStandardACK(hostView)
  /\ TRKDestructEvent({})
  /\ UNCHANGED <<isIdle, queue, content, sendVars, targetVars, switchVars>>

\* A command the dispatcher has no case for is discarded without an answer.
DispatchUnknown ==
  /\ Dispatching({"unknown"})
  /\ TRKDestructEvent({})
  /\ UNCHANGED <<isIdle, queue, content, sendVars, targetVars, switchVars,
                 hostVars>>

\* The shutdown is acknowledged and not posted.
Bug_TRKDoDisconnect ==
  /\ Dispatching({"disconnect"})
  /\ TRKStandardACK(hostView)
  /\ TRKDestructEvent({})
  /\ UNCHANGED <<isIdle, queue, content, sendVars, targetVars, switchVars>>

TRKDoDisconnect ==
  /\ Dispatching({"disconnect"})
  /\ TRKStandardACK(hostView)
  /\ queue' = TRKPostEvent(queue, Event("shutdown", NoBuffer))
  /\ TRKDestructEvent({})
  /\ UNCHANGED <<isIdle, content, sendVars, targetVars, switchVars>>

\* __TRKreset restarts the console: the nub is gone.
TRKDoReset ==
  /\ Dispatching({"reset"})
  /\ TRKStandardACK(hostView)
  /\ pc' = "reset"
  /\ UNCHANGED <<isIdle, queue, event, bufVars, sendVars, targetVars,
                 switchVars>>

\* TRKTargetContinue is called inside the handler: the request keeps its
\* buffer until the target gives the processor back.
TRKDoContinue ==
  /\ Dispatching({"continue"})
  /\ stopped
  /\ TRKStandardACK("running")
  /\ TRKTargetContinue
  /\ UNCHANGED <<isIdle, queue, event, bufVars, sendVars, stepping,
                 switchVars>>

\* Continue, or a Step with good parameters, of a target that is not stopped.
RefuseNotStopped ==
  /\ Dispatching({"continue", "step", "stepOver"})
  /\ ~stopped
  /\ TRKStandardACK(hostView)
  /\ TRKDestructEvent({})
  /\ UNCHANGED <<isIdle, queue, content, sendVars, targetVars, switchVars>>

\* The step is set up and the main loop will give the target the processor.
TRKDoStep ==
  /\ Dispatching({"step"})
  /\ stopped
  /\ TRKStandardACK("running")
  /\ stepping' = TRUE
  /\ stopped' = FALSE
  /\ TRKDestructEvent({})
  /\ UNCHANGED <<isIdle, queue, content, sendVars, switchVars>>

\* TRKTargetSingleStep and TRKTargetStepOutOfRange refuse to step over, but
\* only after the handler has acknowledged the step.
TRKDoStepOver ==
  /\ Dispatching({"stepOver"})
  /\ stopped
  /\ TRKStandardACK("running")
  /\ TRKDestructEvent({})
  /\ UNCHANGED <<isIdle, queue, content, sendVars, targetVars, switchVars>>

\* The stop is acknowledged and not carried out.
Bug_TRKDoStop ==
  /\ Dispatching({"stop"})
  /\ TRKStandardACK("stopped")
  /\ TRKDestructEvent({})
  /\ UNCHANGED <<isIdle, queue, content, sendVars, targetVars, switchVars>>

TRKDoStop ==
  /\ Dispatching({"stop"})
  /\ stopped' = TRUE
  /\ TRKStandardACK("stopped")
  /\ TRKDestructEvent({})
  /\ UNCHANGED <<isIdle, queue, content, sendVars, stepping, switchVars>>

-----------------------------------------------------------------------------
(***************************************************************************)
(* Requests of the nub to the host.                                        *)
(***************************************************************************)

\* A buffer is taken, the message is built in it, and TRK_RequestSend sends
\* it and starts waiting; inUse are the buffers in use before.
SendRequest(b, inUse) ==
  /\ b \in Buffers \ inUse
  /\ \A c \in Buffers \ inUse : b <= c
  /\ used' = inUse \cup {b}
  /\ content' = [content EXCEPT ![b] = Blank]
  /\ sendBuf' = b
  /\ owed' = owed + 1
  /\ pc' = "wait"

AtTargetStop == pc = "dispatch" /\ event.type \in {"breakpoint", "exception"}

\* The step goes on whatever the exception was.
Bug_TRKTargetCheckStep_Again ==
  /\ AtTargetStop
  /\ stepping
  /\ stopped' = FALSE
  /\ TRKDestructEvent({})
  /\ UNCHANGED <<isIdle, queue, content, sendVars, stepping, switchVars,
                 hostVars>>

\* TRKTargetCheckStep: a trace exception of a step that is not complete.
TRKTargetCheckStep_Again ==
  /\ AtTargetStop
  /\ stepping
  /\ exc.id = "trace"
  /\ stopped' = FALSE
  /\ TRKDestructEvent({})
  /\ UNCHANGED <<isIdle, queue, content, sendVars, stepping, switchVars,
                 hostVars>>

TRKDoNotifyStopped ==
  /\ \E b \in Buffers : SendRequest(b, used)
  /\ hostView' = "stopped"
  /\ unreported' = {}
  /\ UNCHANGED <<event, replyBuf, chunks, wire, irq, unanswered>>

\* TRKDoNotifyStopped finds no buffer and its error is ignored.
NotifyFails ==
  /\ TRKDestructEvent({})
  /\ UNCHANGED <<content, sendVars, hostVars>>

\* No step is active, or it is complete or aborted: the target is stopped and
\* the host is told.
TRKTargetInterrupt ==
  /\ AtTargetStop
  /\ stepping' = FALSE
  /\ stopped' = TRUE
  /\ IF PoolEmpty THEN NotifyFails ELSE TRKDoNotifyStopped
  /\ UNCHANGED <<isIdle, queue, switchVars>>

AtSupport == pc = "dispatch" /\ event.type = "support"

\* A support request with a bad command is posted again as an exception.
TRKTargetSupportRequest_Invalid ==
  /\ AtSupport
  /\ queue' = TRKPostEvent(queue, Event("exception", NoBuffer))
  /\ unreported' = unreported \cup {"badSupport"}
  /\ TRKDestructEvent({})
  /\ UNCHANGED <<isIdle, content, sendVars, targetVars, switchVars, wire,
                 irq, unanswered, hostView>>

\* A file access with nothing to transfer.
TRKTargetSupportRequest_Empty ==
  /\ AtSupport
  /\ TRKDestructEvent({})
  /\ UNCHANGED <<isIdle, queue, content, sendVars, targetVars, switchVars,
                 hostVars>>

SendFileRequest ==
  /\ \E b \in Buffers : SendRequest(b, used)
  /\ chunks' \in 1 .. MaxChunks
  /\ UNCHANGED <<isIdle, queue, event, replyBuf, targetVars, switchVars,
                 hostVars>>

\* The first message of a file request; its code ignores an empty pool too.
TRKTargetSupportRequest ==
  /\ AtSupport
  /\ IF PoolEmpty THEN Undefined ELSE SendFileRequest

\* TRK_RequestSend, waiting: a packet that is not a reply is posted as a
\* request for the main loop, and the wait goes on.
TRK_RequestSend_Cache ==
  /\ pc = "wait"
  /\ \E b \in Buffers :
       /\ TRKTestForPacket(b)
       /\ Head(wire) \notin Replies
       /\ queue' = TRKPostEvent(queue, Event("request", b))
  /\ UNCHANGED <<pc, isIdle, event, sendVars, targetVars, switchVars,
                 irq, unanswered, hostView, unreported>>

\* A reply ends the wait.
TRK_RequestSend_Reply ==
  /\ pc = "wait"
  /\ \E b \in Buffers :
       /\ TRKTestForPacket(b)
       /\ Head(wire) \in Replies
       /\ replyBuf' = b
  /\ pc' = "reply"
  /\ UNCHANGED <<isIdle, queue, event, sendBuf, chunks, owed, targetVars,
                 switchVars, irq, unanswered, hostView, unreported>>

TRK_RequestSend_PoolEmpty ==
  /\ pc = "wait"
  /\ InputPending
  /\ PoolEmpty
  /\ Undefined

\* The request is over: TRK_RequestSend or its caller releases the reply, the
\* caller the message, and the event is done.  A bad reply ends it this way
\* too, whatever the request was.
RequestDone ==
  /\ pc = "reply"
  /\ TRKDestructEvent({replyBuf, sendBuf})
  /\ sendBuf' = NoBuffer
  /\ replyBuf' = NoBuffer
  /\ chunks' = 0
  /\ UNCHANGED <<isIdle, queue, content, owed, targetVars, switchVars,
                 hostVars>>

\* One message too many.
Bug_TRK_SuppAccessFile_Next ==
  /\ pc = "reply"
  /\ content[replyBuf] = "ack"
  /\ chunks' = chunks - 1
  /\ replyBuf' = NoBuffer
  /\ \E b \in Buffers : SendRequest(b, TRK_ReleaseBuffer({replyBuf, sendBuf}))
  /\ UNCHANGED <<isIdle, queue, event, targetVars, switchVars, hostVars>>

\* TRK_SuppAccessFile goes on with the next message of a long file access.
TRK_SuppAccessFile_Next ==
  /\ pc = "reply"
  /\ content[replyBuf] = "ack"
  /\ chunks > 1
  /\ chunks' = chunks - 1
  /\ replyBuf' = NoBuffer
  /\ \E b \in Buffers : SendRequest(b, TRK_ReleaseBuffer({replyBuf, sendBuf}))
  /\ UNCHANGED <<isIdle, queue, event, targetVars, switchVars, hostVars>>

-----------------------------------------------------------------------------
(***************************************************************************)
(* The switch between the nub and the target.                              *)
(***************************************************************************)

\* With interrupts off, a last look at the input: if there is some the nub is
\* activated again at once, as by a transport interrupt.
TRKSwapAndGo_Input ==
  /\ pc = "swap"
  /\ InputPending
  /\ inputActivated' = TRUE
  /\ pc' = "post"
  /\ UNCHANGED <<isIdle, queue, event, bufVars, sendVars, targetVars, inTRK,
                 exc, hostVars>>

\* No last look at the input.
Bug_TRKSwapAndGo ==
  /\ pc = "swap"
  /\ inTRK' = FALSE
  /\ pc' = "target"
  /\ UNCHANGED <<isIdle, queue, event, bufVars, sendVars, targetVars,
                 inputActivated, exc, hostVars>>

TRKSwapAndGo ==
  /\ pc = "swap"
  /\ ~InputPending
  /\ inTRK' = FALSE
  /\ pc' = "target"
  /\ UNCHANGED <<isIdle, queue, event, bufVars, sendVars, targetVars,
                 inputActivated, exc, hostVars>>

\* TRK_InterruptHandler for the transport.  It is masked while the target is
\* stepped, because TRKTargetEnableTrace clears EE when it sets SE.
TransportInterrupt ==
  /\ irq
  /\ pc = "target"
  /\ ~stepping
  /\ InputPending
  /\ irq' = FALSE
  /\ inputActivated' = TRUE
  /\ inTRK' = TRUE
  /\ exc' = [id |-> "external", atTrap |-> FALSE]
  /\ pc' = "post"
  /\ UNCHANGED <<isIdle, queue, event, bufVars, sendVars, targetVars, wire,
                 unanswered, hostView, unreported>>

\* TRK_InterruptHandler for everything else the target raises.  A transport
\* interrupt that was masked finds nothing to do once the target has the
\* processor again: the nub reads the packet, or TRKSwapAndGo finds it.
TargetException(id, atTrap) ==
  /\ pc = "target"
  /\ id = "trace" => stepping
  /\ irq' = FALSE
  /\ inTRK' = TRUE
  /\ exc' = [id |-> id, atTrap |-> atTrap]
  /\ unreported' = IF id = "other" \/ (id = "program" /\ ~atTrap)
                   THEN unreported \cup {"fault"}
                   ELSE unreported
  /\ pc' = "post"
  /\ UNCHANGED <<isIdle, queue, event, bufVars, sendVars, targetVars,
                 inputActivated, wire, unanswered, hostView>>

InterruptEventType ==
  CASE exc.id \in {"program", "trace"} /\ exc.atTrap  -> "support"
    [] exc.id \in {"program", "trace"} /\ ~exc.atTrap -> "breakpoint"
    [] OTHER                                          -> "exception"

\* The flag is looked at and not reset.
Bug_TRKPostInterruptEvent ==
  /\ pc = "post"
  /\ queue' = IF inputActivated
              THEN queue
              ELSE TRKPostEvent(queue, Event(InterruptEventType, NoBuffer))
  /\ isIdle' = FALSE
  /\ TRKDestructEvent({})
  /\ UNCHANGED <<content, sendVars, targetVars, switchVars, hostVars>>

\* The event is posted unless input activated the nub; TRKTargetContinue
\* returns to TRK_Idle, or to TRKDoContinue and from there to the main loop,
\* which then destructs the Continue request.
TRKPostInterruptEvent ==
  /\ pc = "post"
  /\ inputActivated' = FALSE
  /\ queue' = IF inputActivated
              THEN queue
              ELSE TRKPostEvent(queue, Event(InterruptEventType, NoBuffer))
  /\ isIdle' = FALSE
  /\ TRKDestructEvent({})
  /\ UNCHANGED <<content, sendVars, targetVars, inTRK, exc, hostVars>>

-----------------------------------------------------------------------------
(***************************************************************************)
(* The host.                                                               *)
(***************************************************************************)

\* A packet arrives.  While the nub runs its interrupt is masked, and then
\* finds no input (TransportReturn, in ContextSwitch): as if none was raised.
Arrives(p) ==
  /\ wire' = Append(wire, p)
  /\ irq' = ~inTRK

HostRequest(c) ==
  /\ Len(unanswered) < MaxOutstanding
  /\ Arrives(c)
  /\ unanswered' = Append(unanswered, c)
  /\ UNCHANGED <<loopVars, bufVars, sendVars, targetVars, switchVars,
                 hostView, unreported>>

HostReply(r) ==
  /\ owed > 0
  /\ owed' = owed - 1
  /\ Arrives(r)
  /\ UNCHANGED <<loopVars, bufVars, sendBuf, replyBuf, chunks, targetVars,
                 switchVars, unanswered, hostView, unreported>>

-----------------------------------------------------------------------------
MainLoop ==
  \/ TRKGetNextEvent \/ ShutdownEvent
  \/ TRKGetInput_Empty \/ TRKGetInput
  \/ TRK_Idle_Stopped \/ TRK_Idle_Continue

Handler ==
  \/ DoSimpleCommand \/ DispatchUnknown \/ TRKDoDisconnect \/ TRKDoReset
  \/ TRKDoContinue \/ RefuseNotStopped \/ TRKDoStep \/ TRKDoStepOver
  \/ TRKDoStop

TargetEvent ==
  \/ TRKTargetCheckStep_Again \/ TRKTargetInterrupt
  \/ TRKTargetSupportRequest_Invalid \/ TRKTargetSupportRequest_Empty
  \/ TRKTargetSupportRequest

RequestSend ==
  \/ TRK_RequestSend_Cache \/ TRK_RequestSend_Reply
  \/ TRK_RequestSend_PoolEmpty \/ RequestDone \/ TRK_SuppAccessFile_Next

Switch == TRKSwapAndGo_Input \/ TRKSwapAndGo \/ TRKPostInterruptEvent

NubStep == MainLoop \/ Handler \/ TargetEvent \/ RequestSend \/ Switch

TargetRaises ==
  \E id \in {"trace", "program", "other"}, atTrap \in BOOLEAN :
    TargetException(id, atTrap)

HostStep ==
  \/ \E c \in Commands : HostRequest(c)
  \/ \E r \in Replies : HostReply(r)

Next == NubStep \/ TransportInterrupt \/ TargetRaises \/ HostStep

Spec == Init /\ [][Next]_vars

\* The nub's thread always goes on; the host answers what the nub asks; a
\* transport interrupt stays pending until it is taken; a traced target
\* executes its one instruction.
FairSpec ==
  /\ Spec
  /\ WF_vars(NubStep)
  /\ WF_vars(\E r \in Replies : HostReply(r))
  /\ WF_vars(TransportInterrupt)
  /\ WF_vars(stepping /\ TargetRaises)

-----------------------------------------------------------------------------
(***************************************************************************)
(* What must hold.                                                         *)
(***************************************************************************)

QueueBuffers == {queue[i].buf : i \in DOMAIN queue}

\* Every buffer in use is owned: by a queued event, by the event being
\* handled, by the request being sent or by its reply, and by one of them
\* only.  So none is leaked on any path through the handlers, nested as they
\* are, and none is released or overwritten under another owner.
BufferAccounting ==
  /\ used = (QueueBuffers \cup {event.buf, sendBuf, replyBuf}) \ {NoBuffer}
  /\ \A i, j \in DOMAIN queue :
       queue[i].buf = queue[j].buf /\ queue[i].buf # NoBuffer => i = j
  /\ {event.buf, sendBuf, replyBuf} \cap QueueBuffers \subseteq {NoBuffer}
  /\ event.buf \in {sendBuf, replyBuf} => event.buf = NoBuffer
  /\ sendBuf = replyBuf => sendBuf = NoBuffer

\* The pool never runs dry where the code goes on without looking at the
\* error: three buffers are enough for the request the nub sends, one message
\* that arrives meanwhile, and the reply (msgbuf.h asks for three).
PoolSuffices ==
  /\ pc # "undefined"
  /\ AtTargetStop => ~PoolEmpty

\* Where the code posts an event, without looking at the error.
Posting ==
  \/ LoopPolls /\ InputPending
  \/ pc = "wait" /\ InputPending /\ ~PoolEmpty /\ Head(wire) \notin Replies
  \/ Dispatching({"disconnect"})
  \/ AtSupport
  \/ pc = "post" /\ ~inputActivated

\* There is room for the event: no request, shutdown or exception is dropped,
\* and no request keeps its buffer for ever, although the host sends ahead,
\* requests are cached in a wait, and the queue holds two.
QueueHasRoom == Posting => Len(queue) < QueueLength

\* What the nub holds, in the order it will come to it: the request in hand
\* (only until it is answered), the events queued, the packets on the wire.
InHand ==
  IF pc = "dispatch" /\ event.type = "request"
  THEN <<content[event.buf]>>
  ELSE <<>>

Queued ==
  [i \in DOMAIN queue |->
     IF queue[i].type = "request" THEN content[queue[i].buf] ELSE Blank]

Held == InHand \o Queued \o wire

\* No request is dropped, repeated, overtaken or overwritten between the wire
\* and its handler: the requests that the nub holds are, one by one and in this
\* order, those that the host waits for an answer to.
RequestsIntact ==
  pc \notin Halted =>
    \E place \in [DOMAIN unanswered -> DOMAIN Held] :
      /\ \A i \in DOMAIN unanswered : Held[place[i]] = unanswered[i]
      /\ \A i, j \in DOMAIN unanswered : i < j => place[i] < place[j]
      /\ \A k \in DOMAIN Held :
           Held[k] \in AllCommands => \E i \in DOMAIN unanswered : place[i] = k

\* Whenever the main loop looks for work, the host knows whether the target
\* is stopped.
HostViewAgrees == pc = "loop" => (stopped <=> hostView = "stopped")

\* A target that raised an exception other than a trace exception or a support
\* call does not execute again before the host is told.
NoSilentResume == "fault" \in unreported => pc \notin {"swap", "target"}

\* The nub is activated by input for one round only: the flag never survives
\* to the next exception, which TRKPostInterruptEvent would then discard.
NoStaleActivation == inputActivated => pc = "post"

\* A stopped target is set going by a command of the host and by nothing else.
OnlyTheHostResumes ==
  [][stopped /\ ~stopped' => Dispatching({"continue", "step"})]_vars

\* The nub keeps the promise of TargetControl.
Control == INSTANCE TargetControl
             WITH view <- hostView, executing <- (pc = "target")

ControlSpec == Control!Spec

\* Every request is answered, unless the nub is reset or shut down first.
RequestAnswered ==
  unanswered # <<>> ~> (unanswered = <<>> \/ pc \in Halted)

\* Every exception of the target is reported.
FaultReported ==
  "fault" \in unreported ~> ("fault" \notin unreported \/ pc \in Halted)

\* A disconnect that is acknowledged ends the nub: its shutdown is posted,
\* whatever is queued, and carried out, whatever comes before it.
ShutdownTerminates == Dispatching({"disconnect"}) ~> pc \in Halted
=============================================================================
