# Verification of the MetroTRK debug nub

This directory specifies the MetroTRK debug monitor in `src/metrotrk`, the
"nub": a small program that shares a PowerPC processor (GameCube/Wii) with the
program being debugged, the *target*, and talks to a debugger on another
machine, the *host*.  The specifications are TLA+; TLC checks them on small
instances and TLAPS proves the main ones for every value of the constants.

All statements are about the configuration the repository builds:
`TRK_PACKET_IO`, `TRK_TRANSPORT_INT_DRIVEN`, `SUPPRESS_WELCOME_MESSAGE`, no
`VIRTUAL_DISPATCH`, `DEBUG_ASSERT` off, the gdev connection,
`QUEUE_LENGTH` and `TRK_EXTRA_BUFFER_COUNT` at their defaults (a queue of 2
events, 3 message buffers).

## 1. The system

| Component | Source | State | Operations |
|---|---|---|---|
| Main loop | `mainloop.c`, `main_TRK.c` | the locals `isShutdownRequested`, `isIdle`, `event` | `TRK_NubMainLoop`: take an event, else poll the input, else idle; `TRK_Idle` lets a target that is not stopped continue |
| Event queue | `nubevent.c` | `gTRKEventQueue`: a ring of 2 events, count, first, next event id | post, get, construct, destruct |
| Message buffers | `msgbuf.c` | `gTRKMsgBufs`: 3 buffers with `fInUse`, length, position, data | get free, release, set position, append and read values |
| Packet input | `serpoll.c` | `gTRKFramingState`, `gTRKInputPendingPtr` | `TRKTestForPacket` reads a packet into a buffer, `TRKGetInput` posts it |
| Command dispatch | `dispatch.c`, `msghndlr.c` | none of their own | a handler for each command of the host: connect, disconnect, reset, memory, registers, continue, step, stop, options |
| Notification | `notify.c` | none | tells the host that the target stopped |
| Support requests | `support.c` | none | file access for the target, in messages of 2 KB; `TRK_RequestSend` sends a request and waits for its reply |
| Target control | `targimpl.c`, `targcont.c` | `gTRKState` (`stopped`, `inputActivated`), `gTRKStepStatus`, `gTRKExceptionStatus`, saved registers | swap to the target and back, interrupt handlers, stop, continue, step, memory and register access |
| Transport | `dolphin_trk_glue.c`, `custconn/cc_gdev.c`, `custconn/CircleBuffer.c` | a circle buffer of 1280 bytes, the input flag | peek, read, write, interrupt |
| Initialisation | `nubinit.c`, `dolphin_trk.c`, `target_options.c` | | puts everything in the state the main loop starts from |
| Support in the target | `mslsupp.c`, `targsupp.s` | `bUseSerialIO` (of `target_options.c`) | turns console and file calls of the program into support traps |
| Vectors and low level | `__exception.s`, `src/GCC` | the scratch registers SPRG1 to SPRG3, the code at the vectors | save what the handlers need, and hand the processor over |
| Primitives | `mem_TRK.c`, `string_TRK.c`, `usr_put.c`, `nubassrt.c`, `mpc_7xx_603e.c`, `flush_cache.c`, `src/GCC` | | memory, strings, debug output, special registers, cache |

**How they interact.**  The host's packets arrive on a wire.  The nub is one
thread: its main loop reads a packet into a *message buffer*, posts an *event*
that owns the buffer, takes the event from the queue, and dispatches it to a
handler, which replies in the same buffer; the main loop then destructs the
event and with it the buffer.  When the queue is empty, there is no input, and
the target is not stopped, the nub restores the target's registers and gives it
the processor (`TRKSwapAndGo`).  An exception of the target, or the interrupt
of the transport, gives it back (`TRK_InterruptHandler`), and
`TRKPostInterruptEvent` posts an event for what happened.  Some events make the
nub itself the requester: it takes a second buffer, sends a stop notification
or a file request, and polls for the reply (`TRK_RequestSend`); a *request* of
the host that arrives meanwhile is put in the queue for later.

**What is hard.**

* Two conversations share the wire, the buffers and the queue: a request of
  the host can arrive before, between, or after the messages of a request of
  the nub, so up to three buffers are in use; the code ignores most of the
  errors that would tell it that there is none, or that the queue is full.
* The processor changes hands between the nub and the target at interrupts:
  input can arrive just before the target runs, or while its interrupts are
  masked by a single step.
* What the target did is kept in three places (the saved exception id, the
  event, the step status) and read some events later.
* A reply goes out before what it promises is done.
* The code at the vectors runs with a few scratch registers in the middle of
  either program, and the nub itself may fault.
* The host may leave and come again while a program of the target is in the
  middle of a library call.
* Nothing is retried: a lost or bad reply, a dropped event or a skipped
  notification leaves host and nub with different ideas of the target.

The list of these, at their lines, is `hazards` in `PROJECT.json`.

**What makes each component correct.**

* Event queue: first in first out, nothing dropped, an event handled once.
* Message buffers: every buffer in use has exactly one owner; none is leaked;
  the pool suffices wherever its exhaustion is not handled.
* Dispatch: every request is answered once, in order.
* Target control and notification: the host knows whether the target is
  stopped; the target executes only when the host let it; a fault is reported
  before the target executes again; no exception is taken for another.
* Transport: bytes come out as they went in; a waiting packet is noticed; an
  answer is not torn.
* Vectors: each program gets back the registers it had.
* Support in the target: the program is told what happened, and nobody is asked
  who is not there.

## 2. The plan

Modules in order, the most important behaviour first.  All of these are done:

1. **TrkNub** with **TargetControl** as its abstraction, **TrkNubInv** and the
   proofs: main loop, queue, buffers, handlers, nub requests, the switch.
2. **EventQueue** and **CircleBuffer**: the two rings, both as implementations
   of **BoundedFifo**, with proofs for every length.
3. **StepControl**: step counts and ranges, the trace bit, stop and continue in
   the middle of a step, traps reached by a step, with proofs.
4. **Transport**: `gdev_cc_peek`, `gdev_cc_read`, `gdev_cc_write`, `gdev_cc_initialize`
   and `TRKTestForPacket` over the ring of CircleBuffer, with **TransportInv** and proofs.
5. **TargetAccess**: the memory commands, the stop notification and the file calls
   of the target, lengths, counts, io results and the instruction cache, including
   what is read where there is no reply, with proofs.
6. **RegisterAccess**: the register commands and `TRKTargetAccess*`, what is saved and
   restored, the restore flag, packets that are too short, exceptions in the
   nub's own accesses, with proofs.
7. **ContextSwitch**: the code at the vectors and both directions of the switch,
   register by register, with proofs.
8. **MessageBuffer**: positions, lengths, reads and appends of `msgbuf.c` and the
   numbers of `msg.c`, as an implementation of **MessageStream**, with proofs.
9. **MslSupport**: the library calls of the target's program over TargetAccess, with proofs.

Planned once and dropped: the splitting of a range at the borders of a memory map
(`ValidMemory32`).  The map of every board in `src` has one range that may be read
and written, so its recursion is never taken and one comparison of addresses is left,
which TargetAccess has.

Worth doing next: TargetAccess as an implementation of a file access in one message; the
second start of the nub in TrkNub.

How the modules compose: TrkNub uses the event queue as a sequence, which
EventQueue implements; Transport extends CircleBuffer and moves the packets through
its real ring; StepControl decides what TrkNub leaves open (whether a trace exception
ends a step); TargetAccess fills in the data of the messages whose buffers TrkNub follows,
MessageBuffer how they are put into a buffer; MslSupport extends TargetAccess by the program
above the calls; RegisterAccess and ContextSwitch have the registers behind TrkNub's two
sides of the switch, the one what the host reads and writes, the other how they are moved.

## 3. TrkNub

### State

| Variable | In the code |
|---|---|
| `pc` | where the thread is: `loop` (top of `TRK_NubMainLoop`), `dispatch` (a handler was chosen), `wait` and `reply` (in `TRK_RequestSend`: polling; a reply was read), `swap` (about to enter `TRKSwapAndGo`), `target` (the target executes), `post` (about to enter `TRKPostInterruptEvent`), `reset`, `terminated`, `undefined` |
| `isIdle`, `event` | the locals of `TRK_NubMainLoop` |
| `queue` | `gTRKEventQueue`, as the sequence of its events |
| `used`, `content` | `fInUse` and the data of each `gTRKMsgBufs` element; of the data, only which command or reply it is |
| `sendBuf`, `replyBuf`, `chunks` | the locals of `TRKDoNotifyStopped` and `TRK_SuppAccessFile`: message, reply, and messages still to go |
| `stopped`, `stepping`, `inTRK`, `inputActivated` | `gTRKState.stopped`, `gTRKStepStatus.active`, `gTRKExceptionStatus.inTRK`, `gTRKState.inputActivated` |
| `exc` | the saved exception id, and whether the instruction at the PC is `SUPPORT_TRAP` |
| `wire`, `irq` | packets not yet read; the transport interrupt is pending |
| `owed` | requests of the nub that the host has not answered |
| `unanswered`, `hostView`, `unreported` | history: the host's requests without an answer, what the host was last told, what the target did that the host was not told |

### Actions

An action is the code between two points at which the host, the target or an
interrupt can act; `map` in `PROJECT.json` names the lines of each.  The handlers
are one action each, because the nub handles input only in the main loop and in
`TRK_RequestSend`, and interrupts are off in it: `InitMetroTRK` clears EE
(`dolphin_trk.c:104`), and what the nub restores is that MSR.  `TRKDoContinue` calls `TRKTargetContinue` inside the handler: its event,
and the buffer, live through `swap`, `target` and `post`, and the main loop
destructs them afterwards.

* Main loop: `TRKGetNextEvent`, `TRKGetInput`, `TRKGetInput_Empty`,
  `TRK_Idle_Stopped`, `TRK_Idle_Continue`, `ShutdownEvent`.
* Handlers: `DoSimpleCommand` (the commands that only answer), `DispatchUnknown`,
  `TRKDoDisconnect`, `TRKDoReset`, `TRKDoContinue`, `TRKDoStep`, `TRKDoStepOver`,
  `RefuseNotStopped`, `TRKDoStop`.
* Events of the target: `TRKTargetCheckStep_Again`, `TRKTargetInterrupt`,
  `TRKTargetSupportRequest` and its two variants.
* Requests of the nub: `TRK_RequestSend_Cache`, `_Reply`, `_PoolEmpty`,
  `TRK_SuppAccessFile_Next`, `RequestDone`.
* Switch: `TRKSwapAndGo_Input`, `TRKSwapAndGo`, `TransportInterrupt`,
  `TargetException`, `TRKPostInterruptEvent`.
* Environment: `HostRequest`, `HostReply`.

`Undefined` stands for the one place where the code goes on with a NULL buffer
(`serpoll.c:425`, the pool is empty): nothing is said of the nub after it.

What is abstracted: message contents beyond the command, error codes in
replies, memory (TargetAccess) and registers (RegisterAccess) of the target, step counts (a trace
exception may or may not complete the step: StepControl), the bytes of packets
(Transport).  The host sends
each command at any time, in any order.  The target may raise any exception
at any time while it executes.  After a bad reply the code of
`TRK_SuppAccessFile` reads a reply that is not there; that affects the counts
reported to the target only, which TargetAccess has.

`TargetControl` says what the host is promised, with no nub in it: it is
*told* of each resume and each stop, and the target executes only between them.

### Properties

| Property | What it says |
|---|---|
| `BufferAccounting` | the buffers in use are exactly those of the queued events, the event in hand, the nub's request and its reply, and no two of these share one |
| `PoolSuffices` | no path reaches a NULL buffer, and the notification always finds one |
| `QueueHasRoom` | the queue has room wherever the code posts an event and ignores the error, also for a host that sends ahead |
| `RequestsIntact` | what is in hand, queued and on the wire is, in order, what the host waits for |
| `HostViewAgrees` | at the top of the loop the host knows whether the target is stopped |
| `NoSilentResume` | after a fault the target does not execute before the host is told |
| `ControlSpec` | the nub implements TargetControl |
| `RequestAnswered` | every request is answered, unless the nub is reset or shut down first |
| `FaultReported` | every fault of the target is reported |
| `ShutdownTerminates` | a disconnect that the nub acknowledges ends it: its shutdown is posted and carried out |

Three more are proved and not repeated in a run: `NoStaleActivation` (the input flag
never reaches the next exception), `OnlyTheHostResumes` (a stopped target is set going
by Continue and Step only), and the inductive invariant `IInv` (section 7).

## 4. The other modules

### BoundedFifo, CircleBuffer, EventQueue

BoundedFifo is a queue of at most `Capacity` items with two calls, `Put` of a
sequence and `Get` of a number of items, each either carried out whole or refused
without effect; `answer` is what the last call returned.

CircleBuffer has the six words of the structure in `CircleBuffer.c` (`memory`,
`readPos`, `writePos`, `forRead`, `forWrite`; positions are offsets from the
start) and one action per function, with the two `memcpy` of a block that passes
the end of the memory.  Note the asymmetry of the code: a write that just fits
is one copy (`size >= length`), a read that just fits is two, the second of no bytes
(`length < size`), and both end in the reset of the position.  The critical
section masks interrupts and nobody else uses the buffer, so a call is one step.
EventQueue has the fields of `gTRKEventQueue`.  `EventIdLimit` stands for 2^32,
`kTRKFirstEventID` for 0x100.

| Property | What it says |
|---|---|
| `FifoSpec` | the ring implements BoundedFifo: checked for events in `event_queue`, for bytes in `transport`, where the ring is used |

That two queued events never have the same id, across the wrap of the counter (`EventIdsDiffer`), is
proved and not repeated in a run.  `RingInv`, the inductive invariant of the proofs, says that positions, counts and (for
events) ids agree.

### StepControl

State: the target's program `code` (what each instruction is: plain, a trap, a
support call, an invalid one), `PC`, the bits SE and EE of its MSR, the saved
exception id, `stopped`, `gTRKStepStatus`, and which event of the target is queued.
Actions: `TRKDoStep` by count and by range, `TRKDoContinue`, `TRKDoStop`, a write of
the PC, `TRK_Idle`; what the main loop does with the events
(`TRKTargetInterrupt`, `_Again` where `TRKTargetCheckStep` goes on, and the support
calls); the target's execution of one instruction, to any next address, its faults,
and the transport interrupt.  Requests that are refused change nothing here and have
no action; the host does not write the MSR of the target.

| Property | What it says |
|---|---|
| `TracedWhileStepping` | SE is set exactly while a step is active, and EE is then clear |
| `StepIsExact` | a counted step is reported after as many instructions as asked for |
| `RangeIsExact` | a step out of a range executes nothing outside it |
| `StepEnds` | a counted step ends, if no support call is serviced on the way |
| `BadSupportIsReported` | an invalid support call is reported, although a step may first take its exception for one more trace |

### Transport

State: the blocks the driver holds, the ring of CircleBuffer, where the nub
is in `TRKTestForPacket` or in its answer, the message buffer, and what of the answer is
not written yet.  The host sends a packet in blocks: the first has the whole
header, alone or with any part of the body, and the body is cut anywhere.  `gdev_cc_peek` takes
the first block into the ring; `gdev_cc_read_Fetch` is one round of the loop of
`gdev_cc_read`: it asks the driver how much there is, reads as many bytes as the caller
wants, and puts into the ring as many as there were, the missing ones being whatever is
on the stack (`Stale`).  `TRKTestForPacket_Header` and `_Body` are the two reads and their
`MessageAddBlock`, which takes what fits.  `TRK_MessageSend` hands the answer, a header,
to `gdev_cc_write`, of which one round gives the driver the rest and has as many bytes
taken as the driver likes; when it takes none, the loop ends without an error
(`gdev_cc_write_Refused`).  Between packets the nub may start again after a disconnect,
which empties the ring (`gdev_cc_initialize`) and not the driver.

| Property | What it says |
|---|---|
| `PacketsIntact` | what is in a message buffer is the packet as it was sent |
| `NothingIsLeftBehind` | the ring is empty whenever the nub looks for a packet: what stayed there would be taken for a header |
| `AnswersIntact` | an answer reaches the host in order, no byte twice, and whole, unless the driver refused the rest |
| `FifoSpec` | the ring, as it is used here and restarted, implements BoundedFifo |
| `PacketsAreReceived` | every packet the host sends is received |

What the library does is external: a block is at most as long as the ring,
because `gdev_cc_peek` reads whole blocks into a buffer of that size on its stack;
a block belongs to one packet, because the host waits for the reply; the header, 64
bytes, comes in one block; a read of the driver that fails changes nothing.  The second and the third
are assumptions: no line of `src` says how the driver cuts.  A header cut in two before a longer
block would be split wrongly, because `gdev_cc_read` reads from the driver what its caller wants and puts
into the ring what the driver had (`cc_gdev.c:204`); no run has such a header.

### TargetAccess

State: the target's memory, where each byte is known by its origin (the target
itself, the host, byte i of the file, the nub's stack); the bytes the nub wrote
that the instruction cache does not know; and the file call under way, with the
locals of `TRK_SuppAccessFile`.  Actions: read and write memory, with the fault that
the nub catches in its own access; the call of the target, each reply of the
host to a message of it (any io result, any count, and for reads one more than
was asked for), and each message that gets no good reply, after which the code
reads the length and result through a pointer it did not set: any values
(`TRK_SuppAccessFile_NoReply`).  `TRKTargetAddStopInfo` is the part of the stop notification
that reads memory: the instruction at the PC (`TRKTargetReadInstruction`) and a block
around it (`StopInfoBytes`).  Nobody looks at the error of either; a byte that faults
is told as what was in a register of the nub (`Fetched`).  A reply holds as many bytes as it says.  A file
call of 0 bytes or at NULL returns an uninitialised io result: any of the three.

| Property | What it says |
|---|---|
| `TransferIsExact` | a call reported as successful moved exactly the bytes it says, whatever the lengths of the messages |
| `FailureIsReported` | a call with a message that got no good reply is not reported as successful, whatever was read instead |
| `OnlyTheBufferChanges` | nothing outside a read's buffer changes |
| `NothingStaleIsExecuted` | the target never executes old copies of bytes the nub wrote |
| `AcknowledgedMeansDone` | a memory command acknowledged without error did all of what it says; a stop notification tells the truth of every byte that does not fault |

`AcknowledgedMeansDone` leaves out reads of data space at addresses that are not
multiples of the cache line: `msghndlr.c:914` answers them from a place in the buffer
that the data were not put at.  Nothing in the repository says which of the two
was meant.

### RegisterAccess

The nub keeps the target's registers in two ways.  The default and the extended 1
block are in `gTRKCPUState` from `TRK_InterruptHandler` to `TRKSwapAndGo`, and the host reads and
writes them there; the floating point registers (and the paired singles, which
contain them) stay in the processor, and the host's commands access them one by one.
To access paired singles, the nub changes two registers, GQR0 and HID2, in the processor.

| Variable | In the code |
|---|---|
| `cpu` | the registers in the processor, less those that the nub's code uses, SPRG1 to SPRG3 among them |
| `state` | `gTRKCPUState`, the default and extended 1 blocks |
| `restore` | `gTRKRestoreFlags.TBR` |
| `at` | whether the nub or the target has the processor |
| `told` | history: of each register, whether the host knows that its own value is there, or the target's, or cannot know |
| `reply` | history: the last reply, and the values in it |

A value is not a number but where it came from: the target, the host, the nub's
own use, the stack behind a short packet, or the state of an earlier stop; with the
register it is meant for, so that a value in the wrong register is seen.

Actions: `TRK_InterruptHandler` and `TRKSwapAndGo` (save and restore), `TRKDoReadRegisters`,
and `TRKDoWriteRegisters` with the four `TRKTargetAccess*` under it, for every range, every block
and one that does not exist, every length of packet up to what the range takes, and an
exception in any of the accesses (`TRKExceptionHandler`: the instruction is skipped, so a
register that is written keeps its value).  `TRKTargetAddStopInfo` tells the default block with each stop.
`TRKPPCAccessSPR` is the access to one register, of which those to the paired singles are
built.  `TRKTestForPacket` gives the length of the buffer as
the code computes it, with the header counted twice.  The DEC flag is set by the code and
read by nothing that is compiled, and has no variable.

| Property | What it says |
|---|---|
| `TheHostReads` | in a reply without error, and in a stop notification, each register has the host's value, if the host wrote it and was told so, else the target's |
| `TheTargetGoesOnWith` | so does the target when it goes on, and GQR0, HID2 and the time base are its own again unless the host wrote them |

Both leave out registers of which the host cannot know what it wrote: those of a
write that was refused, and of one with a packet too short for its range.  Those can
hold what lay behind the packet (`serpoll.c:445`), or, for floating point, whatever the
local variable held, and then are even acknowledged (`targimpl.c:1125`).
`TheTargetGoesOnWith` also leaves out what the host writes to a register that
`TRKRestoreExtended1Block` does not restore (`Restored`): there it says that the target keeps its
own value.  In the code `Restored` is, by position in the block, 0 to 15 (SR), 18 to 37
(HID0 to DBAT3L), 45 to 48 (SDR1 to SPRG0), 53 to 62, 66, 67, 85 to 93, 95 and 96; the time base is 16 and
17, DEC 52.  `InitMetroTRK` does not save CTR and XER, which a function call need not keep;
they are taken for saved.
SPRG1 to SPRG3 (49 to 51) are saved and restored, too, and are left out: by the time they are
saved, the code at the vectors has put there what ContextSwitch has in its scratch registers, the
target's r2, r3 and CR, so that they are not what the target had in them.

### ContextSwitch

State: the registers of the processor, `gTRKCPUState`, the nub's registers in
`gTRKState`, the flags `inTRK`, `exceptionDetected` and `inputActivated`, and which vectors have the
nub's code.  A value is known by the program that it belongs to and by the register it
was in; `r5` to `r12` and `r13` to `r30` stand for one register each, because the code treats
them alike.  `lost` is history: registers of which the code itself gives up the
value, so that nobody can count on them.

Actions: `InitMetroTRK` (the target calls it), `TRKInitializeTarget`, `TRKDoOverride` (the host takes
any set of vectors but that of the external interrupt); an exception of either program
at a vector that has the nub's code (`ExHandler`), the interrupt of the transport by way
of the operating system (`TRKLoadContext`), the common part of `TRK_InterruptHandler`, and then its
ways out: back to the target (`TransportReturn`), into the nub by input
(`ActivateByInput`) or by an event (`NonTransportInterrupt`), or on with the nub, which was
interrupted itself (`TRKExceptionHandler`); `TRKPostInterruptEvent`; and `TRKSwapAndGo`, which
gives the target the processor or, if input is there, enters the nub again.

| Property | What it says |
|---|---|
| `TheTargetGoesOn` | the target goes on with every register that it can count on |
| `TheTargetIsKept` | what was saved of it stays as it is through faults of the nub and entries by input |
| `TheNubGoesOn` | the nub gets back its own registers, from the target and after a fault of its own |
| `TheHandlerHasTheMSR` | the handlers run with the nub's address translation, from the first exception on |
| `AFaultIsSeen` | a fault of the nub is noted as what and where it was; it is skipped just if it would come again |
| `AStopIsPosted` | the nub gets an event just if the target had an exception |

What a register of `lost` is: CTR and XER across `InitMetroTRK`, which is a function
call; r5 to r12 where the operating system did not keep them; and CR, r2 and r3 after
`TransportReturn`, which takes them from `gTRKSaveState` "restore cr, r2 and r3"
(`targimpl.c:1599`), a structure that nothing in `src` writes.

Comments in `targimpl.c` (1685, 2064) speak of interrupts that are enabled once the MSR of the nub is
restored.  That MSR is the one of the nub when it was left, and `InitMetroTRK` has cleared EE in it
(`dolphin_trk.c:104`) for good: an interrupt of the transport comes from the target only, and
`TransportReturn` is never taken because the nub is active.  `InitMetroTRK_BBA`, for the ddh connection,
leaves EE on (`dolphin_trk.c:168`); it is not modelled.

### MessageStream, MessageBuffer

MessageStream is a stream of at most `Size` bytes with a cursor: bytes are put at its
end, what does not fit is dropped and told, bytes are taken from the cursor on, and the
whole is sent with a number.

MessageBuffer has the fields of a `MessageBuffer` with an action for each operation of
`msgbuf.c`: reset, set the position, append and read a block (`TRK_AppendBuffer`,
`TRK_ReadBuffer`) or an array of values of any width (`TRKAppendBuffer`, `TRKReadBuffer`, which go on
value by value up to the first error), and `TRK_MessageSend` of `msg.c`.  A value is
the sequence of its bytes, an array the bytes of its elements as they lie in memory, of which
`Element` is one; the loops over arrays are recursive functions (`AppendEach`, `ReadEach`).
The single byte has its way of its own, as in the code.
What was in the buffer before is `Stale`.  Callers append at the end only, and set the
position to 0 or behind the header: no code in `src` does anything else.

| Property | What it says |
|---|---|
| `TypeOK` | nothing is put or taken beyond the data, and no byte of an earlier message is read or sent |
| `StreamSpec` | the buffer implements MessageStream, whatever the widths |

### MslSupport

TargetAccess with the program above it.  State: whether a host is connected, whether the
target is stopped, the option `bUseSerialIO`, and the library function under way.  A
function looks whether there is a host (`Begin`), traps (`Trap`), and makes of r3 an error of
the library (`Return`); between these, interrupts come, and the host stops the target,
leaves (`TRKDoDisconnect`) and comes again.  `MslInit_Alone` is a program that no host
debugs and that uses the library all the same.

| Property | What it says |
|---|---|
| `RequestsHaveAHost` | the nub sends a request only when a host is there, although the function looked long before |
| `TheProgramIsTold` | success is told only for what the host did: the count is that of the bytes moved, the handle or place is the host's |

Why `RequestsHaveAHost` holds: a disconnect restarts the nub, and `TRKInitializeTarget`
stops the target, which goes on only when the next host has connected and continues it.

## 5. Runs

| Run | Instance | Shows |
|---|---|---|
| `nub_sync` | 3 buffers, queue of 2, one command of each supported kind, one request at a time, file accesses of up to 2 messages, `FairSpec` | the safety properties of TrkNub, the refinement of TargetControl and three liveness properties |
| `nub_pipelined` | two requests at a time, unsupported commands too | `BufferAccounting` and `QueueHasRoom` without the assumption that the host waits; until the pool is exhausted, which such a host can cause (proved for any number of requests, section 7) |
| `event_queue` | a ring of 3, four ids | the event ring is a queue |
| `step_control` | every program of 3 instructions of 4 kinds, counts to 2, all ranges, `FairSpec` | steps |
| `transport` | a ring of 4, header of 2, packets of 2, 4 and 6 in blocks of any size, answers in pieces of any size; 11 313 states | reception and answers, with a nub that starts again; the byte ring is a queue |
| `target_access` | module MslSupport: 5 addresses of which one faults, messages of 2 bytes, calls and commands of up to 3, a host that comes and goes; 697 140 states | memory, file calls, stop notifications, and the library above them |
| `register_access` | one register of each block but the extended 1, which has four: the time base, DEC, and one that stands for GQR0, HID2 and what is restored; packets of up to 4 words in a buffer of 5; 68 951 states | registers |
| `context_switch` | five exceptions, two of them skipped, one the external interrupt | the switch, register by register |
| `message_buffer` | a buffer of 5, header of 2, values of one and two bytes, arrays of up to 2, numbers to 3; 41 948 states | the buffer is a stream |
| `nub_unknown` | | **violated** `RequestAnswered`: see findings |
| `nub_stepover` | | **violated** `HostViewAgrees` |
| `transport_large` | | **violated** `PacketsAreReceived` |

**Bounds.**  In TrkNub the buffers and the queue are at their real sizes.
`MaxOutstanding = 1` is the protocol's: `nubinit.c` says the host is synchronous
and sends no request before the reply to the last one.  One file access of 2
messages shows the loop of `TRK_SuppAccessFile` going round and ending; a
longer one repeats it.  Nothing else is bounded: queue, wire and counters are
bounded by the properties of the system.

The rings are small enough that every position, split and refusal occurs; the
proofs say the rest.  In StepControl `MaxCount` is 255 in the code; 2 shows a
step going on and ending, and three addresses give a range with something before
and behind it.  In Transport the sizes keep the order of the real ones (header 64,
ring 1280, data up to 2048, buffer 2176), with a packet that fills the ring, one whose data fill
it and, in `transport_large`, one whose data do not fit; `MaxUnread` bounds the
blocks in the driver, three being a whole packet and more.  In TargetAccess 3 bytes in
messages of 2 give a first, a last and a shorter message; a call at the highest
mapped address, a range that wraps and one that meets the fault all occur.  In MslSupport
the host's memory commands, its options and the stop notifications come only between library
functions: in the middle of one the memory is the subject of TargetAccess, where they are
in any order with the messages, and a function looks at the option once.  The notification's block of
memory is the whole one of the model (`StopInfoBytes` 5, 1024 in the code); the instruction is
one byte, any of them, the unmapped one included.

In ContextSwitch the exceptions stand for the three ways the code tells them apart:
external, skipped, and others; the proofs are for any set.  In MessageBuffer an array of two
two-byte values is one byte shorter than the buffer and a header with it does not fit, so that values
end before, at and beyond the end; `MaxNumber` stands for 65535, and 3 wraps.

In RegisterAccess the ranges over the extended 1 block cover any part of it, the time base
whole or by halves; a packet can end in a range, at its end, and so that the second header
counted makes up for what is missing or does not.  The real blocks have 37, 34, 97
and 32 registers, of which the reply to a read takes 1128 bytes (`msghndlr.c:1254`); the proofs are
for blocks and packets of any size.

`CHECK_DEADLOCK` is off in TrkNub because the nub really stops, at a reset or a
shutdown, and in Transport because the host may have nothing more to send.

**Fairness.**  TrkNub: `WF(NubStep)`: the nub is the only thread and polls.
`WF(HostReply)`: the host answers what the nub asks; `TRK_RequestSend` has no
time-out, so without it the nub waits for ever (section 6).  `WF(TransportInterrupt)`: a
pending interrupt is taken once it is unmasked.  `WF(stepping /\ TargetRaises)`:
a traced target executes one instruction and traps.  A target that is not
traced need not raise anything, and the host need not send anything.
StepControl: the nub polls, and a traced target executes or faults.  Transport:
the nub polls, and a host that began a packet sends the rest of it.  That the driver takes
anything is not assumed: when it does not, `gdev_cc_write` ends.  The other modules have
safety properties only.

**Why three buffers.**  A request of the host waiting in the queue, the nub's
own request, and the reply to it.  The pool protects the queue, too: with three
buffers the second slot of the queue always stays free for the event that a
handler posts.  With more buffers (`TRK_EXTRA_BUFFER_COUNT`) the proofs hold
as they do for three, because the host is synchronous.

## 6. Findings

* `nub_unknown`: `dispatch.c:60` says that unsupported commands are answered with
  an error; the default case of `TRK_DispatchMessage` sends nothing.
* `nub_stepover`: a Step that steps over is acknowledged without error, and then
  refused by `TRKTargetSingleStep`; the target stays stopped and the host is not
  told.
* `transport_large`: `msgcmd.h:877` allows 2 KB of data in a message, and the
  message buffers hold it; `gdev_cc_read` waits until all of it is in a circle
  buffer of 1280 bytes.

Seven more places where a comment and the code differ are modelled as the code is, and no
run is spent on them.  For six of them the comment is given as a formula: TLC finds it violated as a
property of the module named, with the constants of that module's run.

* `support.c:403` promises that a request is sent again after a time-out until the
  retries are exhausted (`support.c:358`, `notify.c:41`).  Both are compiled out: a lost notification, or
  a lost reply to it, hangs the nub with the target stopped.  In TrkNub
  `pc = "wait" ~> pc # "wait"` fails under `FairSpec` without `WF_vars(\E r \in Replies : HostReply(r))`.
* `targimpl.c:2519` promises a single step through `count` instructions.  A
  trace exception in front of a support trap is taken for the support call
  (`targimpl.c:1889`); `TRKTargetCheckStep` is not called, and a step whose count is used up
  goes on, in a loop around support calls for ever.  `StepEnds` leaves such steps out.  In StepControl
  `Counting => left >= 0` fails.
* `targimpl.c:1599` says that CR, r2 and r3 are restored, from a structure that is
  written nowhere; see ContextSwitch.  There
  `[][at = "transport" /\ at' = "target" => cpu'["r3"] = Target("r3")]_vars` fails.
* `msghndlr.c:1520` says that a packet with too few data is an underflow, which is told to the
  host.  The length of a buffer has the header twice (`serpoll.c:445`), and the error of a floating
  point register is overwritten (`targimpl.c:1125`): such a write may be acknowledged, and a
  register gets what lay behind the packet.  In RegisterAccess
  `[][reply'.status = "kDSReplyNoError" => \A r \in Regs : cpu'[r] = <<"stack", r>> => cpu[r] = cpu'[r]]_vars` fails.
* `mpc_7xx_603e.c:373` says that DEC is restored by its flag, and that code is compiled
  out.  In RegisterAccess
  `[][at = "nub" /\ at' = "target" => \A r \in Timers : told[r] = "host" => cpu'[r] = Host(r)]_vars` fails.
* `memmap.h:82` allows all memory accesses "except writes to TRK memory".  The ranges
  of `gTRKMemMap` for the code, the data and the stack of the nub are compiled out (`memmap.h:105`), and
  the one that is left allows writes to all of memory.  In TargetAccess
  `[][at = "nub" => memory'[1] = memory[1]]_vars`, for 1 as an address of the nub's, fails.
* `support.c:321` says that a write of which the host took another length than asked
  for is given `kDSIOError`, and the code reports the result of the reply.

## 7. Proofs

Eight modules hold the theorems, one for each component: `TrkNub_proofs`,
`EventQueue_proofs`, `StepControl_proofs`, `Transport_proofs` (with CircleBuffer),
`TargetAccess_proofs` (with MslSupport), `RegisterAccess_proofs`, `ContextSwitch_proofs` and
`MessageBuffer_proofs`.

**TrkNub.**  `TrkNubInv` states the inductive invariant `IInv`, `TrkNub_proofs` shows that every
action keeps it and derives the properties.  Assumed of the constants: `ConstantsAssumption` of TrkNub
and `QueueSuffices`, which says that the host waits for each answer, or that the queue holds two events
and the pool no more than three buffers (the values of the code).  The set of commands, the
length of file accesses and the number of requests the host sends ahead are arbitrary.

The second half of `QueueSuffices` is a condition on two numbers that the code sets in two
places, and that `target.h` may raise one by one: `NUBQUEUELENGTH` in `nubevent.c` (with
`TRK_EXTRA_EVENT_COUNT`) and `kMessageBufferCount` in `msgbuf.h` (with `TRK_EXTRA_BUFFER_COUNT`).
`TRK_RequestSend` posts what
arrives while it waits and ignores the error of a full queue.  With three buffers, one of them in the
request of the nub, the pool runs dry before the queue of two is full.  With a fourth buffer, or a queue of one, a
request would be dropped with its buffer never released: TLC finds `BufferAccounting` violated as soon as
`MCTrkNub_pipelined.cfg` has four buffers, or a queue of one, and three requests ahead.

No property is inductive by itself.  Whether the queue has room depends on how many requests
are in it, that on how many buffers are in use, and both on which packets can be on the wire.  `IInv` has three
parts.

* `NubInv`: `QueueInv` says how many events are queued, and in which places of the nub;
  `BufferInv` who owns the buffers in use, `SendInv` where the request of the nub is; `TargetInv`
  that the target is not stopped wherever it could be about to run or has just run, and `FaultInv`
  that an unreported fault is on its way to `TRKTargetInterrupt`.
* `RequestInv`: the requests in `Held`, which is what the nub holds in hand, in the queue and on
  the wire, in this order, are those not yet answered, one by one and in their order
  (`Matched`).  A command the dispatcher has no case for is discarded without an answer, as the run
  `nub_unknown` shows; if the host sends such, it waits for more than the nub holds, and
  `Matched` says only that the requests held have different places among those waited for.
* `ReplyInv`: a reply on the wire is the only one, and the nub is waiting for it.

`NubInv` is kept by one lemma for each action.  `TwoFill` is the counting argument: with two requests in the
queue and the nub's own under way the pool is empty, or the host does not wait; from it also `RoomInQueue`, that what arrives in a wait can be posted.  For `RequestInv` each step
is one of a few on the sequence `Held`: something that is no request is inserted or removed
(`SomethingAdded`, `SomethingRemoved`), a request is added at the end (`RequestAdded`), the first is
answered (`FirstAnswered`) or discarded (`RequestDiscarded`), or nothing moves: a request that is
read moves from the wire into the queue and stays where it is in `Held` (`RequestMoves`).

Proved from it: `TypeOK`, `BufferAccounting`, `QueueHasRoom`, `NoSilentResume`, `NoStaleActivation`,
`OnlyTheHostResumes`; for hosts that send supported commands only (`OnlyKnownCommands`),
`RequestsIntact`; and for hosts that do not step over, `HostViewAgrees` and the refinement
of `TargetControl`, with the further invariant `ViewInv` (the host's view agrees at every
step, not only at the top of the loop).  `PoolSuffices` alone is a matter of a host that waits for each
answer and of three buffers (`SynchronousHost`): one that does not can send a packet for which there is
no buffer, and the nub goes on with a NULL pointer ("undefined").

**The rings.**  The first part of `Transport_proofs`, and `EventQueue_proofs`.  `RingInv` is
inductive; `RoundInRange`, `RoundIsInjective` and `RoundNext` say how positions go
round the ring.  Each call then maps to `Put` or `Get` of BoundedFifo, by the
contents seen through the positions: for the byte ring a write or a read that
passes the end, one that ends at it, and one that does neither are cases of their
own.  Assumed of the constants: a size of at least 1, and at least as many ids as
slots.

**Transport.**  `Transport_proofs`, about the invariant of `TransportInv`.  That a message is one packet
cannot be seen from the message: the bytes that `TRKTestForPacket` counts out are those of one
packet only because the ring, the blocks of the driver and what the host has not sent yet go on, each where
the one before it ends.  `DriverInv` says that each block is a piece of one packet and a first piece
has the whole header; `PlaceInv`, that the driver begins where the nub is (`Follows`); `UnsentInv`,
that the host's rest begins where the driver ends; `ReadInv`, what of the packet is in the ring and what
in the message; `ReceivedInv` and `AnswerInv`, that each message begins with its packet, and each
answer is a header of which a prefix was taken.  `Piece` lemmas say how pieces are cut and joined, and
the first part of the module what a read and a write do to the contents of the ring.
A body longer than the ring (`NoRoom`) is never complete, as `transport_large` shows: nothing is said of what is in
the ring then, and the theorems hold for such packets, too, because no message comes of them.  Proved:
`PacketsIntact`, `NothingIsLeftBehind`, `AnswersIntact`, `RingInv`, and `FifoSpec` of the ring in this use,
for any sizes of header and ring, packets, and splitting into blocks.  Assumed: the header is part
of each packet (`TransportAssumption`); the packets fit in a message buffer (`PacketsFit`; a host that keeps to
2 KB of data sends no other, and `TRK_AppendBuffer` would cut it); the sets of bytes, blocks and lengths that
bound the calls of CircleBuffer contain those that occur here (`BytesAssumption`).

**StepControl.**  `StepControl_proofs`.  The inductive invariant `StepInv` is the type
invariant with `TracedWhileStepping`, `CountIsExact`, and two facts the properties
do not state: the target has the processor only when its last event was handled
(`EventInv`), and the PC is in the range of a step from the decision to go on, not
only when the instruction is executed (`RangeInv`).  `StepIsExact`, an action
property, follows from `CountIsExact` at the step that ends the counting.  Assumed:
at least one address and one count.

**TargetAccess.**  `TargetAccess_proofs`.  `AccessInv` has four parts: `MessageInv`, the
message under way asks for no more than is left of a buffer that is the target's;
`TransferInv`, what was transferred so far is in the buffer; `FlushInv`, what is to be
flushed is what the messages before brought; `ReplyInv`, a reply is looked at before
the target runs again.  `MessageMoves` is the step of the induction: it follows the bytes of one
reply into or out of the buffer.  For the stop notification `FetchedIsRight` says that each
byte that does not fault is the one in memory.  The five properties of TargetAccess that the
run checks follow.  Assumed: positive sizes, no count beyond the address space, a memory of
whole blocks of the notification.

**MslSupport**, in the same module.  Every step of the library and of the host is one of
TargetAccess or leaves its variables alone (`LibStepsAccess`), so `AccessInv` and the five properties
hold under `MslSpec`, too (`LibraryKeepsAccess`).  `LibInv` adds what the function under way
remembers: the nub waits just for the function that trapped (`CallInv`); while a function is under way a
host is there, or the target is stopped and the nub has the processor (`HostInv`), which is why a function
that looked before a disconnect does not trap after it; and the answer it finds agrees
with what was done (`AnswerInv`).

**RegisterAccess.**  `RegisterAccess_proofs`.  `RegisterInv` is `TypeOK` with three parts: `StateInv`, what
the host knows of a register that is kept in memory is there; `ProcessorInv`, what it knows of
a floating point register is in the processor, and so are the target's own values of
registers that are not restored; `TimeBaseInv`, if the host knows its value in the time base the flag is
set and the value is there, and while the flag is set the host does not count on the
target's clock.  The last is what neither
property states and both need: a time base that is restored although the host wrote
nothing would set the target's clock back to its stop.  Assumed of the constants
(`RegisterAssumption`): the timers are not among the registers that are restored always, GQR0 and HID2
are, and a header with the longest packet fits the buffer.

**ContextSwitch.**  `ContextSwitch_proofs`.  No property is inductive: what is restored was saved
some steps before, and which of the two programs was interrupted is kept in no register.  The
invariant says for each value of `at` what the registers, the two saved states and the flags
hold of whose values, as a function of `cause`; that `inTRK` is set exactly where the nub was
interrupted; and that `gTRKState` has an MSR of the nub from `TRKInitializeTarget` on, before which
no vector has the nub's code.  The six properties of the run follow.
Assumed (`ExceptionAssumption`): the external interrupt is an exception, and not a
skipped one.

**MessageBuffer.**  `MessageBuffer_proofs`.  `TypeOK` is inductive, but not before one knows what the loops
over arrays leave behind.  `ArrayIsBlock` and `ArrayIsRead` say it: an array of any width and count is
appended and read as its bytes in one block would be, with the same error at the same byte, also when an
element in the middle does not fit, and although single bytes are put in a way of their own.  Both are
inductions over the elements.  The induction theorems of the library cannot be used, as
they take an operator; so the induction is done with the least counterexample: `LeastNumber` is the least element of
a set of numbers (`WFMin`, which takes a relation), and `SameRecursion` makes of it that two functions with the
same first value and the same step are equal.  `OneMoreValue` and `OneMoreRead` are the steps, `NothingMoreFits` and
`NothingMoreLeft` what happens after the error.  With them every call is a `Put`, `Take`, `Send`, `Reset` or `Seek` of
MessageStream (`AppendIsPut`, `ReadIsTake`, `SendIsSend`, `ResetIsReset`, `SetPositionIsSeek`), and
`BufferIsStream` is the refinement.  Assumed (`BufferAssumption`): the header fits in the buffer, the
number lies in the header, and every width is positive.

Model-checked only: liveness (out of the prover's reach), packets that do not fit a message buffer,
and the findings.

## 8. Not modelled

* The ddh connection: the same code over another driver, not selected on this hardware.
  `UDP_Stubs.c`, the mutex, event and trace stubs: no code, or interrupt masking around the
  circle buffer, which nobody else uses.
* Memory and string primitives, debug output (`usr_put.c` is `#if 0` as a whole),
  assertions: no state that a property could speak of.
* What is compiled out: the framed protocol of `serpoll.c`, the dispatch table, and the
  handlers of versions, support mask, CPU type and flushing the cache.
* Address translation (`TRKTargetTranslate`): constants of the board.  Maps of memory of
  several ranges: no board has one.
* The threads of the target in the stop notification (`GetThreadInfo`): the operating
  system's, read as they are.
* The bits of `convertFileMode`, names of files, and `__open_temp_file`, which makes a name,
  calls open, and is called by nobody.
* The second start of the nub after a disconnect in TrkNub, which ends there: the step
  status and the trace bit stay as they were.  Transport has the connection of a nub that
  starts again, MslSupport the stop of the target.
* Hardware that `InitMetroTRKCommTable` does not know, and `InitMetroTRK_BBA`: where the
  first jumps to is not in the repository.

`components` in `PROJECT.json` has the state of each.
