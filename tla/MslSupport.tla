----------------------------- MODULE MslSupport -----------------------------
(***************************************************************************)
(* The other end of the file calls of TargetAccess: the functions that the *)
(* standard library of the target calls for consoles and files.  They look *)
(* whether there is a host, trap into the nub, and make of what they find  *)
(* in r3 an error of the library.  Between the look and the trap, and      *)
(* between the nub's answer and the return, the target may be interrupted, *)
(* the host may stop it and leave, and another host may come.              *)
(*                                                                         *)
(* A host connects before it lets the target run.  A program that no host  *)
(* debugs, and for which InitMetroTRK was not called, uses the library     *)
(* too.                                                                    *)
(***************************************************************************)
EXTENDS TargetAccess

VARIABLES
  connected,   \* IsTRKConnected
  stopped,     \* gTRKState.stopped
  bUseSerialIO, \* whether the console goes to the host
  lib,         \* the function under way, and what the nub answered
  word,        \* what is where open and position get their handle or place
  returned     \* history: what the function that just returned gave back

libVars == <<connected, stopped, bUseSerialIO, lib, word, returned>>

Console   == {"__read_console", "__TRK_write_console"}
Functions == Console \cup
  {"__read_file", "__write_file", "__open_file", "__close_file", "__position_file"}

\* targsupp.s: what is in r3 at the trap.
CommandOf(f) ==
  CASE f \in {"__read_console", "__read_file"}       -> "kDSReadFile"
    [] f \in {"__TRK_write_console", "__write_file"} -> "kDSWriteFile"
    [] f = "__open_file"                             -> "kDSOpenFile"
    [] f = "__close_file"                            -> "kDSCloseFile"
    [] f = "__position_file"                         -> "kDSPositionFile"

NoLib    == [phase |-> "none"]
NoReturn == [err |-> "none"]

MslInit ==
  /\ Init
  /\ connected = FALSE
  /\ stopped = TRUE
  /\ bUseSerialIO = FALSE
  /\ lib = NoLib
  /\ word = "program"
  /\ returned = NoReturn

\* A program without a debugger.
MslInit_Alone ==
  /\ memory = [a \in Addr |-> <<"target", a>>]
  /\ unflushed = {}
  /\ at = "target"
  /\ call = NoCall /\ done = 0 /\ length = 0
  /\ result = "kDSIONoError" /\ count = 0
  /\ reply = NoReply
  /\ transferred = <<>> /\ refused = FALSE /\ overlong = FALSE
  /\ connected = FALSE
  /\ stopped = FALSE
  /\ bUseSerialIO = FALSE
  /\ lib = NoLib
  /\ word = "program"
  /\ returned = NoReturn

-----------------------------------------------------------------------------
(***************************************************************************)
(* The library.                                                            *)
(***************************************************************************)

\* The console may be turned off.
NoHost(f) == ~connected \/ (f \in Console /\ ~bUseSerialIO)

\* A function begins.  The count is left as it is if there is no host.
Begin(f, buffer, n) ==
  /\ at = "target"
  /\ lib.phase = "none"
  /\ IF NoHost(f)
     THEN /\ returned' = [function |-> f, err |-> "kIOError"]
          /\ UNCHANGED lib
     ELSE /\ lib' = [phase |-> "looked", function |-> f, buffer |-> buffer, count |-> n]
          /\ returned' = NoReturn
  /\ UNCHANGED <<vars, connected, stopped, bUseSerialIO, word>>

\* What the registers of the target hold when the nub has answered.
Answered ==
  [phase |-> "answered", function |-> lib.function, result |-> result',
   count |-> count', moved |-> Len(transferred')]

Keep ==
  /\ lib' = IF at' = "nub" THEN Answered ELSE [lib EXCEPT !.phase = "trapped"]
  /\ returned' = NoReturn
  /\ UNCHANGED <<connected, stopped, bUseSerialIO>>

\* HandleOpenFileSupportRequest and HandlePositionFileSupportRequest clear the
\* place of their answer before they ask the host.
Trap ==
  /\ lib.phase = "looked"
  /\ TRKTargetSupportRequest([command |-> CommandOf(lib.function),
                              buffer |-> lib.buffer, count |-> lib.count])
  /\ word' = CASE lib.function = "__open_file"     -> "zero"
               [] lib.function = "__position_file" -> "minus one"
               [] OTHER                            -> word
  /\ Keep

\* The handle or the place is that of the reply.
HostAnswers ==
  /\ Answer
  /\ word' = IF call.command \in {"kDSOpenFile", "kDSPositionFile"} THEN "host" ELSE word
  /\ Keep

HostDoesNotAnswer ==
  /\ NoAnswer
  /\ word' = IF call.command = "kDSOpenFile" THEN "stale" ELSE word
  /\ Keep

ErrorOf(r) ==
  CASE r = "kDSIONoError" -> "kIONoError"
    [] r = "kDSIOEOF"     -> "kIOEOF"
    [] OTHER              -> "kIOError"

\* local_count goes to *count whatever the error.
Return ==
  /\ at = "target"
  /\ lib.phase = "answered"
  /\ lib' = NoLib
  /\ returned' = [function |-> lib.function, err |-> ErrorOf(lib.result),
                  count |-> lib.count, moved |-> lib.moved, word |-> word]
  /\ word' = "program"
  /\ UNCHANGED <<vars, connected, stopped, bUseSerialIO>>

-----------------------------------------------------------------------------
(***************************************************************************)
(* The host comes, goes, and lets the target run.                          *)
(***************************************************************************)

TRK_DoConnect ==
  /\ at = "nub"
  /\ connected' = TRUE
  /\ returned' = NoReturn
  /\ UNCHANGED <<vars, stopped, bUseSerialIO, lib, word>>

\* The nub that starts again lets the target run on.
Bug_TRKDoDisconnect ==
  /\ at = "nub"
  /\ connected' = FALSE
  /\ returned' = NoReturn
  /\ UNCHANGED <<vars, stopped, bUseSerialIO, lib, word>>

\* The nub starts again, and with it TRKInitializeTarget.
TRKDoDisconnect ==
  /\ at = "nub"
  /\ connected' = FALSE
  /\ stopped' = TRUE
  /\ returned' = NoReturn
  /\ UNCHANGED <<vars, bUseSerialIO, lib, word>>

\* Whether the target was stopped or not.  Bound: not in the middle of a
\* function, which looks once.
TRKDoSetOption(value) ==
  /\ at = "nub"
  /\ lib.phase = "none"
  /\ bUseSerialIO' = value
  /\ returned' = NoReturn
  /\ UNCHANGED <<vars, connected, stopped, lib, word>>

SetStopped(value) ==
  /\ at = "nub"
  /\ value \/ connected
  /\ stopped' = value
  /\ returned' = NoReturn
  /\ UNCHANGED <<vars, connected, bUseSerialIO, lib, word>>

Run ==
  /\ TRK_Idle
  /\ ~stopped
  /\ returned' = NoReturn
  /\ UNCHANGED <<connected, stopped, bUseSerialIO, lib, word>>

\* Without a host there is nothing that interrupts.
Interrupt ==
  /\ TransportInterrupt
  /\ connected
  /\ returned' = NoReturn
  /\ UNCHANGED <<connected, stopped, bUseSerialIO, lib, word>>

\* Bound: not in the middle of a function.
Commands ==
  /\ lib.phase = "none"
  /\ Command \/ RefuseExtended
  /\ returned' = NoReturn
  /\ UNCHANGED <<connected, stopped, bUseSerialIO, lib, word>>

\* TRKTargetInterrupt.  The same bound.
Stop(pc) ==
  /\ lib.phase = "none"
  /\ stopped' = TRUE
  /\ TRKTargetAddStopInfo(pc)
  /\ returned' = NoReturn
  /\ UNCHANGED <<connected, bUseSerialIO, lib, word>>

MslNext ==
  \/ \E f \in Functions, a \in Addr, n \in 0 .. MaxCount :
       /\ IF CommandOf(f) \in Accesses
          THEN a + n <= NumAddr /\ Span(a, n) \subseteq Mapped
          ELSE a = 0 /\ n = 0
       /\ Begin(f, a, n)
  \/ Trap
  \/ HostAnswers
  \/ HostDoesNotAnswer
  \/ Return
  \/ TRK_DoConnect
  \/ TRKDoDisconnect
  \/ \E on \in BOOLEAN : SetStopped(on) \/ TRKDoSetOption(on)
  \/ Run
  \/ Interrupt
  \/ Commands
  \/ \E pc \in Addr : Stop(pc)

MslSpec == (MslInit \/ MslInit_Alone) /\ [][MslNext]_<<vars, libVars>>

-----------------------------------------------------------------------------
(***************************************************************************)
(* What must hold.                                                         *)
(***************************************************************************)

\* The nub asks only a host that is there, although the library looked long
\* before the trap: TRK_RequestSend would wait for ever.
RequestsHaveAHost == at = "wait" => connected

\* The program is told success only for what the host did: the count is that of
\* the bytes that were moved, the handle or place is the host's.
TheProgramIsTold ==
  returned.err = "kIONoError" =>
    /\ returned.count = returned.moved
    /\ CommandOf(returned.function) \in {"kDSOpenFile", "kDSPositionFile"}
         => returned.word = "host"
=============================================================================
