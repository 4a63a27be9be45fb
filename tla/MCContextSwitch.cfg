\* The machine check and the program exception are skipped, the trace and the
\* system call are not.
CONSTANTS
  Exceptions = {machineCheck, program, trace, systemCall, external}
  External = external
  Skipped = {machineCheck, program}
SPECIFICATION Spec
INVARIANT TheTargetGoesOn
INVARIANT TheTargetIsKept
INVARIANT TheNubGoesOn
INVARIANT TheHandlerHasTheMSR
PROPERTY AFaultIsSeen
PROPERTY AStopIsPosted
