---------------------------- MODULE TargetControl ----------------------------
(***************************************************************************)
(* What the debug nub promises the host about the program being debugged,  *)
(* with no nub in it: the host is told whether the target is stopped or    *)
(* may run, and the target executes only while the host has been told that *)
(* it may run.  TrkNub implements this specification.                      *)
(***************************************************************************)

VARIABLES
  view,        \* what the last message to the host said of the target
  executing    \* the processor is executing the target program

vars == <<view, executing>>

TypeOK ==
  /\ view \in {"stopped", "running"}
  /\ executing \in BOOLEAN

Init ==
  /\ view = "stopped"
  /\ executing = FALSE

\* A Continue or Step command is acknowledged.
Resume ==
  /\ view = "stopped"
  /\ view' = "running"
  /\ UNCHANGED executing

\* The nub hands the processor to the target.
Run ==
  /\ view = "running"
  /\ ~executing
  /\ executing' = TRUE
  /\ UNCHANGED view

\* An exception or the arrival of input gives the processor back to the nub.
Suspend ==
  /\ executing
  /\ executing' = FALSE
  /\ UNCHANGED view

\* A stop notification is sent, or a Stop command is acknowledged.
Stop ==
  /\ ~executing
  /\ view = "running"
  /\ view' = "stopped"
  /\ UNCHANGED executing

Next == Resume \/ Run \/ Suspend \/ Stop

Spec == Init /\ [][Next]_vars
=============================================================================
