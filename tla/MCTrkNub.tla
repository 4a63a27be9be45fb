------------------------------ MODULE MCTrkNub ------------------------------
(***************************************************************************)
(* Instances of TrkNub for TLC: the commands the host of a run sends.      *)
(***************************************************************************)
EXTENDS TrkNubInv

\* One command of each kind the nub tells apart; those that it carries out in
\* the handler and answers, as the memory and register commands, are "access".
Kinds == {"access", "badStep", "continue", "step", "stop", "disconnect", "reset"}

\* The same with the commands the nub knows but refuses, or does not know.
OddKinds == {"access", "continue", "step", "stepOver", "stop", "disconnect",
             "unknown"}
=============================================================================
