------------------------------- MODULE TaskLine -------------------------------
(* What runExclusive promises: calls wait in line and the first one is served,
   alone, until it is finished.  YjsDocManager uses it as queue and phase. *)
EXTENDS Sequences

CONSTANT Call

VARIABLES line, busy

vars == <<line, busy>>

Init == line = <<>> /\ busy = FALSE

Enter(c) == line' = Append(line, c) /\ UNCHANGED busy

Serve == line # <<>> /\ ~busy /\ busy' = TRUE /\ UNCHANGED line

Finish == busy /\ line' = Tail(line) /\ busy' = FALSE

Next == (\E c \in Call : Enter(c)) \/ Serve \/ Finish

SafeSpec == Init /\ [][Next]_vars

Spec == SafeSpec /\ WF_vars(Serve) /\ WF_vars(Finish)

(* Where the turn in which a task starts and ends is one step, and the process may
   die and begin again. *)
Pass == line # <<>> /\ ~busy /\ line' = Tail(line) /\ UNCHANGED busy

Restart == line' = <<>> /\ busy' = FALSE

ProcessSpec == Init /\ [][Next \/ Pass \/ Restart]_vars
=============================================================================
