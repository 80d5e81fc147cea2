---------------------------- MODULE TaskService ----------------------------
(***************************************************************************)
(* What queueInLoop promises to the threads that call it: every task is    *)
(* run once, in the order of the calls, for as long as the loop runs.      *)
(***************************************************************************)
EXTENDS Naturals, Sequences

CONSTANT Task

VARIABLES pending, done, closed

vars == << pending, done, closed >>

Init ==
    /\ pending = << >>
    /\ done = << >>
    /\ closed = FALSE

Post(task) ==
    /\ pending' = Append(pending, task)
    /\ UNCHANGED << done, closed >>

Run ==
    /\ ~ closed
    /\ pending # << >>
    /\ done' = Append(done, Head(pending))
    /\ pending' = Tail(pending)
    /\ UNCHANGED closed

Close ==
    /\ closed' = TRUE
    /\ UNCHANGED << pending, done >>

Next ==
    \/ \E task \in Task : Post(task)
    \/ Run
    \/ Close

Spec == Init /\ [][Next]_vars /\ WF_vars(Run)
=============================================================================
