------------------------------ MODULE LoopLife ------------------------------
(***************************************************************************)
(* What an EventLoop promises to the thread that calls run() and to the    *)
(* one that calls stop(): run() returns after stop() and for no other      *)
(* reason, also if stop() was called first.                                *)
(***************************************************************************)
VARIABLES running, phase

vars == << running, phase >>

Init ==
    /\ running = TRUE
    /\ phase = "fresh"

Start ==
    /\ phase = "fresh"
    /\ phase' = "running"
    /\ UNCHANGED running

Stop ==
    /\ running' = FALSE
    /\ UNCHANGED phase

Return ==
    /\ ~ running
    /\ phase = "running"
    /\ phase' = "returned"
    /\ UNCHANGED running

Next == Start \/ Stop \/ Return

Spec == Init /\ [][Next]_vars /\ WF_vars(Start) /\ WF_vars(Return)
=============================================================================
