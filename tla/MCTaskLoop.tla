----------------------------- MODULE MCTaskLoop -----------------------------
(* Two posting threads besides the loop's own: one submits two tasks, so that
   the order of a thread's own tasks shows, the others one each. *)
EXTENDS TaskLoop

CONSTANTS p1, p2

MCPosters == {p1, p2}
MCMaxTasks == [t \in Threads |-> IF t = p1 THEN 2 ELSE IF t = Main THEN 0 ELSE 1]
=============================================================================
