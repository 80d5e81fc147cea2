---------------------------- MODULE MCTimerQueue ----------------------------
(* The idle check and a few timers of the program. *)
EXTENDS TimerQueue

AnyDelays == {-1, 0, 2}
FutureDelays == {1, 3}
=============================================================================
