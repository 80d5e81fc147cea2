----------------------------- MODULE MCReactor -----------------------------
(***************************************************************************)
(* Two or three peers of which at most two send.  With one descriptor more *)
(* than there are peers the process never runs out of them; with fewer it  *)
(* may, and ends.                                                          *)
(***************************************************************************)
EXTENDS Reactor, TLC

CONSTANTS s1, s2, f1, f2, f3

TwoAndOne == [s \in Sockets |-> IF s = s1 THEN 4 ELSE 1]
OneSender == [s \in Sockets |-> IF s = s1 THEN 1 ELSE 0]

FdSymmetry == Permutations(Fds)
=============================================================================
