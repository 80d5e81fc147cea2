------------------------------ MODULE MCFraming ------------------------------
EXTENDS Framing

MCByte == 0 .. 2

MCChunks == UNION {[1 .. n -> MCByte] : n \in 1 .. 2}

(* Two ternary digits, the first one the more significant. *)
MCLengthField == [p \in [1 .. 2 -> MCByte] |-> 3 * p[1] + p[2]]

(* One without and two with an overlap with themselves, and one that repeats
   itself, as CR LF CR LF does. *)
MCDelimiters == {<< 1, 2 >>, << 1, 1 >>, << 1, 2, 1 >>, << 1, 2, 1, 2 >>}
=============================================================================
