------------------------------ MODULE MCBuffer ------------------------------
(* Buffer with two byte values, appended up to two at a time. *)
EXTENDS Buffer

CONSTANTS a, b

MCByte == {a, b}
MCChunks == UNION {[1 .. n -> MCByte] : n \in 0 .. 2}
=============================================================================
