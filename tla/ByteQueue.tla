----------------------------- MODULE ByteQueue -----------------------------
(***************************************************************************)
(* What a Buffer promises to Connection and to the decoders: a FIFO queue  *)
(* of bytes.  Bytes are put at the back and dropped from the front.        *)
(***************************************************************************)
EXTENDS Integers, Sequences

CONSTANTS Byte, Chunks, MaxUnread

VARIABLES
    queue,      \* the bytes put and not dropped
    asked       \* history: how many bytes the last call asked to drop

vars == << queue, asked >>

Init ==
    /\ queue = << >>
    /\ asked = 0

Put(data) ==
    /\ Len(queue) + Len(data) <= MaxUnread
    /\ queue' = queue \o data
    /\ asked' = 0

(* Dropping more bytes than there are drops them all. *)
Drop(len) ==
    LET dropped == IF len > Len(queue) THEN Len(queue) ELSE len IN
    /\ queue' = SubSeq(queue, dropped + 1, Len(queue))
    /\ asked' = len

Next ==
    \/ \E data \in Chunks : Put(data)
    \/ \E len \in 0 .. MaxUnread + 1 : Drop(len)

Spec == Init /\ [][Next]_vars
=============================================================================
