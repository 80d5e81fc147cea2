------------------------------- MODULE Buffer -------------------------------
(***************************************************************************)
(* class Buffer: a vector of bytes and a read index in front of which the  *)
(* bytes are dead.  fetch() only advances the index; the dead prefix is    *)
(* erased when everything was read or when it has grown to                 *)
(* CompactThreshold bytes.                                                 *)
(***************************************************************************)
EXTENDS Integers, Sequences

CONSTANTS
    Byte,               \* the byte values
    Chunks,             \* the arguments add_data is called with
    CompactThreshold,   \* COMPACT_THRESHOLD, 4096 in the code
    MaxUnread           \* bound of the model on the unread bytes

ASSUME BufferAssumption ==
    /\ Chunks \subseteq Seq(Byte)
    /\ CompactThreshold \in Nat \ {0}
    /\ MaxUnread \in Nat

VARIABLES
    buffer_,            \* the vector, dead prefix included
    read_index_,        \* number of dead bytes at its front
    asked               \* history: the argument of the last call if a fetch

vars == << buffer_, read_index_, asked >>

Init ==
    /\ buffer_ = << >>
    /\ read_index_ = 0
    /\ asked = 0

ReadAbleBytes == Len(buffer_) - read_index_

(* The bytes from get() on: all a reader of the buffer can see. *)
Unread == SubSeq(buffer_, read_index_ + 1, Len(buffer_))

(* add_data: an empty chunk is ignored, which appending it also does. *)
AddData(data) ==
    /\ ReadAbleBytes + Len(data) <= MaxUnread
    /\ buffer_' = buffer_ \o data
    /\ asked' = 0
    /\ UNCHANGED read_index_

(* Faulty settlements for the runs' mutants: the dead prefix is never erased;
   the index is not reset after the erasure. *)
Settle_NeverCompact(index) ==
    /\ read_index_' = index
    /\ UNCHANGED buffer_

Settle_KeepIndex(index) ==
    IF index >= CompactThreshold
    THEN /\ buffer_' = SubSeq(buffer_, index + 1, Len(buffer_))
         /\ read_index_' = IF index = Len(buffer_) THEN 0 ELSE 1
    ELSE /\ read_index_' = index
         /\ UNCHANGED buffer_

(* What fetch leaves when the read index has moved to index. *)
Settle(index) ==
    IF index = Len(buffer_)
    THEN /\ buffer_' = << >>
         /\ read_index_' = 0
    ELSE IF index >= CompactThreshold
         THEN /\ buffer_' = SubSeq(buffer_, index + 1, Len(buffer_))
              /\ read_index_' = 0
         ELSE /\ read_index_' = index
              /\ UNCHANGED buffer_

(* Mutant: the length is not cut down. *)
Fetch_NoClamp(len) ==
    /\ Settle(read_index_ + len)
    /\ asked' = len

(* fetch: a length beyond the unread bytes is cut down to them. *)
Fetch(len) ==
    LET taken == IF len > ReadAbleBytes THEN ReadAbleBytes ELSE len IN
    /\ Settle(read_index_ + taken)
    /\ asked' = len

Next ==
    \/ \E data \in Chunks : AddData(data)
    \/ \E len \in 0 .. MaxUnread + 1 : Fetch(len)

Spec == Init /\ [][Next]_vars

-----------------------------------------------------------------------------
(* Type invariant: the read index never passes the end of the vector. *)
TypeOK ==
    /\ buffer_ \in Seq(Byte)
    /\ read_index_ \in 0 .. Len(buffer_)
    /\ asked \in Nat

(* The dead prefix is shorter than the compaction threshold after every
   call, and the vector is emptied with its last unread byte: consumed bytes
   cannot pile up however long a connection lives and however add_data and
   fetch alternate (README 5.1, Buffer.cpp fetch). *)
DeadPrefixBounded ==
    /\ read_index_ < CompactThreshold
    /\ read_index_ = Len(buffer_) => buffer_ = << >>
    /\ Len(buffer_) < CompactThreshold + MaxUnread

(* Through get() and read_able_bytes() the buffer is a FIFO queue of bytes:
   a fetch drops as many as it was asked to, and neither the index arithmetic
   nor a compaction loses, repeats or reorders a byte. *)
Queue == INSTANCE ByteQueue WITH queue <- Unread
ImplementsByteQueue == Queue!Spec
=============================================================================
