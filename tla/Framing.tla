------------------------------- MODULE Framing -------------------------------
(***************************************************************************)
(* A connection's input path: recv_data appends what the socket holds to   *)
(* the input buffer, then decodes until no complete message is left.  The  *)
(* decoder is a Decoder (a length prefix), a DelimiterDecoder or none.     *)
(* The input buffer is a Buffer, with its read index and compaction.       *)
(***************************************************************************)
EXTENDS Integers, Sequences

CONSTANTS
    Byte,               \* the byte values
    Chunks,             \* what one recv can return
    CompactThreshold,   \* of the input buffer
    PrefixLen,          \* sizeof(uint32_t), 4 in the code
    Span,               \* 2^32: uint32_t arithmetic is modulo Span
    LengthField,        \* memcpy and ntohl: the number a prefix stands for
    Delimiters,         \* the delimiters a DelimiterDecoder is made with
    MaxFed              \* bound of the model on the bytes a peer sends

Prefix == [1 .. PrefixLen -> Byte]

ASSUME FramingAssumption ==
    /\ Chunks \subseteq Seq(Byte) \ {<< >>}
    /\ CompactThreshold \in Nat \ {0}
    /\ PrefixLen \in Nat \ {0}
    /\ Span \in Nat /\ PrefixLen < Span
    /\ LengthField \in [Prefix -> 0 .. Span - 1]
    /\ Delimiters \subseteq Seq(Byte) \ {<< >>}
    /\ MaxFed \in Nat

VARIABLES
    buffer_, read_index_, asked,    \* input_buffer_
    decoder,                        \* decoder_
    pc,                             \* where recv_data is
    fed,                            \* history: the bytes received
    consumed,                       \* history: the bytes fetched by the decoder
    messages                        \* history: what the message callback was given

vars == << buffer_, read_index_, asked, decoder, pc, fed, consumed, messages >>

Input == INSTANCE Buffer WITH MaxUnread <- MaxFed

Decoders ==
    [kind : {"none", "prefix"}, delimiter : {<< >>}]
        \cup [kind : {"delimiter"}, delimiter : Delimiters]

Init ==
    /\ Input!Init
    /\ decoder \in Decoders
    /\ pc = "idle"
    /\ fed = << >>
    /\ consumed = << >>
    /\ messages = << >>

-----------------------------------------------------------------------------
Front(bytes, n) == SubSeq(bytes, 1, n)

(* Mutant: the readable bytes are compared with the length of the message. *)
PrefixEnd_NoPrefix(bytes) ==
    IF Len(bytes) < PrefixLen
    THEN {}
    ELSE {(PrefixLen + n) % Span :
            n \in {LengthField[Front(bytes, PrefixLen)]} \cap 0 .. Len(bytes)}

(* Decoder::decode up to the second early return: how many bytes it takes
   from the front of the buffer, no number if it takes none. *)
PrefixEnd(bytes) ==
    IF Len(bytes) < PrefixLen
    THEN {}
    ELSE {(PrefixLen + LengthField[Front(bytes, PrefixLen)]) % Span} \cap 0 .. Len(bytes)

MatchesAt(bytes, delimiter, pos) ==
    SubSeq(bytes, pos + 1, pos + Len(delimiter)) = delimiter

(* Mutant: the search starts behind the first byte, as if it were known not
   to be part of a delimiter. *)
DelimiterEnd_SkipsFirst(bytes, delimiter) ==
    LET found == {pos \in 1 .. Len(bytes) - Len(delimiter) : MatchesAt(bytes, delimiter, pos)}
    IN  {pos + Len(delimiter) : pos \in {p \in found : \A q \in found : p <= q}}

(* DelimiterDecoder::decode: the message ends with the first delimiter. *)
DelimiterEnd(bytes, delimiter) ==
    LET found == {pos \in 0 .. Len(bytes) - Len(delimiter) : MatchesAt(bytes, delimiter, pos)}
    IN  {pos + Len(delimiter) : pos \in {p \in found : \A q \in found : p <= q}}

(* decode_message: without a decoder there are no messages. *)
FrameEnd(bytes) ==
    CASE decoder.kind = "none" -> {}
      [] decoder.kind = "prefix" -> PrefixEnd(bytes)
      [] decoder.kind = "delimiter" -> DelimiterEnd(bytes, decoder.delimiter)

(* The prefix is not part of the message, the delimiter is. *)
HeaderLen == IF decoder.kind = "prefix" THEN PrefixLen ELSE 0

(* Where Decoder::decode makes a message of bytes: the string it constructs
   ends beyond the readable bytes when the sum above has wrapped. *)
Overruns(bytes) ==
    /\ decoder.kind = "prefix"
    /\ PrefixLen + LengthField[Front(bytes, PrefixLen)] > Len(bytes)

-----------------------------------------------------------------------------
(* One recv of the loop in recv_data that returns data. *)
Receive(data) ==
    /\ pc \in {"idle", "receiving"}
    /\ Len(fed) + Len(data) <= MaxFed
    /\ Input!AddData(data)
    /\ fed' = fed \o data
    /\ pc' = "receiving"
    /\ UNCHANGED << decoder, consumed, messages >>

(* Mutants: the prefix is counted twice, and fetch does not clamp; nothing is
   fetched; one message is decoded for each recv_data. *)
Decode_PrefixTwice(end) ==
    /\ read_index_' = read_index_ + HeaderLen + end
    /\ messages' = Append(messages, SubSeq(Input!Unread, HeaderLen + 1, end))
    /\ consumed' = consumed \o Front(Input!Unread, end)
    /\ pc' = "decoding"
    /\ asked' = HeaderLen + end
    /\ UNCHANGED buffer_

Decode_NoFetch(end) ==
    /\ Input!Fetch(0)
    /\ messages' = Append(messages, SubSeq(Input!Unread, HeaderLen + 1, end))
    /\ consumed' = consumed \o Front(Input!Unread, end)
    /\ pc' = "decoding"

Decode_OnlyOne(end) ==
    /\ Input!Fetch(end)
    /\ messages' = Append(messages, SubSeq(Input!Unread, HeaderLen + 1, end))
    /\ consumed' = consumed \o Front(Input!Unread, end)
    /\ pc' = "idle"

(* decode makes a message and fetches its bytes, the callback gets it. *)
Decode(end) ==
    /\ Input!Fetch(end)
    /\ messages' = Append(messages, SubSeq(Input!Unread, HeaderLen + 1, end))
    /\ consumed' = consumed \o Front(Input!Unread, end)
    /\ pc' = "decoding"

(* Constructing a string from bytes that are not there has no defined
   outcome: the model ends here. *)
Overrun ==
    /\ pc' = "undefined"
    /\ UNCHANGED << buffer_, read_index_, asked, consumed, messages >>

(* Mutant: the loop tries again instead of waiting for more bytes. *)
StopDecoding_Retry ==
    /\ pc' = "decoding"
    /\ UNCHANGED << buffer_, read_index_, asked, consumed, messages >>

(* decode returns nullopt. *)
StopDecoding ==
    /\ pc' = "idle"
    /\ UNCHANGED << buffer_, read_index_, asked, consumed, messages >>

(* One evaluation of the condition of the decode loop, with its body. *)
DecodeMessage ==
    LET ends == FrameEnd(Input!Unread) IN
    /\ pc \in {"receiving", "decoding"}
    /\ UNCHANGED << decoder, fed >>
    /\ \/ /\ ends = {}
          /\ StopDecoding
       \/ \E end \in ends :
            \/ Overruns(Input!Unread) /\ Overrun
            \/ ~ Overruns(Input!Unread) /\ Decode(end)

Next ==
    \/ \E data \in Chunks : Receive(data)
    \/ DecodeMessage

Spec == Init /\ [][Next]_vars

(* The loop's thread goes on inside recv_data: the next recv finds the socket
   empty (EAGAIN) and decoding starts. *)
FairSpec == Spec /\ WF_vars(DecodeMessage)

-----------------------------------------------------------------------------
(* The framing as the wire format defines it, one byte at a time. *)

Occurs(bytes, delimiter) ==
    \E pos \in 0 .. Len(bytes) - Len(delimiter) : MatchesAt(bytes, delimiter, pos)

IsFrame(bytes) ==
    CASE decoder.kind = "none" -> FALSE
      [] decoder.kind = "prefix" ->
            /\ PrefixLen <= Len(bytes)
            /\ Len(bytes) = PrefixLen + LengthField[Front(bytes, PrefixLen)]
      [] decoder.kind = "delimiter" -> Occurs(bytes, decoder.delimiter)

Framed(stream) ==
    LET after[n \in 0 .. Len(stream)] ==
            IF n = 0
            THEN [frames |-> << >>, rest |-> << >>]
            ELSE LET open == Append(after[n - 1].rest, stream[n]) IN
                 IF IsFrame(open)
                 THEN [frames |-> Append(after[n - 1].frames, open), rest |-> << >>]
                 ELSE [frames |-> after[n - 1].frames, rest |-> open]
    IN  after[Len(stream)]

Body(frame) == SubSeq(frame, HeaderLen + 1, Len(frame))

-----------------------------------------------------------------------------
TypeOK ==
    /\ Input!TypeOK
    /\ decoder \in Decoders
    /\ pc \in {"idle", "receiving", "decoding", "undefined"}
    /\ fed \in Seq(Byte)
    /\ consumed \in Seq(Byte)
    /\ messages \in Seq(Seq(Byte))

(* What the message callback is given, and what is left in the buffer, depend
   on the bytes of the stream alone: not on how recv cut it into pieces, on
   how many pieces came before decoding began, or on where the buffer was
   compacted (README 3.4, Connection::recv_data). *)
FramesOfStream ==
    pc = "idle" =>
        /\ messages = [i \in DOMAIN Framed(fed).frames |-> Body(Framed(fed).frames[i])]
        /\ Input!Unread = Framed(fed).rest

(* No byte is lost, repeated or reordered between the socket and the decoder,
   also in the middle of the decode loop and of a compaction. *)
StreamConserved == fed = consumed \o Input!Unread

(* recv_data does not return while a complete message waits in the buffer:
   its answer would be due only when the peer sends again, which a peer that
   waits for the answer never does. *)
NoMessageWaits ==
    pc = "idle" => \A n \in 1 .. Len(Input!Unread) : ~ IsFrame(Front(Input!Unread, n))

(* Decoder::decode takes no more than is there, "half packets must not be
   consumed" (test_decoder.cpp, case 2), as long as the 32-bit sum of
   prefix and length does not wrap. *)
HalfPacketsKept ==
    pc = "undefined" =>
        PrefixLen + LengthField[Front(Input!Unread, PrefixLen)] >= Span

(* The decode loop of recv_data ends: every turn consumes something.  An
   empty delimiter, which the constructor accepts, would make it spin. *)
DecodingEnds == pc = "decoding" ~> pc \in {"idle", "undefined"}
=============================================================================
