---------------------------- MODULE FramingProofs ----------------------------
(***************************************************************************)
(* For every set of bytes, every chunking of the stream, every decoder and *)
(* every compaction threshold: no byte is lost between the socket and the  *)
(* decoder, a half packet stays where it is, no complete message waits,    *)
(* and the messages are those of the stream.                               *)
(***************************************************************************)
EXTENDS Framing, SequenceTheorems, NaturalsInduction, WellFoundedInduction, TLAPS

(* What is proved of Buffer holds of the input buffer. *)
InputFacts == INSTANCE BufferProofs WITH MaxUnread <- MaxFed

-----------------------------------------------------------------------------
(* The input buffer. *)

(* The constants of Framing satisfy what the facts about Buffer assume of its own. *)
LEMMA InputAssumption == InputFacts!BufferAssumption
BY FramingAssumption DEF InputFacts!BufferAssumption

(* The instances of Buffer and of its proofs speak of the same buffer. *)
LEMMA SameBuffer ==
    /\ InputFacts!TypeOK <=> Input!TypeOK
    /\ InputFacts!Unread = Input!Unread
    /\ InputFacts!ReadAbleBytes = Input!ReadAbleBytes
BY DEF InputFacts!TypeOK, Input!TypeOK, InputFacts!Unread, Input!Unread,
       InputFacts!ReadAbleBytes, Input!ReadAbleBytes

(* The unread part is a sequence of bytes, as long as read_able_bytes says. *)
LEMMA InputUnread ==
    ASSUME Input!TypeOK
    PROVE  /\ Input!Unread \in Seq(Byte)
           /\ Len(Input!Unread) \in Nat
           /\ Len(Input!Unread) = Input!ReadAbleBytes
<1>1. buffer_ \in Seq(Byte) /\ read_index_ \in 0 .. Len(buffer_)
  BY DEF Input!TypeOK
<1>2. /\ Input!Unread \in Seq(Byte)
      /\ Len(Input!Unread) = Len(buffer_) - read_index_
  BY <1>1, InputFacts!SuffixElements, InputAssumption DEF Input!Unread
<1> QED BY <1>2, LenProperties DEF Input!ReadAbleBytes

(* add_data appends to the unread part. *)
LEMMA InputAdd ==
    ASSUME Input!TypeOK, NEW data \in Chunks, Input!AddData(data)
    PROVE  /\ data \in Seq(Byte)
           /\ Input!TypeOK'
           /\ Input!Unread' = Input!Unread \o data
<1>1. InputFacts!TypeOK /\ InputFacts!AddData(data)
  BY SameBuffer DEF InputFacts!AddData, Input!AddData
<1>2. data \in Seq(Byte) /\ InputFacts!TypeOK' /\ InputFacts!Unread' = InputFacts!Unread \o data
  BY <1>1, InputAssumption, InputFacts!AddStep
<1> QED BY <1>2 DEF InputFacts!TypeOK, Input!TypeOK, InputFacts!Unread, Input!Unread

(* A fetch of no more than there is drops exactly what was asked. *)
LEMMA InputFetch ==
    ASSUME Input!TypeOK, NEW end \in 0 .. Len(Input!Unread), Input!Fetch(end)
    PROVE  /\ Input!TypeOK'
           /\ Input!Unread' = SubSeq(Input!Unread, end + 1, Len(Input!Unread))
<1> DEFINE index == read_index_ + end
<1>0. /\ buffer_ \in Seq(Byte) /\ read_index_ \in 0 .. Len(buffer_) /\ Len(buffer_) \in Nat
      /\ Len(Input!Unread) = Len(buffer_) - read_index_
      /\ Len(Input!Unread) = Input!ReadAbleBytes
      /\ end \in Nat /\ ~ (end > Input!ReadAbleBytes)
  BY InputUnread, LenProperties DEF Input!TypeOK, Input!ReadAbleBytes
<1>1. InputFacts!TypeOK
  BY SameBuffer
<1>2. /\ index \in read_index_ .. Len(buffer_)
      /\ Input!Settle(index) /\ asked' = end
  BY <1>0 DEF Input!Fetch
<1>3. InputFacts!Settle(index) /\ asked' \in Nat
  BY <1>0, <1>2 DEF Input!Settle, InputFacts!Settle
<1> HIDE DEF index
<1>4. InputFacts!TypeOK' /\ InputFacts!Unread' = SubSeq(buffer_, index + 1, Len(buffer_))
  BY <1>1, <1>2, <1>3, InputAssumption, InputFacts!SettleStep
<1>5. SubSeq(SubSeq(buffer_, read_index_ + 1, Len(buffer_)), end + 1, Len(buffer_) - read_index_)
        = SubSeq(buffer_, read_index_ + end + 1, Len(buffer_))
  BY <1>0, InputAssumption, InputFacts!SuffixOfSuffix
<1>6. Input!Unread = SubSeq(buffer_, read_index_ + 1, Len(buffer_))
  BY DEF Input!Unread
<1>7. SubSeq(buffer_, index + 1, Len(buffer_))
        = SubSeq(Input!Unread, end + 1, Len(Input!Unread))
  BY <1>0, <1>5, <1>6 DEF index
<1>8. Input!TypeOK' /\ Input!Unread' = InputFacts!Unread'
  BY <1>4 DEF InputFacts!TypeOK, Input!TypeOK, InputFacts!Unread, Input!Unread
<1> QED BY <1>4, <1>7, <1>8

-----------------------------------------------------------------------------
(* Fronts of a sequence of bytes. *)

(* A front of a sequence has its first elements. *)
LEMMA FrontElements ==
    ASSUME NEW s \in Seq(Byte), NEW n \in 0 .. Len(s)
    PROVE  /\ Front(s, n) \in Seq(Byte)
           /\ Len(Front(s, n)) = n
           /\ \A i \in 1 .. n : Front(s, n)[i] = s[i]
<1>1. Len(s) \in Nat /\ \A i \in 1 .. n : s[i] \in Byte
  BY LenProperties, ElementOfSeq
<1>2. /\ SubSeq(s, 1, n) \in Seq(Byte)
      /\ Len(SubSeq(s, 1, n)) = IF 1 <= n THEN n - 1 + 1 ELSE 0
      /\ \A i \in 1 .. n - 1 + 1 : SubSeq(s, 1, n)[i] = s[1 + i - 1]
  BY <1>1, SubSeqProperties
<1>3. n - 1 + 1 = n /\ \A i \in 1 .. n : 1 + i - 1 = i
  BY <1>1
<1> QED BY <1>1, <1>2, <1>3 DEF Front

(* A piece of a front is the same piece of the sequence. *)
LEMMA PieceOfFront ==
    ASSUME NEW s \in Seq(Byte), NEW n \in 0 .. Len(s), NEW i \in Nat \ {0}, NEW j \in Int, j <= n
    PROVE  /\ SubSeq(Front(s, n), i, j) = SubSeq(s, i, j)
           /\ SubSeq(s, i, j) \in Seq(Byte)
           /\ Len(SubSeq(s, i, j)) = IF i <= j THEN j - i + 1 ELSE 0
<1> DEFINE f == Front(s, n)
           l == SubSeq(f, i, j)
           r == SubSeq(s, i, j)
<1>0. Len(s) \in Nat /\ n \in Nat
  BY LenProperties
<1>1. /\ f \in Seq(Byte) /\ Len(f) = n /\ \A x \in 1 .. n : f[x] = s[x]
      /\ \A x \in 1 .. n : s[x] \in Byte
  BY <1>0, FrontElements, ElementOfSeq
<1> HIDE DEF f
<1>2. \A x \in i .. j : x \in 1 .. n
  BY <1>0
<1>3. \A x \in i .. j : s[x] \in Byte /\ f[x] \in Byte /\ f[x] = s[x]
  BY <1>1, <1>2
<1>4. /\ l \in Seq(Byte) /\ Len(l) = IF i <= j THEN j - i + 1 ELSE 0
      /\ \A x \in 1 .. j - i + 1 : l[x] = f[i + x - 1]
  BY <1>3, SubSeqProperties
<1>5. /\ r \in Seq(Byte) /\ Len(r) = IF i <= j THEN j - i + 1 ELSE 0
      /\ \A x \in 1 .. j - i + 1 : r[x] = s[i + x - 1]
  BY <1>3, SubSeqProperties
<1> HIDE DEF l, r
<1>6. ASSUME NEW x \in 1 .. Len(l) PROVE l[x] = r[x]
  <2>1. x \in 1 .. j - i + 1 /\ i + x - 1 \in i .. j
    BY <1>4
  <2> QED BY <1>3, <1>4, <1>5, <2>1
<1>7. l = r
  BY <1>4, <1>5, <1>6, SeqEqual
<1> QED BY <1>5, <1>7 DEF l, r, f

(* A front of a front is a front. *)
LEMMA FrontOfFront ==
    ASSUME NEW s \in Seq(Byte), NEW n \in 0 .. Len(s), NEW m \in 0 .. n
    PROVE  Front(Front(s, n), m) = Front(s, m)
<1>1. 1 \in Nat \ {0} /\ m \in Int /\ m <= n
  BY LenProperties
<1> QED BY <1>1, PieceOfFront DEF Front

(* A sequence is any front of it followed by the rest. *)
LEMMA FrontAndRest ==
    ASSUME NEW s \in Seq(Byte), NEW n \in 0 .. Len(s)
    PROVE  s = Front(s, n) \o SubSeq(s, n + 1, Len(s))
<1>1. Len(s) \in Nat
  BY LenProperties
<1>2. 1 \in 1 .. Len(s) + 1 /\ n \in 1 - 1 .. Len(s) /\ Len(s) \in n .. Len(s)
  BY <1>1
<1>3. SubSeq(s, 1, n) \o SubSeq(s, n + 1, Len(s)) = SubSeq(s, 1, Len(s))
  BY <1>2, ConcatAdjacentSubSeq
<1> QED BY <1>3, SubSeqFull DEF Front

-----------------------------------------------------------------------------
(* Where a frame ends. *)

(* Every nonempty set of numbers has a least element. *)
LEMMA LeastElement ==
    ASSUME NEW T \in SUBSET Nat, T # {}
    PROVE  \E x \in T : \A y \in T : x <= y
<1>1. IsWellFoundedOn(OpToRel(<, Nat), Nat)
  BY NatLessThanWellFounded
<1>2. PICK x \in T : \A y \in T : ~ (<< y, x >> \in OpToRel(<, Nat))
  BY <1>1, WFMin
<1>3. \A y \in T : << y, x >> \in OpToRel(<, Nat) <=> y < x
  BY DEF OpToRel
<1>4. \A y \in T : ~ (y < x)
  BY <1>2, <1>3
<1>5. x \in T /\ T \subseteq Nat
  OBVIOUS
<1>6. \A y \in T : x <= y
  BY <1>4, <1>5, SMT
<1> QED BY <1>5, <1>6

(* Prefix and message before the sum is cut to 32 bits. *)
Total(bytes) == PrefixLen + LengthField[Front(bytes, PrefixLen)]

(* The announced length of a message counts its prefix. *)
LEMMA TotalTyped ==
    ASSUME NEW bytes \in Seq(Byte), PrefixLen <= Len(bytes)
    PROVE  Total(bytes) \in Nat /\ PrefixLen <= Total(bytes)
<1>1. PrefixLen \in 0 .. Len(bytes) /\ PrefixLen \in Nat /\ Span \in Nat
  BY FramingAssumption, LenProperties
<1>2. Front(bytes, PrefixLen) \in [1 .. PrefixLen -> Byte]
  BY <1>1, FrontElements, LenProperties
<1>3. LengthField[Front(bytes, PrefixLen)] \in 0 .. Span - 1
  BY <1>2, FramingAssumption DEF Prefix
<1> QED BY <1>1, <1>3 DEF Total

(* Delimiters are sequences that are not empty. *)
LEMMA DelimiterTyped ==
    ASSUME NEW delimiter \in Delimiters
    PROVE  delimiter \in Seq(Byte) /\ Len(delimiter) \in Nat \ {0}
BY FramingAssumption, EmptySeq

(* The delimiter occurs in a front where it occurs in the sequence. *)
LEMMA OccursInFront ==
    ASSUME NEW bytes \in Seq(Byte), NEW n \in 0 .. Len(bytes), NEW delimiter \in Delimiters
    PROVE  Occurs(Front(bytes, n), delimiter) <=>
             \E pos \in 0 .. n - Len(delimiter) : MatchesAt(bytes, delimiter, pos)
<1>1. Len(Front(bytes, n)) = n /\ Len(delimiter) \in Nat /\ n \in Nat
  BY FrontElements, DelimiterTyped, LenProperties
<1>2. ASSUME NEW pos \in 0 .. n - Len(delimiter)
      PROVE  MatchesAt(Front(bytes, n), delimiter, pos) <=> MatchesAt(bytes, delimiter, pos)
  <2>1. pos + 1 \in Nat \ {0} /\ pos + Len(delimiter) \in Int /\ pos + Len(delimiter) <= n
    BY <1>1
  <2>2. SubSeq(Front(bytes, n), pos + 1, pos + Len(delimiter))
          = SubSeq(bytes, pos + 1, pos + Len(delimiter))
    BY <2>1, PieceOfFront
  <2> QED BY <2>2 DEF MatchesAt
<1> QED BY <1>1, <1>2 DEF Occurs

(* A frame is a front of bytes and no shorter front is one. *)
FirstFrame(bytes, end) ==
    /\ end \in 1 .. Len(bytes)
    /\ IsFrame(Front(bytes, end))
    /\ \A n \in 1 .. end - 1 : ~ IsFrame(Front(bytes, n))

Wraps(bytes) == decoder.kind = "prefix" /\ PrefixLen <= Len(bytes) /\ Total(bytes) >= Span

(* The length prefix. *)
LEMMA PrefixFrame ==
    ASSUME NEW bytes \in Seq(Byte), decoder.kind = "prefix"
    PROVE  /\ FrameEnd(bytes) = {} => \A n \in 1 .. Len(bytes) : ~ IsFrame(Front(bytes, n))
           /\ \A end \in FrameEnd(bytes) :
                /\ end \in 0 .. Len(bytes)
                /\ PrefixLen <= Len(bytes)
                /\ Overruns(bytes) => Wraps(bytes)
                /\ ~ Wraps(bytes) => FirstFrame(bytes, end) /\ PrefixLen <= end
<1>0. PrefixLen \in Nat \ {0} /\ Span \in Nat /\ PrefixLen < Span /\ Len(bytes) \in Nat
  BY FramingAssumption, LenProperties
<1>1. FrameEnd(bytes) = IF Len(bytes) < PrefixLen
                        THEN {}
                        ELSE {Total(bytes) % Span} \cap 0 .. Len(bytes)
  BY DEF FrameEnd, PrefixEnd, Total
<1>2. ASSUME NEW n \in 1 .. Len(bytes)
      PROVE  IsFrame(Front(bytes, n)) <=> PrefixLen <= n /\ n = Total(bytes)
  <2>1. n \in 0 .. Len(bytes) /\ Len(Front(bytes, n)) = n
    BY <1>0, FrontElements
  <2>2. PrefixLen <= n => Front(Front(bytes, n), PrefixLen) = Front(bytes, PrefixLen)
    BY <1>0, <2>1, FrontOfFront
  <2> QED BY <2>1, <2>2 DEF IsFrame, Total
<1>3. CASE Len(bytes) < PrefixLen
  <2>1. FrameEnd(bytes) = {}
    BY <1>1, <1>3
  <2>2. \A n \in 1 .. Len(bytes) : ~ (PrefixLen <= n)
    BY <1>0, <1>3
  <2> QED BY <1>2, <2>1, <2>2
<1>4. CASE ~ (Len(bytes) < PrefixLen)
  <2> DEFINE total == Total(bytes)
  <2>1. PrefixLen <= Len(bytes) /\ total \in Nat /\ PrefixLen <= total
    BY <1>0, <1>4, TotalTyped
  <2>2. FrameEnd(bytes) = {total % Span} \cap 0 .. Len(bytes)
    BY <1>1, <1>4
  <2>3. Overruns(bytes) <=> total > Len(bytes)
    BY DEF Overruns, Total
  <2>4. Wraps(bytes) <=> total >= Span
    BY <2>1 DEF Wraps
  <2> HIDE DEF total
  <2>5. total % Span \in Nat /\ total % Span <= total /\ (total < Span => total % Span = total)
    BY <1>0, <2>1
  <2>6. ASSUME FrameEnd(bytes) = {}, NEW n \in 1 .. Len(bytes)
        PROVE  ~ IsFrame(Front(bytes, n))
    <3>1. ~ (total % Span <= Len(bytes))
      BY <1>0, <2>2, <2>5, <2>6
    <3>2. n # total
      BY <1>0, <2>1, <2>5, <3>1
    <3> QED BY <1>2, <3>2 DEF total
  <2>7. ASSUME NEW end \in FrameEnd(bytes)
        PROVE  /\ end \in 0 .. Len(bytes)
               /\ PrefixLen <= Len(bytes)
               /\ Overruns(bytes) => Wraps(bytes)
               /\ ~ Wraps(bytes) => FirstFrame(bytes, end) /\ PrefixLen <= end
    <3>1. end \in 0 .. Len(bytes) /\ end = total % Span
      BY <2>2
    <3>2. total > Len(bytes) => total >= Span
      BY <1>0, <2>1, <2>5, <3>1
    <3>3. ASSUME total < Span PROVE FirstFrame(bytes, end) /\ PrefixLen <= end
      <4>1. end = total /\ end \in 1 .. Len(bytes) /\ PrefixLen <= end
        BY <1>0, <2>1, <2>5, <3>1, <3>3
      <4>2. IsFrame(Front(bytes, end))
        BY <1>2, <2>1, <4>1 DEF total
      <4>3. \A n \in 1 .. end - 1 : ~ IsFrame(Front(bytes, n))
        <5>1. \A n \in 1 .. end - 1 : n \in 1 .. Len(bytes) /\ n # total
          BY <1>0, <4>1
        <5> QED BY <1>2, <5>1 DEF total
      <4> QED BY <4>1, <4>2, <4>3 DEF FirstFrame
    <3>4. total < Span \/ total >= Span
      BY <1>0, <2>1
    <3> QED BY <2>1, <2>3, <2>4, <3>1, <3>2, <3>3, <3>4
  <2> QED BY <2>6, <2>7
<1> QED BY <1>3, <1>4

(* The delimiter. *)
LEMMA DelimiterFrame ==
    ASSUME NEW bytes \in Seq(Byte), decoder.kind = "delimiter", decoder.delimiter \in Delimiters
    PROVE  /\ FrameEnd(bytes) = {} => \A n \in 1 .. Len(bytes) : ~ IsFrame(Front(bytes, n))
           /\ \A end \in FrameEnd(bytes) : FirstFrame(bytes, end)
<1> DEFINE d == decoder.delimiter
           found == {pos \in 0 .. Len(bytes) - Len(d) : MatchesAt(bytes, d, pos)}
           first == {p \in found : \A q \in found : p <= q}
<1>0. Len(bytes) \in Nat /\ Len(d) \in Nat \ {0}
  BY DelimiterTyped, LenProperties
<1>1. FrameEnd(bytes) = {pos + Len(d) : pos \in first}
  BY DEF FrameEnd, DelimiterEnd
<1>2. ASSUME NEW n \in 1 .. Len(bytes)
      PROVE  IsFrame(Front(bytes, n)) <=> \E pos \in 0 .. n - Len(d) : MatchesAt(bytes, d, pos)
  <2>1. n \in 0 .. Len(bytes)
    BY <1>0
  <2>2. IsFrame(Front(bytes, n)) <=> Occurs(Front(bytes, n), d)
    BY DEF IsFrame
  <2> QED BY <2>1, <2>2, OccursInFront
<1>3. found \in SUBSET Nat
  BY <1>0
<1>4. ASSUME FrameEnd(bytes) = {}, NEW n \in 1 .. Len(bytes)
      PROVE  ~ IsFrame(Front(bytes, n))
  <2>1. first = {}
    BY <1>1, <1>4
  <2>2. found = {}
    <3> HIDE DEF found
    <3> QED BY <1>3, <2>1, LeastElement
  <2>3. \A pos \in 0 .. n - Len(d) : pos \in 0 .. Len(bytes) - Len(d)
    BY <1>0
  <2> QED BY <1>2, <2>2, <2>3
<1>5. ASSUME NEW end \in FrameEnd(bytes) PROVE FirstFrame(bytes, end)
  <2>1. PICK p \in first : end = p + Len(d)
    BY <1>1
  <2>2. /\ p \in 0 .. Len(bytes) - Len(d) /\ MatchesAt(bytes, d, p)
        /\ \A q \in 0 .. Len(bytes) - Len(d) : MatchesAt(bytes, d, q) => p <= q
    OBVIOUS
  <2>3. end \in 1 .. Len(bytes) /\ p \in 0 .. end - Len(d)
    BY <1>0, <2>1, <2>2
  <2>4. IsFrame(Front(bytes, end))
    BY <1>2, <2>2, <2>3
  <2>5. ASSUME NEW n \in 1 .. end - 1 PROVE ~ IsFrame(Front(bytes, n))
    <3>1. n \in 1 .. Len(bytes)
      BY <1>0, <2>3
    <3>2. ASSUME NEW pos \in 0 .. n - Len(d), MatchesAt(bytes, d, pos) PROVE FALSE
      <4>1. pos \in 0 .. Len(bytes) - Len(d) /\ pos < p
        BY <1>0, <2>1, <2>2, <2>3, <3>1
      <4>2. p <= pos
        BY <2>2, <3>2, <4>1
      <4> QED BY <2>2, <4>1, <4>2, <1>0
    <3> QED BY <1>2, <3>1, <3>2
  <2> QED BY <2>3, <2>4, <2>5 DEF FirstFrame
<1> QED BY <1>4, <1>5

(* Whatever the decoder: if it takes nothing, no frame is complete; if it
   takes something, then the first frame, unless the 32-bit sum wraps. *)
LEMMA FrameEndIsFirstFrame ==
    ASSUME NEW bytes \in Seq(Byte), decoder \in Decoders
    PROVE  /\ FrameEnd(bytes) = {} => \A n \in 1 .. Len(bytes) : ~ IsFrame(Front(bytes, n))
           /\ \A end \in FrameEnd(bytes) :
                /\ end \in 0 .. Len(bytes)
                /\ Overruns(bytes) => Wraps(bytes)
                /\ ~ Wraps(bytes) => FirstFrame(bytes, end) /\ HeaderLen <= end
<1>0. Len(bytes) \in Nat
  BY LenProperties
<1>1. CASE decoder.kind = "prefix"
  BY <1>1, PrefixFrame DEF HeaderLen
<1>2. CASE decoder.kind = "none"
  BY <1>2 DEF FrameEnd, IsFrame
<1>3. CASE decoder.kind = "delimiter"
  <2>1. decoder.delimiter \in Delimiters
    BY <1>3 DEF Decoders
  <2>2. /\ FrameEnd(bytes) = {} => \A n \in 1 .. Len(bytes) : ~ IsFrame(Front(bytes, n))
        /\ \A end \in FrameEnd(bytes) : FirstFrame(bytes, end)
    BY <1>3, <2>1, DelimiterFrame
  <2>3. \A end \in 1 .. Len(bytes) : end \in 0 .. Len(bytes) /\ 0 <= end
    BY <1>0
  <2>4. ~ Overruns(bytes) /\ HeaderLen = 0
    BY <1>3 DEF Overruns, HeaderLen
  <2> QED BY <2>2, <2>3, <2>4 DEF FirstFrame
<1>4. decoder.kind \in {"none", "prefix", "delimiter"}
  BY DEF Decoders
<1> QED BY <1>1, <1>2, <1>3, <1>4

-----------------------------------------------------------------------------
(* The invariant of the input path. *)

FramingInv ==
    /\ TypeOK
    /\ Len(fed) <= MaxFed
    /\ StreamConserved
    /\ NoMessageWaits
    /\ HalfPacketsKept

(* The empty buffer satisfies the invariant. *)
LEMMA FramingInit == Init => FramingInv
<1> SUFFICES ASSUME Init PROVE FramingInv
  OBVIOUS
<1>1. /\ << >> \in Seq(Byte) /\ Len(<< >>) = 0 /\ << >> \in Seq(Seq(Byte))
      /\ SubSeq(<< >>, 1, 0) = << >>
  BY EmptySeq, SubSeqEmpty
<1>2. Input!TypeOK /\ Input!Unread = << >>
  BY <1>1 DEF Init, Input!Init, Input!TypeOK, Input!Unread
<1>3. TypeOK
  BY <1>1, <1>2 DEF Init, TypeOK
<1>4. StreamConserved
  BY <1>1, <1>2, ConcatEmptySeq DEF Init, StreamConserved
<1>5. NoMessageWaits
  BY <1>1, <1>2 DEF NoMessageWaits
<1>6. HalfPacketsKept
  BY DEF Init, HalfPacketsKept
<1> QED BY <1>1, <1>3, <1>4, <1>5, <1>6, FramingAssumption DEF Init, FramingInv

(* A recv appends to the buffer and to the stream; the decode loop starts. *)
LEMMA ReceiveStep ==
    ASSUME FramingInv, NEW data \in Chunks, Receive(data)
    PROVE  FramingInv'
<1>0. TypeOK /\ StreamConserved
  BY DEF FramingInv
<1>1. /\ data \in Seq(Byte) /\ Input!TypeOK' /\ Input!Unread' = Input!Unread \o data
      /\ Input!Unread \in Seq(Byte) /\ fed \in Seq(Byte) /\ consumed \in Seq(Byte)
  BY <1>0, InputAdd, InputUnread DEF Receive, TypeOK
<1>2. /\ fed' = fed \o data /\ pc' = "receiving"
      /\ UNCHANGED << decoder, consumed, messages >>
      /\ Len(fed) + Len(data) <= MaxFed
  BY DEF Receive
<1>3. fed' \in Seq(Byte) /\ Len(fed') = Len(fed) + Len(data)
  BY <1>1, <1>2, ConcatProperties
<1>4. TypeOK'
  BY <1>0, <1>1, <1>2, <1>3 DEF TypeOK
<1>5. StreamConserved'
  BY <1>0, <1>1, <1>2, ConcatAssociative DEF StreamConserved
<1> QED BY <1>2, <1>3, <1>4, <1>5 DEF FramingInv, NoMessageWaits, HalfPacketsKept

(* The loop ends only if the decoder has found nothing. *)
LEMMA StopStep ==
    ASSUME FramingInv, FrameEnd(Input!Unread) = {}, StopDecoding, UNCHANGED << decoder, fed >>
    PROVE  FramingInv'
<1>0. TypeOK /\ StreamConserved /\ Input!Unread \in Seq(Byte) /\ decoder \in Decoders
  BY InputUnread DEF FramingInv, TypeOK
<1>1. pc' = "idle" /\ UNCHANGED << buffer_, read_index_, asked, consumed, messages, decoder, fed >>
  BY DEF StopDecoding
<1>2. Input!Unread' = Input!Unread /\ Input!TypeOK'
  BY <1>0, <1>1 DEF Input!Unread, Input!TypeOK, TypeOK
<1>3. TypeOK'
  BY <1>0, <1>1, <1>2 DEF TypeOK
<1>4. StreamConserved'
  BY <1>0, <1>1, <1>2 DEF StreamConserved
<1>5. \A n \in 1 .. Len(Input!Unread) : ~ IsFrame(Front(Input!Unread, n))
  BY <1>0, FrameEndIsFirstFrame
<1>6. NoMessageWaits'
  BY <1>1, <1>2, <1>5 DEF NoMessageWaits, IsFrame
<1> QED BY <1>1, <1>3, <1>4, <1>6 DEF FramingInv, HalfPacketsKept

(* A frame goes from the buffer to the decoder. *)
LEMMA DecodeStep ==
    ASSUME FramingInv, NEW end \in FrameEnd(Input!Unread), Decode(end), UNCHANGED << decoder, fed >>
    PROVE  /\ FramingInv'
           /\ end \in 0 .. Len(Input!Unread)
           /\ Input!Unread' = SubSeq(Input!Unread, end + 1, Len(Input!Unread))
<1> DEFINE unread == Input!Unread
           front == Front(unread, end)
           rest == SubSeq(unread, end + 1, Len(unread))
<1>0. /\ TypeOK /\ StreamConserved /\ unread \in Seq(Byte) /\ decoder \in Decoders
      /\ consumed \in Seq(Byte) /\ messages \in Seq(Seq(Byte)) /\ Len(unread) \in Nat
  BY InputUnread DEF FramingInv, TypeOK
<1>1. end \in 0 .. Len(unread)
  BY <1>0, FrameEndIsFirstFrame
<1>2. Input!TypeOK' /\ Input!Unread' = rest
  BY <1>0, <1>1, InputFetch DEF Decode, TypeOK
<1>3. front \in Seq(Byte) /\ rest \in Seq(Byte) /\ unread = front \o rest
  <2>1. rest \in Seq(Byte)
    BY <1>0, <1>1, InputFacts!SuffixElements, InputAssumption
  <2> QED BY <1>0, <1>1, <2>1, FrontElements, FrontAndRest
<1>4. /\ messages' = Append(messages, SubSeq(unread, HeaderLen + 1, end))
      /\ consumed' = consumed \o front /\ pc' = "decoding"
  BY DEF Decode
<1>5. SubSeq(unread, HeaderLen + 1, end) \in Seq(Byte)
  <2>1. HeaderLen + 1 \in Nat \ {0}
    BY FramingAssumption DEF HeaderLen
  <2>2. end \in Int /\ end <= Len(unread) /\ Len(unread) \in 0 .. Len(unread)
    BY <1>0, <1>1
  <2> QED BY <1>0, <2>1, <2>2, PieceOfFront
<1>6. messages' \in Seq(Seq(Byte)) /\ consumed' \in Seq(Byte)
  BY <1>0, <1>3, <1>4, <1>5, AppendProperties, ConcatProperties
<1>7. TypeOK'
  BY <1>0, <1>2, <1>4, <1>6 DEF TypeOK
<1> HIDE DEF unread, front, rest
<1>8. StreamConserved'
  <2>1. fed' = consumed \o unread
    BY <1>0 DEF StreamConserved, unread
  <2>2. consumed' \o Input!Unread' = consumed \o (front \o rest)
    <3>1. consumed' \o Input!Unread' = (consumed \o front) \o rest
      BY <1>2, <1>4
    <3>2. (consumed \o front) \o rest = consumed \o (front \o rest)
      BY <1>0, <1>3, ConcatAssociative
    <3> QED BY <3>1, <3>2
  <2> QED BY <1>3, <2>1, <2>2 DEF StreamConserved
<1>9. FramingInv'
  BY <1>4, <1>7, <1>8 DEF FramingInv, NoMessageWaits, HalfPacketsKept
<1> QED BY <1>1, <1>2, <1>9 DEF unread, rest

(* Only a sum that wraps leads the decoder beyond the readable bytes. *)
LEMMA OverrunStep ==
    ASSUME FramingInv, NEW end \in FrameEnd(Input!Unread), Overruns(Input!Unread), Overrun,
           UNCHANGED << decoder, fed >>
    PROVE  FramingInv'
<1>0. TypeOK /\ StreamConserved /\ Input!Unread \in Seq(Byte) /\ decoder \in Decoders
  BY InputUnread DEF FramingInv, TypeOK
<1>1. /\ pc' = "undefined"
      /\ UNCHANGED << buffer_, read_index_, asked, consumed, messages, decoder, fed >>
  BY DEF Overrun
<1>2. Input!Unread' = Input!Unread /\ Input!TypeOK'
  BY <1>0, <1>1 DEF Input!Unread, Input!TypeOK, TypeOK
<1>3. TypeOK'
  BY <1>0, <1>1, <1>2 DEF TypeOK
<1>4. StreamConserved'
  BY <1>0, <1>1, <1>2 DEF StreamConserved
<1>5. Total(Input!Unread) >= Span
  BY <1>0, FrameEndIsFirstFrame DEF Wraps
<1>6. HalfPacketsKept'
  BY <1>2, <1>5 DEF HalfPacketsKept, Total
<1> QED BY <1>1, <1>3, <1>4, <1>6 DEF FramingInv, NoMessageWaits

(* A stutter keeps the invariant. *)
LEMMA FramingUnchanged ==
    ASSUME FramingInv, UNCHANGED vars
    PROVE  FramingInv'
BY DEF vars, FramingInv, TypeOK, StreamConserved, NoMessageWaits, HalfPacketsKept, IsFrame,
       Occurs, MatchesAt, Front, Input!TypeOK, Input!Unread

(* Every step keeps the invariant. *)
LEMMA FramingNext == FramingInv /\ [Next]_vars => FramingInv'
<1> SUFFICES ASSUME FramingInv, [Next]_vars PROVE FramingInv'
  OBVIOUS
<1>1. ASSUME NEW data \in Chunks, Receive(data) PROVE FramingInv'
  BY <1>1, ReceiveStep
<1>2. CASE DecodeMessage
  <2>1. \/ FrameEnd(Input!Unread) = {} /\ StopDecoding /\ UNCHANGED << decoder, fed >>
        \/ \E end \in FrameEnd(Input!Unread) :
             /\ UNCHANGED << decoder, fed >>
             /\ (Overruns(Input!Unread) /\ Overrun) \/ Decode(end)
    BY <1>2 DEF DecodeMessage
  <2> QED BY <2>1, StopStep, DecodeStep, OverrunStep
<1>3. CASE UNCHANGED vars
  BY <1>3, FramingUnchanged
<1> QED BY <1>1, <1>2, <1>3 DEF Next

(* The invariant holds in every behaviour. *)
LEMMA FramingInvariant == Spec => []FramingInv
<1> QED BY FramingInit, FramingNext, PTL DEF Spec

(* All variables keep their types, the read index stays in the vector. *)
THEOREM FramingTypeOK == Spec => []TypeOK
<1>1. FramingInv => TypeOK
  BY DEF FramingInv
<1> QED BY <1>1, FramingInvariant, PTL

(* The bytes received are those the decoder has taken followed by those in the
   buffer, in the same order: none is lost, repeated or moved by a compaction,
   in the middle of the decode loop or between two calls of recv_data. *)
THEOREM FramingStreamConserved == Spec => []StreamConserved
<1>1. FramingInv => StreamConserved
  BY DEF FramingInv
<1> QED BY <1>1, FramingInvariant, PTL

(* When recv_data returns, no front of the buffer is a complete message,
   whatever the decoder and however the stream was cut. *)
THEOREM FramingNoMessageWaits == Spec => []NoMessageWaits
<1>1. FramingInv => NoMessageWaits
  BY DEF FramingInv
<1> QED BY <1>1, FramingInvariant, PTL

(* The decoder reads beyond the bytes it has only if prefix and message are
   2^32 bytes or longer together: never because a packet is incomplete. *)
THEOREM FramingHalfPacketsKept == Spec => []HalfPacketsKept
<1>1. FramingInv => HalfPacketsKept
  BY DEF FramingInv
<1> QED BY <1>1, FramingInvariant, PTL

-----------------------------------------------------------------------------
(* The messages of a stream.  Framed is defined by recursion on the length of
   the stream; a scan is a function that obeys the recursion, for a decoder
   that is a value instead of a variable. *)

IsFrameFor(dec, bytes) ==
    CASE dec.kind = "none" -> FALSE
      [] dec.kind = "prefix" ->
            /\ PrefixLen <= Len(bytes)
            /\ Len(bytes) = PrefixLen + LengthField[Front(bytes, PrefixLen)]
      [] dec.kind = "delimiter" -> Occurs(bytes, dec.delimiter)

Empty == [frames |-> << >>, rest |-> << >>]

Grown(dec, a, byte) ==
    LET open == Append(a.rest, byte) IN
    IF IsFrameFor(dec, open)
    THEN [frames |-> Append(a.frames, open), rest |-> << >>]
    ELSE [frames |-> a.frames, rest |-> open]

Scan(dec, stream, f) ==
    f = [n \in 0 .. Len(stream) |-> IF n = 0 THEN Empty ELSE Grown(dec, f[n - 1], stream[n])]

(* Scan without its definition as a function: the first value and the step. *)
LEMMA ScanValues ==
    ASSUME NEW dec, NEW stream \in Seq(Byte), NEW f
    PROVE  Scan(dec, stream, f) <=>
             /\ f = [n \in 0 .. Len(stream) |-> f[n]]
             /\ f[0] = Empty
             /\ \A n \in 1 .. Len(stream) : f[n] = Grown(dec, f[n - 1], stream[n])
<1>0. Len(stream) \in Nat
  BY LenProperties
<1> DEFINE N == 0 .. Len(stream)
           e(n) == IF n = 0 THEN Empty ELSE Grown(dec, f[n - 1], stream[n])
<1>1. Scan(dec, stream, f) <=> f = [n \in N |-> e(n)]
  BY DEF Scan
<1>2. /\ 0 \in N /\ e(0) = Empty
      /\ \A n \in 1 .. Len(stream) : n \in N /\ e(n) = Grown(dec, f[n - 1], stream[n])
      /\ \A n \in N : n = 0 \/ n \in 1 .. Len(stream)
  BY <1>0
<1> HIDE DEF N, e
<1>3. f = [n \in N |-> e(n)] <=> f = [n \in N |-> f[n]] /\ \A n \in N : f[n] = e(n)
  OBVIOUS
<1>4. (\A n \in N : f[n] = e(n)) <=>
        /\ f[0] = Empty
        /\ \A n \in 1 .. Len(stream) : f[n] = Grown(dec, f[n - 1], stream[n])
  BY <1>2
<1> QED BY <1>1, <1>3, <1>4 DEF N

(* Two scans of a stream agree: at the least place where they did not, they
   would agree one place before. *)
LEMMA ScanUnique ==
    ASSUME NEW dec, NEW stream \in Seq(Byte), NEW f, NEW g,
           Scan(dec, stream, f), Scan(dec, stream, g)
    PROVE  f[Len(stream)] = g[Len(stream)]
<1> DEFINE differ == {n \in 0 .. Len(stream) : f[n] # g[n]}
<1>0. Len(stream) \in Nat
  BY LenProperties
<1>1. /\ f[0] = Empty /\ \A n \in 1 .. Len(stream) : f[n] = Grown(dec, f[n - 1], stream[n])
      /\ g[0] = Empty /\ \A n \in 1 .. Len(stream) : g[n] = Grown(dec, g[n - 1], stream[n])
  BY ScanValues
<1>2. ASSUME differ # {} PROVE FALSE
  <2>1. differ \in SUBSET Nat
    BY <1>0
  <2>2. PICK m \in differ : \A n \in differ : m <= n
    <3> HIDE DEF differ
    <3> QED BY <1>2, <2>1, LeastElement
  <2>3. m # 0 /\ m \in 0 .. Len(stream) /\ f[m] # g[m]
    BY <1>1
  <2>4. m \in 1 .. Len(stream) /\ m - 1 \in 0 .. Len(stream) /\ ~ (m <= m - 1)
    BY <1>0, <2>3
  <2>5. f[m - 1] = g[m - 1]
    BY <2>2, <2>4
  <2> QED BY <1>1, <2>3, <2>4, <2>5
<1>3. Len(stream) \in 0 .. Len(stream)
  BY <1>0
<1> QED BY <1>2, <1>3

(* Framed is what any scan for the decoder at hand ends with. *)
LEMMA FramedIsScan ==
    ASSUME NEW stream \in Seq(Byte), NEW f, Scan(decoder, stream, f)
    PROVE  Framed(stream) = f[Len(stream)]
<1> DEFINE g == CHOOSE h : Scan(decoder, stream, h)
<1>1. Scan(decoder, stream, g)
  OBVIOUS
<1>2. Framed(stream) = g[Len(stream)]
  BY Zenon DEF Framed, Scan, Grown, Empty, IsFrame, IsFrameFor
<1> HIDE DEF g
<1> QED BY <1>1, <1>2, ScanUnique

NoFrameInside(dec, u) == \A n \in 1 .. Len(u) - 1 : ~ IsFrameFor(dec, Front(u, n))

WithBytes(dec, frames, u) ==
    IF IsFrameFor(dec, u)
    THEN [frames |-> Append(frames, u), rest |-> << >>]
    ELSE [frames |-> frames, rest |-> u]

(* After the last frame of s, bytes u of which only the whole can be a frame
   are one more frame, or the rest. *)
LEMMA ScanExtends ==
    ASSUME NEW dec, NEW s \in Seq(Byte), NEW f, Scan(dec, s, f), f[Len(s)].rest = << >>,
           NEW u \in Seq(Byte), u # << >>, NoFrameInside(dec, u)
    PROVE  \E g : /\ Scan(dec, s \o u, g)
                  /\ g[Len(s \o u)] = WithBytes(dec, f[Len(s)].frames, u)
<1> DEFINE frames == f[Len(s)].frames
           part(n) == [frames |-> frames, rest |-> Front(u, n)]
           end == WithBytes(dec, frames, u)
           a == Len(s)
           b == Len(u)
           value(n) == IF n <= a THEN f[n] ELSE IF n < a + b THEN part(n - a) ELSE end
           g == [n \in 0 .. a + b |-> value(n)]
<1>0. a \in Nat /\ b \in Nat \ {0}
  BY LenProperties, EmptySeq
<1>1. /\ s \o u \in Seq(Byte) /\ Len(s \o u) = a + b
      /\ \A n \in 1 .. a + b : (s \o u)[n] = IF n <= a THEN s[n] ELSE u[n - a]
  BY ConcatProperties
<1>2. /\ f[0] = Empty /\ \A n \in 1 .. a : f[n] = Grown(dec, f[n - 1], s[n])
  BY ScanValues
<1>3. f[a] = part(0)
  <2>1. Front(u, 0) = << >>
    BY SubSeqEmpty DEF Front
  <2>2. f[a] = [frames |-> frames, rest |-> << >>]
    <3>1. \E x, y : f[a] = [frames |-> x, rest |-> y]
      <4>1. CASE a = 0
        BY <1>2, <4>1 DEF Empty
      <4>2. CASE a # 0
        <5>1. f[a] = Grown(dec, f[a - 1], s[a])
          BY <1>0, <1>2, <4>2
        <5> QED BY <5>1 DEF Grown
      <4> QED BY <4>1, <4>2
    <3> QED BY <3>1
  <2> QED BY <2>1, <2>2
<1>4. ASSUME NEW n \in 1 .. b
      PROVE  /\ Append(Front(u, n - 1), u[n]) = Front(u, n)
             /\ Grown(dec, part(n - 1), u[n]) = IF n < b THEN part(n) ELSE end
  <2>1. Append(Front(u, n - 1), u[n]) = Front(u, n)
    <3>1. n - 1 \in 0 .. Len(u) /\ n \in 0 .. Len(u) /\ n - 1 + 1 = n
      BY <1>0
    <3>2. Front(u, n - 1) \in Seq(Byte) /\ u[n] \in Byte
      BY <3>1, FrontElements, ElementOfSeq
    <3>3. /\ Append(Front(u, n - 1), u[n]) \in Seq(Byte)
          /\ Len(Append(Front(u, n - 1), u[n])) = n
          /\ \A i \in 1 .. n - 1 : Append(Front(u, n - 1), u[n])[i] = u[i]
          /\ Append(Front(u, n - 1), u[n])[n] = u[n]
      <4> DEFINE x == Front(u, n - 1)
      <4>1. Len(x) = n - 1 /\ \A i \in 1 .. n - 1 : x[i] = u[i]
        BY <3>1, FrontElements
      <4> HIDE DEF x
      <4>2. /\ Append(x, u[n]) \in Seq(Byte)
            /\ Len(Append(x, u[n])) = Len(x) + 1
            /\ \A i \in 1 .. Len(x) : Append(x, u[n])[i] = x[i]
            /\ Append(x, u[n])[Len(x) + 1] = u[n]
        BY <3>2, AppendProperties DEF x
      <4>3. /\ Append(x, u[n]) \in Seq(Byte)
            /\ Len(Append(x, u[n])) = n
            /\ \A i \in 1 .. n - 1 : Append(x, u[n])[i] = u[i]
            /\ Append(x, u[n])[n] = u[n]
        BY <3>1, <4>1, <4>2
      <4> QED BY <4>3 DEF x
    <3>4. /\ Front(u, n) \in Seq(Byte) /\ Len(Front(u, n)) = n
          /\ \A i \in 1 .. n : Front(u, n)[i] = u[i]
      BY <3>1, FrontElements
    <3>5. \A i \in 1 .. n : i \in 1 .. n - 1 \/ i = n
      BY <1>0
    <3>6. \A i \in 1 .. Len(Front(u, n)) : Append(Front(u, n - 1), u[n])[i] = Front(u, n)[i]
      BY <3>3, <3>4, <3>5
    <3> QED BY <3>3, <3>4, <3>6, SeqEqual
  <2>2. Grown(dec, part(n - 1), u[n]) =
          IF IsFrameFor(dec, Front(u, n))
          THEN [frames |-> Append(frames, Front(u, n)), rest |-> << >>]
          ELSE part(n)
    BY <2>1 DEF Grown
  <2>3. CASE n < b
    <3>1. ~ IsFrameFor(dec, Front(u, n))
      BY <1>0, <2>3 DEF NoFrameInside
    <3> QED BY <2>1, <2>2, <2>3, <3>1
  <2>4. CASE n = b
    <3>1. Front(u, n) = u
      BY <2>4, SubSeqFull DEF Front
    <3> QED BY <2>1, <2>2, <2>4, <3>1, <1>0 DEF WithBytes
  <2> QED BY <1>0, <2>3, <2>4
<1> HIDE DEF part, end, frames
<1>5. ASSUME NEW n \in 1 .. a + b
      PROVE  g[n] = Grown(dec, g[n - 1], (s \o u)[n])
  <2>1. n \in 0 .. a + b /\ n - 1 \in 0 .. a + b
    BY <1>0
  <2>2. g[n] = value(n) /\ g[n - 1] = value(n - 1)
    BY <2>1
  <2>3. CASE n <= a
    <3>1. n - 1 <= a /\ n \in 1 .. a
      BY <1>0, <2>3
    <3>2. g[n] = f[n] /\ g[n - 1] = f[n - 1] /\ (s \o u)[n] = s[n]
      BY <1>1, <2>2, <2>3, <3>1
    <3> QED BY <1>2, <3>1, <3>2
  <2>4. CASE ~ (n <= a)
    <3>1. n - a \in 1 .. b /\ (n - a) - 1 = (n - 1) - a /\ (s \o u)[n] = u[n - a]
      BY <1>0, <1>1, <2>4
    <3>2. g[n - 1] = part((n - a) - 1)
      <4>1. CASE n - 1 <= a
        <5>1. n - 1 = a /\ (n - a) - 1 = 0
          BY <1>0, <2>4, <4>1
        <5> QED BY <1>3, <2>2, <4>1, <5>1
      <4>2. CASE ~ (n - 1 <= a)
        <5>1. n - 1 < a + b
          BY <1>0
        <5> QED BY <2>2, <3>1, <4>2, <5>1
      <4> QED BY <4>1, <4>2
    <3>3. g[n] = IF n - a < b THEN part(n - a) ELSE end
      <4>1. n < a + b <=> n - a < b
        BY <1>0
      <4>2. g[n] = IF n < a + b THEN part(n - a) ELSE end
        BY <2>2, <2>4
      <4> QED BY <4>1, <4>2
    <3> QED BY <1>4, <3>1, <3>2, <3>3
  <2> QED BY <2>3, <2>4
<1>6. g[0] = Empty
  <2>1. 0 \in 0 .. a + b /\ 0 <= a
    BY <1>0
  <2> QED BY <1>2, <2>1
<1>7. g[a + b] = end
  <2>1. a + b \in 0 .. a + b /\ ~ (a + b <= a) /\ ~ (a + b < a + b)
    BY <1>0
  <2> QED BY <2>1
<1> DEFINE next(n) == IF n = 0 THEN Empty ELSE Grown(dec, g[n - 1], (s \o u)[n])
<1>8. ASSUME NEW n \in 0 .. a + b PROVE value(n) = next(n)
  <2>1. value(n) = g[n]
    OBVIOUS
  <2>2. n = 0 \/ n \in 1 .. a + b
    BY <1>0
  <2> HIDE DEF value, g
  <2> QED BY <1>5, <1>6, <2>1, <2>2
<1>9. Scan(dec, s \o u, g)
  <2>1. g = [n \in 0 .. a + b |-> next(n)]
    <3> HIDE DEF value, next
    <3> QED BY <1>8
  <2> QED BY <1>1, <2>1 DEF Scan
<1> HIDE DEF g
<1> QED BY <1>1, <1>7, <1>9 DEF end, frames

-----------------------------------------------------------------------------
(* The callback has had the messages of the bytes consumed, and these end with
   a frame. *)

HeaderFor(dec) == IF dec.kind = "prefix" THEN PrefixLen ELSE 0

Bodies(dec, frames) ==
    [i \in DOMAIN frames |-> SubSeq(frames[i], HeaderFor(dec) + 1, Len(frames[i]))]

ScannedTo(dec, stream, f, frames) ==
    /\ Scan(dec, stream, f)
    /\ f[Len(stream)] = [frames |-> frames, rest |-> << >>]

FramesInv ==
    \E f, frames : /\ ScannedTo(decoder, consumed, f, frames)
                   /\ frames \in Seq(Seq(Byte))
                   /\ messages = Bodies(decoder, frames)

(* Fewer than 2^32 bytes are buffered. *)
BelowSpan == Len(Input!Unread) < Span

(* With fewer than Span bytes in the buffer a sum that wraps reads beyond them. *)
LEMMA NoWrapBelowSpan ==
    ASSUME TypeOK, BelowSpan, ~ Overruns(Input!Unread)
    PROVE  ~ Wraps(Input!Unread)
<1> SUFFICES ASSUME Wraps(Input!Unread) PROVE FALSE
  OBVIOUS
<1>1. Input!Unread \in Seq(Byte) /\ Len(Input!Unread) \in Nat /\ Span \in Nat
  BY InputUnread, FramingAssumption DEF TypeOK
<1>2. PrefixLen <= Len(Input!Unread) /\ Total(Input!Unread) >= Span
  BY DEF Wraps
<1>3. Total(Input!Unread) \in Nat
  BY <1>1, <1>2, TotalTyped
<1>4. ~ (Total(Input!Unread) > Len(Input!Unread))
  BY DEF Wraps, Overruns, Total
<1> QED BY <1>1, <1>2, <1>3, <1>4 DEF BelowSpan

(* One more frame, one more message. *)
LEMMA BodiesAppend ==
    ASSUME NEW dec, NEW frames \in Seq(Seq(Byte)), NEW u \in Seq(Byte)
    PROVE  Bodies(dec, Append(frames, u))
             = Append(Bodies(dec, frames), SubSeq(u, HeaderFor(dec) + 1, Len(u)))
<1> DEFINE body(x) == SubSeq(x, HeaderFor(dec) + 1, Len(x))
           more == Append(frames, u)
           l == Bodies(dec, more)
           r == Append(Bodies(dec, frames), body(u))
<1>0. /\ Len(frames) \in Nat /\ DOMAIN frames = 1 .. Len(frames)
      /\ HeaderFor(dec) + 1 \in Nat \ {0}
  BY LenProperties, FramingAssumption DEF HeaderFor
<1>1. /\ more \in Seq(Seq(Byte)) /\ Len(more) = Len(frames) + 1
      /\ \A i \in 1 .. Len(frames) : more[i] = frames[i]
      /\ more[Len(frames) + 1] = u
  BY AppendProperties
<1>2. DOMAIN more = 1 .. Len(frames) + 1
  BY <1>1, LenProperties
<1>3. ASSUME NEW x \in Seq(Byte) PROVE body(x) \in Seq(Byte)
  <2>1. Len(x) \in Nat /\ Len(x) \in 0 .. Len(x)
    BY LenProperties
  <2> QED BY <1>0, <2>1, PieceOfFront
<1>4. ASSUME NEW n \in Nat, NEW q \in Seq(Seq(Byte)), DOMAIN q = 1 .. n
      PROVE  /\ Bodies(dec, q) \in Seq(Seq(Byte))
             /\ Len(Bodies(dec, q)) = n
             /\ \A i \in 1 .. n : Bodies(dec, q)[i] = body(q[i])
  <2>1. Bodies(dec, q) = [i \in 1 .. n |-> body(q[i])]
    BY <1>4 DEF Bodies
  <2>2. \A i \in 1 .. n : q[i] \in Seq(Byte)
    BY <1>4, LenProperties
  <2> HIDE DEF body
  <2>3. Bodies(dec, q) \in [1 .. n -> Seq(Byte)]
    BY <1>3, <2>1, <2>2
  <2> QED BY <2>1, <2>3
<1> HIDE DEF body, more
<1>5. /\ l \in Seq(Seq(Byte)) /\ Len(l) = Len(frames) + 1
      /\ \A i \in 1 .. Len(frames) + 1 : l[i] = body(more[i])
  BY <1>0, <1>1, <1>2, <1>4
<1>6. /\ Bodies(dec, frames) \in Seq(Seq(Byte)) /\ Len(Bodies(dec, frames)) = Len(frames)
      /\ \A i \in 1 .. Len(frames) : Bodies(dec, frames)[i] = body(frames[i])
  BY <1>0, <1>4
<1>7. /\ r \in Seq(Seq(Byte)) /\ Len(r) = Len(frames) + 1
      /\ \A i \in 1 .. Len(frames) : r[i] = body(frames[i])
      /\ r[Len(frames) + 1] = body(u)
  <2>1. body(u) \in Seq(Byte)
    BY <1>3
  <2> DEFINE b == Bodies(dec, frames)
  <2>2. b \in Seq(Seq(Byte)) /\ Len(b) = Len(frames)
    BY <1>6
  <2> HIDE DEF b
  <2>3. /\ Append(b, body(u)) \in Seq(Seq(Byte)) /\ Len(Append(b, body(u))) = Len(frames) + 1
        /\ \A i \in 1 .. Len(frames) : Append(b, body(u))[i] = b[i]
        /\ Append(b, body(u))[Len(frames) + 1] = body(u)
    BY <2>1, <2>2, AppendProperties
  <2> QED BY <1>6, <2>3 DEF b
<1> HIDE DEF l, r
<1>8. ASSUME NEW i \in 1 .. Len(l) PROVE l[i] = r[i]
  <2>1. i \in 1 .. Len(frames) \/ i = Len(frames) + 1
    BY <1>0, <1>5
  <2>2. i \in 1 .. Len(frames) + 1
    BY <1>5
  <2> QED BY <1>1, <1>5, <1>7, <2>1, <2>2
<1>9. l = r
  BY <1>5, <1>7, <1>8, SeqEqual
<1> QED BY <1>9 DEF l, r, more, body

(* Before the first byte there is no message. *)
LEMMA FramesInit == Init => FramesInv
<1> SUFFICES ASSUME Init PROVE FramesInv
  OBVIOUS
<1>1. consumed = << >> /\ messages = << >> /\ Len(<< >>) = 0
  BY EmptySeq DEF Init
<1> DEFINE f == [n \in 0 .. 0 |-> Empty]
<1>2. \A n \in 0 .. 0 : n = 0
  OBVIOUS
<1>3. Scan(decoder, << >>, f)
  BY <1>1, <1>2 DEF Scan
<1>4. f[Len(<< >>)] = [frames |-> << >>, rest |-> << >>]
  BY <1>1 DEF Empty
<1>5. << >> = Bodies(decoder, << >>) /\ << >> \in Seq(Seq(Byte))
  <2>1. DOMAIN << >> = {} /\ << >> \in Seq(Seq(Byte))
    BY EmptySeq, LenProperties
  <2> QED BY <2>1 DEF Bodies
<1> HIDE DEF f
<1> QED BY <1>1, <1>3, <1>4, <1>5 DEF FramesInv, ScannedTo

(* One turn of the loop makes the next frame of the reference. *)
LEMMA FramesDecode ==
    ASSUME FramingInv, FramesInv, BelowSpan,
           NEW end \in FrameEnd(Input!Unread), ~ Overruns(Input!Unread), Decode(end),
           UNCHANGED decoder
    PROVE  FramesInv'
<1> DEFINE unread == Input!Unread
           u == Front(unread, end)
<1>0. /\ TypeOK /\ unread \in Seq(Byte) /\ decoder \in Decoders /\ consumed \in Seq(Byte)
      /\ Len(unread) \in Nat
  BY InputUnread DEF FramingInv, TypeOK
<1>1. end \in 1 .. Len(unread) /\ IsFrame(u) /\ \A n \in 1 .. end - 1 : ~ IsFrame(Front(unread, n))
  BY <1>0, NoWrapBelowSpan, FrameEndIsFirstFrame DEF FirstFrame
<1>2. end \in 0 .. Len(unread) /\ end \in Nat \ {0}
  BY <1>0, <1>1
<1>3. u \in Seq(Byte) /\ Len(u) = end
  BY <1>0, <1>2, FrontElements
<1>4. u # << >>
  BY <1>2, <1>3, EmptySeq
<1>5. /\ consumed' = consumed \o u
      /\ messages' = Append(messages, SubSeq(unread, HeaderLen + 1, end))
  BY DEF Decode
<1>6. HeaderFor(decoder) = HeaderLen
  BY DEF HeaderFor, HeaderLen
<1>7. SubSeq(u, HeaderLen + 1, Len(u)) = SubSeq(unread, HeaderLen + 1, end)
  <2>1. HeaderLen + 1 \in Nat \ {0} /\ end \in Int /\ end <= end
    BY <1>2, FramingAssumption DEF HeaderLen
  <2> HIDE DEF unread
  <2>2. SubSeq(Front(unread, end), HeaderLen + 1, end) = SubSeq(unread, HeaderLen + 1, end)
    BY <1>0, <1>2, <2>1, PieceOfFront
  <2> QED BY <1>3, <2>2
<1>8. NoFrameInside(decoder, u)
  <2> SUFFICES ASSUME NEW n \in 1 .. Len(u) - 1 PROVE ~ IsFrameFor(decoder, Front(u, n))
    BY DEF NoFrameInside
  <2>1. n \in 0 .. end /\ n \in 1 .. end - 1
    BY <1>2, <1>3
  <2>2. Front(u, n) = Front(unread, n)
    BY <1>0, <1>2, <2>1, FrontOfFront
  <2>3. ~ IsFrame(Front(unread, n))
    BY <1>1, <2>1
  <2> QED BY <2>2, <2>3 DEF IsFrame, IsFrameFor
<1>9. IsFrameFor(decoder, u)
  BY <1>1 DEF IsFrame, IsFrameFor
<1> HIDE DEF u, unread
<1>10. PICK f, frames : /\ ScannedTo(decoder, consumed, f, frames)
                        /\ frames \in Seq(Seq(Byte))
                        /\ messages = Bodies(decoder, frames)
  BY DEF FramesInv
<1>11. /\ f[Len(consumed)].frames = frames /\ f[Len(consumed)].rest = << >>
       /\ Scan(decoder, consumed, f)
  BY <1>10 DEF ScannedTo
<1>12. \E g : /\ Scan(decoder, consumed \o u, g)
              /\ g[Len(consumed \o u)] = [frames |-> Append(frames, u), rest |-> << >>]
  <2>1. PICK g : /\ Scan(decoder, consumed \o u, g)
                 /\ g[Len(consumed \o u)] = WithBytes(decoder, f[Len(consumed)].frames, u)
    BY <1>0, <1>3, <1>4, <1>8, <1>11, ScanExtends
  <2> QED BY <1>9, <1>11, <2>1 DEF WithBytes
<1>13. Append(frames, u) \in Seq(Seq(Byte))
  BY <1>3, <1>10, AppendProperties
<1>14. messages' = Bodies(decoder, Append(frames, u))
  BY <1>3, <1>5, <1>6, <1>7, <1>10, BodiesAppend
<1>15. \E g : ScannedTo(decoder, consumed \o u, g, Append(frames, u))
  BY <1>12 DEF ScannedTo
<1> QED
  BY <1>5, <1>13, <1>14, <1>15 DEF FramesInv

(* Every step keeps what was consumed equal to whole frames of the reference. *)
LEMMA FramesNext == FramingInv /\ FramesInv /\ BelowSpan /\ [Next]_vars => FramesInv'
<1> SUFFICES ASSUME FramingInv, FramesInv, BelowSpan, [Next]_vars PROVE FramesInv'
  OBVIOUS
<1>1. ASSUME UNCHANGED << decoder, consumed, messages >> PROVE FramesInv'
  BY <1>1 DEF FramesInv
<1>2. ASSUME NEW data \in Chunks, Receive(data) PROVE FramesInv'
  BY <1>1, <1>2 DEF Receive
<1>3. CASE DecodeMessage
  <2>1. \/ UNCHANGED << decoder, consumed, messages >>
        \/ \E end \in FrameEnd(Input!Unread) :
             ~ Overruns(Input!Unread) /\ Decode(end) /\ UNCHANGED decoder
    BY <1>3 DEF DecodeMessage, StopDecoding, Overrun
  <2> QED BY <1>1, <2>1, FramesDecode
<1>4. CASE UNCHANGED vars
  BY <1>1, <1>4 DEF vars
<1> QED BY <1>2, <1>3, <1>4 DEF Next

(* When the loop is done, the unread part is the rest of the reference. *)
LEMMA FramesWhenIdle == FramingInv /\ FramesInv => FramesOfStream
<1> SUFFICES ASSUME FramingInv, FramesInv, pc = "idle"
             PROVE  /\ messages = [i \in DOMAIN Framed(fed).frames |-> Body(Framed(fed).frames[i])]
                    /\ Input!Unread = Framed(fed).rest
  BY DEF FramesOfStream
<1> DEFINE unread == Input!Unread
<1>0. /\ unread \in Seq(Byte) /\ decoder \in Decoders /\ consumed \in Seq(Byte) /\ fed \in Seq(Byte)
      /\ fed = consumed \o unread /\ Len(unread) \in Nat
      /\ \A n \in 1 .. Len(unread) : ~ IsFrame(Front(unread, n))
  BY InputUnread DEF FramingInv, TypeOK, StreamConserved, NoMessageWaits
<1>1. \A n \in 1 .. Len(unread) : ~ IsFrameFor(decoder, Front(unread, n))
  BY <1>0 DEF IsFrame, IsFrameFor
<1> HIDE DEF unread
<1>2. PICK f, frames : /\ ScannedTo(decoder, consumed, f, frames)
                       /\ frames \in Seq(Seq(Byte))
                       /\ messages = Bodies(decoder, frames)
  BY DEF FramesInv
<1>3. /\ f[Len(consumed)].frames = frames /\ f[Len(consumed)].rest = << >>
      /\ Scan(decoder, consumed, f)
      /\ f[Len(consumed)] = [frames |-> frames, rest |-> << >>]
  BY <1>2 DEF ScannedTo
<1>4. Framed(fed) = [frames |-> frames, rest |-> unread]
  <2>1. CASE unread = << >>
    <3>1. fed = consumed
      BY <1>0, <2>1, ConcatEmptySeq
    <3> QED BY <1>0, <1>3, <2>1, <3>1, FramedIsScan
  <2>2. CASE unread # << >>
    <3>1. Front(unread, Len(unread)) = unread /\ Len(unread) \in 1 .. Len(unread)
      BY <1>0, <2>2, SubSeqFull, EmptySeq DEF Front
    <3>2. ~ IsFrameFor(decoder, unread)
      BY <1>1, <3>1
    <3>3. NoFrameInside(decoder, unread)
      BY <1>0, <1>1 DEF NoFrameInside
    <3>4. \E g : /\ Scan(decoder, consumed \o unread, g)
                 /\ g[Len(consumed \o unread)] = [frames |-> frames, rest |-> unread]
      <4>1. PICK g : /\ Scan(decoder, consumed \o unread, g)
                     /\ g[Len(consumed \o unread)]
                          = WithBytes(decoder, f[Len(consumed)].frames, unread)
        BY <1>0, <1>3, <2>2, <3>3, ScanExtends
      <4> QED BY <1>3, <3>2, <4>1 DEF WithBytes
    <3> QED BY <1>0, <3>4, FramedIsScan
  <2> QED BY <2>1, <2>2
<1>5. Bodies(decoder, frames) = [i \in DOMAIN frames |-> Body(frames[i])]
  BY DEF Bodies, Body, HeaderFor, HeaderLen
<1> QED BY <1>2, <1>4, <1>5 DEF unread

(* As long as fewer than 2^32 bytes wait in the buffer, the messages given to
   the callback and the bytes left over depend on the stream alone, never on
   how recv cut it into pieces or where the buffer was compacted. *)
THEOREM FramingFramesOfStream == Spec /\ []BelowSpan => []FramesOfStream
<1> QED BY FramesInit, FramesNext, FramesWhenIdle, FramingInvariant, PTL DEF Spec

(* Each turn of the decode loop makes the unread part of the buffer shorter. *)
EachTurnConsumes == [][pc' = "decoding" => Len(Input!Unread') < Len(Input!Unread)]_vars

(* The safety half of DecodingEnds: with fewer than 2^32 bytes in the buffer no
   turn of the loop in recv_data makes a message without fetching a byte, so the
   loop takes at most as many turns as there are bytes (Connection.cpp:50-63). *)
THEOREM FramingEachTurnConsumes == Spec /\ []BelowSpan => EachTurnConsumes
<1>1. ASSUME FramingInv, BelowSpan, Next, pc' = "decoding"
      PROVE  Len(Input!Unread') < Len(Input!Unread)
  <2> DEFINE unread == Input!Unread
  <2>0. unread \in Seq(Byte) /\ Len(unread) \in Nat /\ decoder \in Decoders
    BY <1>1, InputUnread DEF FramingInv, TypeOK
  <2>1. PICK end \in FrameEnd(unread) :
          ~ Overruns(unread) /\ Decode(end) /\ UNCHANGED << decoder, fed >>
    BY <1>1 DEF Next, Receive, DecodeMessage, StopDecoding, Overrun
  <2>2. end \in 0 .. Len(unread) /\ Input!Unread' = SubSeq(unread, end + 1, Len(unread))
    BY <1>1, <2>1, DecodeStep
  <2>3. ~ Wraps(unread)
    BY <1>1, <2>1, NoWrapBelowSpan DEF FramingInv
  <2>4. end >= 1
    BY <2>0, <2>1, <2>3, FrameEndIsFirstFrame DEF FirstFrame
  <2>5. Len(SubSeq(unread, end + 1, Len(unread))) = Len(unread) - end
    BY <2>0, <2>2, InputFacts!SuffixElements, InputAssumption
  <2> HIDE DEF unread
  <2>6. Len(Input!Unread') < Len(unread)
    BY <2>0, <2>2, <2>4, <2>5
  <2> QED BY <2>6 DEF unread
<1>2. FramingInv /\ BelowSpan /\ [Next]_vars =>
        [pc' = "decoding" => Len(Input!Unread') < Len(Input!Unread)]_vars
  BY <1>1
<1> QED BY <1>2, FramingInvariant, PTL DEF Spec, EachTurnConsumes

-----------------------------------------------------------------------------
(* recv_data and its decoder use the input buffer as Buffer says, which is how the
   facts about Buffer become facts about connections. *)

(* Every step of the decode loop is a step of its input buffer, or leaves it alone. *)
LEMMA InputStep ==
    ASSUME FramingInv, [Next]_vars
    PROVE  [Input!Next]_(Input!vars)
<1>0. /\ Input!TypeOK /\ Len(Input!Unread) \in Nat /\ decoder \in Decoders
      /\ fed = consumed \o Input!Unread /\ consumed \in Seq(Byte)
      /\ Input!Unread \in Seq(Byte) /\ Len(fed) <= MaxFed
  BY InputUnread DEF FramingInv, TypeOK, StreamConserved
<1>1. Len(Input!Unread) <= MaxFed /\ MaxFed \in Nat
  <2>1. Len(fed) = Len(consumed) + Len(Input!Unread) /\ Len(consumed) \in Nat
    BY <1>0, ConcatProperties, LenProperties
  <2> QED BY <1>0, <2>1, FramingAssumption
<1>2. ASSUME NEW data \in Chunks, Receive(data) PROVE Input!Next
  BY <1>2 DEF Receive, Input!Next
<1>3. CASE DecodeMessage
  <2>1. ASSUME NEW end \in FrameEnd(Input!Unread), Decode(end) PROVE Input!Next
    <3>1. end \in 0 .. MaxFed + 1
      <4>1. end \in 0 .. Len(Input!Unread)
        BY <1>0, <2>1, FrameEndIsFirstFrame
      <4> QED BY <1>0, <1>1, <4>1
    <3> QED BY <2>1, <3>1 DEF Decode, Input!Next
  <2>2. CASE StopDecoding \/ Overrun
    BY <2>2 DEF StopDecoding, Overrun, Input!vars
  <2> QED BY <1>3, <2>1, <2>2 DEF DecodeMessage
<1>4. CASE UNCHANGED vars
  BY <1>4 DEF vars, Input!vars
<1> QED BY <1>2, <1>3, <1>4 DEF Next

(* Inside a connection the input buffer goes through the behaviours of Buffer and
   no others: whatever decoder drives it, it is a FIFO queue of bytes, and the bytes
   it has consumed never pile up in front of the unread ones (Connection.cpp:19-63,
   Buffer.cpp:3-31). *)
THEOREM FramingInputIsBuffer ==
    Spec => /\ Input!Spec
            /\ InputFacts!ImplementsByteQueue
            /\ []InputFacts!DeadPrefixBounded
<1>1. Init => InputFacts!Init /\ Input!Init
  BY DEF Init, Input!Init, InputFacts!Init
<1>2. FramingInv /\ [Next]_vars => [Input!Next]_(Input!vars)
  BY InputStep
<1>3. Spec => Input!Spec
  BY <1>1, <1>2, FramingInvariant, PTL DEF Spec, Input!Spec
<1>4. [Input!Next]_(Input!vars) => [InputFacts!Next]_(InputFacts!vars)
  BY DEF Input!Next, InputFacts!Next, Input!vars, InputFacts!vars, Input!AddData,
         InputFacts!AddData, Input!Fetch, InputFacts!Fetch, Input!Settle, InputFacts!Settle,
         Input!ReadAbleBytes, InputFacts!ReadAbleBytes
<1>5. Spec => InputFacts!Spec
  BY <1>1, <1>2, <1>4, FramingInvariant, PTL DEF Spec, InputFacts!Spec
<1>6. InputFacts!Spec => InputFacts!ImplementsByteQueue
  BY InputAssumption, InputFacts!BufferRefinement
<1>7. InputFacts!Spec => []InputFacts!DeadPrefixBounded
  BY InputAssumption, InputFacts!BufferDeadPrefix
<1> QED BY <1>3, <1>5, <1>6, <1>7, PTL
=============================================================================
