---------------------------- MODULE BufferProofs ----------------------------
(***************************************************************************)
(* For every set of bytes, every chunking, every threshold and every bound *)
(* the buffer's dead prefix is bounded and the buffer is a FIFO queue.     *)
(***************************************************************************)
EXTENDS Buffer, SequenceTheorems, TLAPS

(* The elements of a suffix. *)
LEMMA SuffixElements ==
    ASSUME NEW s \in Seq(Byte), NEW n \in 0 .. Len(s)
    PROVE  /\ SubSeq(s, n + 1, Len(s)) \in Seq(Byte)
           /\ Len(SubSeq(s, n + 1, Len(s))) = Len(s) - n
           /\ \A i \in 1 .. Len(s) - n : SubSeq(s, n + 1, Len(s))[i] = s[n + i]
<1>1. Len(s) \in Nat /\ \A i \in n + 1 .. Len(s) : s[i] \in Byte
  BY LenProperties, ElementOfSeq
<1>2. /\ SubSeq(s, n + 1, Len(s)) \in Seq(Byte)
      /\ Len(SubSeq(s, n + 1, Len(s))) = IF n + 1 <= Len(s) THEN Len(s) - (n + 1) + 1 ELSE 0
      /\ \A i \in 1 .. Len(s) - (n + 1) + 1 : SubSeq(s, n + 1, Len(s))[i] = s[n + 1 + i - 1]
  BY <1>1, SubSeqProperties
<1>3. ASSUME NEW i \in 1 .. Len(s) - n PROVE SubSeq(s, n + 1, Len(s))[i] = s[n + i]
  <2>1. n + 1 + i - 1 = n + i /\ i \in 1 .. Len(s) - (n + 1) + 1
    BY <1>1
  <2> QED BY <1>2, <2>1
<1> QED BY <1>1, <1>2, <1>3

(* Appending leaves the part already read alone: the suffix from any split
   point grows by exactly the appended part. *)
LEMMA SuffixOfConcat ==
    ASSUME NEW s \in Seq(Byte), NEW t \in Seq(Byte), NEW n \in 0 .. Len(s)
    PROVE  SubSeq(s \o t, n + 1, Len(s \o t)) = SubSeq(s, n + 1, Len(s)) \o t
<1> DEFINE st == s \o t
           u == SubSeq(s, n + 1, Len(s))
           l == SubSeq(st, n + 1, Len(st))
           r == u \o t
<1>0. Len(s) \in Nat /\ Len(t) \in Nat
  BY LenProperties
<1>1. /\ st \in Seq(Byte) /\ Len(st) = Len(s) + Len(t)
      /\ \A i \in 1 .. Len(s) + Len(t) :
             st[i] = IF i <= Len(s) THEN s[i] ELSE t[i - Len(s)]
  BY ConcatProperties
<1>2. /\ u \in Seq(Byte) /\ Len(u) = Len(s) - n
      /\ \A i \in 1 .. Len(s) - n : u[i] = s[n + i]
  BY SuffixElements
<1> HIDE DEF st, u
<1>3. /\ l \in Seq(Byte) /\ Len(l) = Len(st) - n
      /\ \A i \in 1 .. Len(st) - n : l[i] = st[n + i]
  BY <1>0, <1>1, SuffixElements
<1>4. /\ r \in Seq(Byte) /\ Len(r) = Len(u) + Len(t)
      /\ \A i \in 1 .. Len(u) + Len(t) :
             r[i] = IF i <= Len(u) THEN u[i] ELSE t[i - Len(u)]
  BY <1>2, ConcatProperties
<1> HIDE DEF l, r
<1>5. Len(l) = Len(r)
  BY <1>0, <1>1, <1>2, <1>3, <1>4
<1>6. ASSUME NEW i \in 1 .. Len(l) PROVE l[i] = r[i]
  <2>1. i \in 1 .. Len(s) + Len(t) - n
    BY <1>0, <1>1, <1>3
  <2>2. l[i] = IF n + i <= Len(s) THEN s[n + i] ELSE t[n + i - Len(s)]
    BY <1>0, <1>1, <1>3, <2>1
  <2>3. r[i] = IF i <= Len(s) - n THEN u[i] ELSE t[i - (Len(s) - n)]
    BY <1>0, <1>2, <1>4, <2>1
  <2>4. CASE i <= Len(s) - n
    BY <1>0, <1>2, <2>1, <2>2, <2>3, <2>4
  <2>5. CASE ~ (i <= Len(s) - n)
    <3>1. n + i - Len(s) = i - (Len(s) - n)
      BY <1>0
    <3> QED BY <1>0, <2>1, <2>2, <2>3, <2>5, <3>1
  <2> QED BY <2>4, <2>5
<1>7. l = r
  BY <1>3, <1>4, <1>5, <1>6, SeqEqual
<1> QED
  BY <1>7 DEF l, r, st, u

(* A suffix of a suffix is a suffix. *)
LEMMA SuffixOfSuffix ==
    ASSUME NEW s \in Seq(Byte), NEW n \in 0 .. Len(s), NEW m \in 0 .. Len(s) - n
    PROVE  SubSeq(SubSeq(s, n + 1, Len(s)), m + 1, Len(s) - n)
             = SubSeq(s, n + m + 1, Len(s))
<1> DEFINE u == SubSeq(s, n + 1, Len(s))
           l == SubSeq(u, m + 1, Len(u))
           r == SubSeq(s, n + m + 1, Len(s))
<1>0. Len(s) \in Nat
  BY LenProperties
<1>1. /\ u \in Seq(Byte) /\ Len(u) = Len(s) - n
      /\ \A i \in 1 .. Len(s) - n : u[i] = s[n + i]
  BY SuffixElements
<1> HIDE DEF u
<1>2. /\ l \in Seq(Byte) /\ Len(l) = Len(u) - m
      /\ \A i \in 1 .. Len(u) - m : l[i] = u[m + i]
  BY <1>0, <1>1, SuffixElements
<1>3. /\ r \in Seq(Byte) /\ Len(r) = Len(s) - (n + m)
      /\ \A i \in 1 .. Len(s) - (n + m) : r[i] = s[n + m + i]
  <2>1. n + m \in 0 .. Len(s)
    BY <1>0
  <2> QED BY <2>1, SuffixElements
<1> HIDE DEF l, r
<1>4. Len(l) = Len(r)
  BY <1>0, <1>1, <1>2, <1>3
<1>5. ASSUME NEW i \in 1 .. Len(l) PROVE l[i] = r[i]
  <2>1. i \in 1 .. Len(s) - (n + m) /\ m + i \in 1 .. Len(s) - n
    BY <1>0, <1>1, <1>2
  <2>2. l[i] = s[n + (m + i)]
    BY <1>0, <1>1, <1>2, <2>1
  <2>3. n + (m + i) = n + m + i
    BY <1>0, <2>1
  <2> QED BY <1>3, <2>1, <2>2, <2>3
<1>6. l = r
  BY <1>2, <1>3, <1>4, <1>5, SeqEqual
<1> QED
  BY <1>1, <1>6 DEF l, r, u

-----------------------------------------------------------------------------
BufferInv == TypeOK /\ DeadPrefixBounded

(* The index fetch moves to stays within the vector, and what it leaves
   unread is the old unread part without its first bytes. *)
LEMMA SettleStep ==
    ASSUME TypeOK, NEW index \in read_index_ .. Len(buffer_), Settle(index), asked' \in Nat
    PROVE  /\ TypeOK'
           /\ Len(buffer_') <= Len(buffer_)
           /\ read_index_' < CompactThreshold
           /\ read_index_' = Len(buffer_') => buffer_' = << >>
           /\ Unread' = SubSeq(buffer_, index + 1, Len(buffer_))
<1> USE BufferAssumption DEF TypeOK, Unread
<1>0. Len(buffer_) \in Nat
  BY LenProperties
<1>1. index \in 0 .. Len(buffer_)
  BY <1>0
<1>2. /\ SubSeq(buffer_, index + 1, Len(buffer_)) \in Seq(Byte)
      /\ Len(SubSeq(buffer_, index + 1, Len(buffer_))) = Len(buffer_) - index
  BY <1>1, SuffixElements
<1>3. << >> \in Seq(Byte) /\ Len(<< >>) = 0
  BY EmptySeq
<1>4. CASE index = Len(buffer_)
  <2>1. buffer_' = << >> /\ read_index_' = 0
    BY <1>4 DEF Settle
  <2>2. SubSeq(buffer_, index + 1, Len(buffer_)) = << >>
    BY <1>0, <1>4, SubSeqEmpty
  <2>3. Unread' = << >>
    <3>1. SubSeq(<< >>, 1, 0) = << >>
      BY SubSeqEmpty
    <3> QED BY <1>3, <2>1, <3>1
  <2>4. TypeOK' /\ Len(buffer_') = 0
    BY <1>3, <2>1
  <2>5. Len(buffer_') <= Len(buffer_) /\ read_index_' < CompactThreshold
    BY <1>0, <2>1, <2>4
  <2> QED BY <2>1, <2>2, <2>3, <2>4, <2>5
<1>5. CASE index # Len(buffer_) /\ index >= CompactThreshold
  <2> DEFINE rest == SubSeq(buffer_, index + 1, Len(buffer_))
  <2>1. buffer_' = rest /\ read_index_' = 0
    BY <1>5 DEF Settle
  <2>2. rest \in Seq(Byte) /\ Len(rest) = Len(buffer_) - index
    BY <1>2
  <2> HIDE DEF rest
  <2>3. Unread' = rest
    <3>1. SubSeq(rest, 1, Len(rest)) = rest
      BY <2>2, SubSeqFull
    <3> QED BY <2>1, <3>1
  <2>4. Len(rest) > 0 /\ Len(rest) <= Len(buffer_)
    BY <1>0, <1>1, <1>5, <2>2
  <2>5. TypeOK' /\ read_index_' # Len(buffer_')
    BY <2>1, <2>2, <2>4
  <2> QED BY <2>1, <2>3, <2>4, <2>5 DEF rest
<1>6. CASE index # Len(buffer_) /\ index < CompactThreshold
  <2>1. buffer_' = buffer_ /\ read_index_' = index
    BY <1>0, <1>6 DEF Settle
  <2> QED BY <1>0, <1>1, <1>6, <2>1
<1>7. CompactThreshold \in Nat /\ index \in Nat
  BY <1>1
<1>8. index < CompactThreshold \/ index >= CompactThreshold
  BY <1>7
<1> QED BY <1>4, <1>5, <1>6, <1>8, Zenon

(* The three facts about an append. *)
LEMMA AddStep ==
    ASSUME TypeOK, NEW data \in Chunks, AddData(data)
    PROVE  /\ data \in Seq(Byte)
           /\ TypeOK'
           /\ Len(buffer_') = Len(buffer_) + Len(data)
           /\ Unread' = Unread \o data
<1> USE BufferAssumption DEF TypeOK
<1>1. data \in Seq(Byte)
  OBVIOUS
<1>2. Len(buffer_) \in Nat /\ Len(data) \in Nat
  BY <1>1, LenProperties
<1>3. buffer_' = buffer_ \o data /\ read_index_' = read_index_
  BY DEF AddData
<1>4. buffer_' \in Seq(Byte) /\ Len(buffer_') = Len(buffer_) + Len(data)
  BY <1>1, <1>3, ConcatProperties
<1>5. Unread' = Unread \o data
  BY <1>1, <1>3, SuffixOfConcat DEF Unread
<1>6. TypeOK'
  <2>1. asked' = 0
    BY DEF AddData
  <2> QED BY <1>2, <1>3, <1>4, <2>1
<1> QED BY <1>1, <1>4, <1>5, <1>6

(* A fetch is a settlement not before the read index and within the vector. *)
Taken(len) == IF len > ReadAbleBytes THEN ReadAbleBytes ELSE len

(* fetch takes a prefix of the unread part and leaves the rest. *)
LEMMA FetchStep ==
    ASSUME TypeOK, NEW len \in Nat, Fetch(len)
    PROVE  /\ Taken(len) \in 0 .. Len(buffer_) - read_index_
           /\ read_index_ + Taken(len) \in read_index_ .. Len(buffer_)
           /\ Settle(read_index_ + Taken(len))
           /\ asked' = len
<1>1. Taken(len) \in 0 .. Len(buffer_) - read_index_
  BY LenProperties DEF TypeOK, ReadAbleBytes, Taken
<1>2. read_index_ + Taken(len) \in read_index_ .. Len(buffer_)
  BY <1>1, LenProperties DEF TypeOK
<1>3. Settle(read_index_ + Taken(len)) /\ asked' = len
  BY DEF Fetch, Taken
<1> QED BY <1>1, <1>2, <1>3

(* The empty buffer satisfies the invariant. *)
LEMMA BufferInvInit == Init => BufferInv
<1>1. << >> \in Seq(Byte) /\ Len(<< >>) = 0
  BY EmptySeq
<1> QED BY <1>1, BufferAssumption DEF Init, BufferInv, TypeOK, DeadPrefixBounded

(* Every step keeps the invariant. *)
LEMMA BufferInvNext == BufferInv /\ [Next]_vars => BufferInv'
<1> SUFFICES ASSUME BufferInv, [Next]_vars PROVE BufferInv'
  OBVIOUS
<1> USE BufferAssumption
<1>0. TypeOK /\ Len(buffer_) \in Nat
  BY LenProperties DEF BufferInv, TypeOK
<1>1. ASSUME NEW data \in Chunks, AddData(data) PROVE BufferInv'
  <2>1. /\ data \in Seq(Byte) /\ TypeOK' /\ Len(buffer_') = Len(buffer_) + Len(data)
    BY <1>0, <1>1, AddStep
  <2>2. Len(data) \in Nat
    BY <2>1, LenProperties
  <2>3. /\ read_index_' = read_index_ /\ read_index_ \in 0 .. Len(buffer_)
        /\ Len(buffer_) - read_index_ + Len(data) <= MaxUnread
        /\ buffer_' = buffer_ \o data
    BY <1>0, <1>1 DEF AddData, ReadAbleBytes, TypeOK
  <2>4. /\ read_index_' < CompactThreshold
        /\ Len(buffer_') < CompactThreshold + MaxUnread
    BY <1>0, <2>1, <2>2, <2>3 DEF BufferInv, DeadPrefixBounded
  <2>5. read_index_' = Len(buffer_') => buffer_' = << >>
    <3> SUFFICES ASSUME read_index_' = Len(buffer_') PROVE buffer_' = << >>
      OBVIOUS
    <3>1. Len(buffer_') = 0
      <4>1. read_index_ = Len(buffer_)
        BY <1>0, <2>1, <2>2, <2>3
      <4>2. buffer_ = << >>
        BY <4>1 DEF BufferInv, DeadPrefixBounded
      <4>3. Len(<< >>) = 0
        BY EmptySeq
      <4> QED BY <1>0, <2>1, <2>2, <2>3, <4>1, <4>2, <4>3
    <3> QED BY <2>1, <3>1, EmptySeq DEF TypeOK
  <2> QED BY <2>1, <2>4, <2>5 DEF BufferInv, DeadPrefixBounded
<1>2. ASSUME NEW len \in 0 .. MaxUnread + 1, Fetch(len) PROVE BufferInv'
  <2>1. PICK index \in read_index_ .. Len(buffer_) : Settle(index) /\ asked' = len
    BY <1>0, <1>2, FetchStep
  <2>2. /\ TypeOK' /\ Len(buffer_') <= Len(buffer_) /\ read_index_' < CompactThreshold
        /\ read_index_' = Len(buffer_') => buffer_' = << >>
    BY <1>0, <2>1, SettleStep
  <2>3. Len(buffer_') \in Nat
    BY <2>2, LenProperties DEF TypeOK
  <2> QED BY <1>0, <2>2, <2>3 DEF BufferInv, DeadPrefixBounded
<1>3. CASE UNCHANGED vars
  BY <1>3 DEF vars, BufferInv, TypeOK, DeadPrefixBounded
<1> QED BY <1>1, <1>2, <1>3 DEF Next

(* Every index the code computes stays inside the vector. *)
THEOREM BufferTypeOK == Spec => []TypeOK
<1>1. BufferInv => TypeOK
  BY DEF BufferInv
<1> QED BY <1>1, BufferInvInit, BufferInvNext, PTL DEF Spec

(* Consumed bytes never pile up in front of the unread ones. *)
THEOREM BufferDeadPrefix == Spec => []DeadPrefixBounded
<1>1. BufferInv => DeadPrefixBounded
  BY DEF BufferInv
<1> QED BY <1>1, BufferInvInit, BufferInvNext, PTL DEF Spec

-----------------------------------------------------------------------------
(* Every call on the buffer is the same call on a FIFO queue of bytes. *)
THEOREM BufferRefinement == Spec => ImplementsByteQueue
<1> USE BufferAssumption
<1>1. Init => Queue!Init
  <2>1. SubSeq(<< >>, 1, 0) = << >> /\ Len(<< >>) = 0
    BY SubSeqEmpty, EmptySeq
  <2> QED BY <2>1 DEF Init, Queue!Init, Unread
<1>2. BufferInv /\ [Next]_vars => [Queue!Next]_(Queue!vars)
  <2> SUFFICES ASSUME BufferInv, [Next]_vars PROVE [Queue!Next]_(Queue!vars)
    OBVIOUS
  <2>0. /\ TypeOK /\ buffer_ \in Seq(Byte) /\ Len(buffer_) \in Nat
        /\ read_index_ \in 0 .. Len(buffer_)
    BY LenProperties DEF BufferInv, TypeOK
  <2>1. Len(Unread) = ReadAbleBytes
    BY <2>0, SuffixElements DEF Unread, ReadAbleBytes
  <2>2. ASSUME NEW data \in Chunks, AddData(data) PROVE Queue!Next
    <3>1. Unread' = Unread \o data
      BY <2>0, <2>2, AddStep
    <3>2. Len(Unread) + Len(data) <= MaxUnread
      BY <2>1, <2>2 DEF AddData
    <3> QED BY <2>2, <3>1, <3>2 DEF Queue!Next, Queue!Put, AddData
  <2>3. ASSUME NEW len \in 0 .. MaxUnread + 1, Fetch(len) PROVE Queue!Next
    <3> DEFINE m == Taken(len)
               index == read_index_ + m
    <3>1. /\ m \in 0 .. Len(buffer_) - read_index_
          /\ index \in read_index_ .. Len(buffer_)
          /\ Settle(index) /\ asked' = len
      BY <2>0, <2>3, FetchStep
    <3>2. Unread' = SubSeq(buffer_, index + 1, Len(buffer_))
      <4>1. asked' \in Nat
        BY <3>1
      <4> HIDE DEF index
      <4> QED BY <2>0, <3>1, <4>1, SettleStep
    <3>3. /\ Len(Unread) = Len(buffer_) - read_index_
          /\ m = IF len > Len(Unread) THEN Len(Unread) ELSE len
      BY <2>0, <2>1 DEF ReadAbleBytes, Taken
    <3> HIDE DEF m
    <3>4. SubSeq(Unread, m + 1, Len(buffer_) - read_index_)
            = SubSeq(buffer_, read_index_ + m + 1, Len(buffer_))
      BY <2>0, <3>1, SuffixOfSuffix DEF Unread
    <3>5. Unread' = SubSeq(Unread, m + 1, Len(Unread))
      <4>1. index = read_index_ + m
        OBVIOUS
      <4> HIDE DEF index
      <4> QED BY <3>2, <3>3, <3>4, <4>1
    <3>6. Queue!Drop(len)
      BY <3>1, <3>3, <3>5 DEF Queue!Drop
    <3> QED BY <3>6 DEF Queue!Next
  <2>4. CASE UNCHANGED vars
    BY <2>4 DEF vars, Unread, Queue!vars
  <2> QED BY <2>2, <2>3, <2>4 DEF Next
<1> QED
  BY <1>1, <1>2, BufferInvInit, BufferInvNext, PTL
  DEF Spec, Queue!Spec, ImplementsByteQueue
=============================================================================
