---------------------------- MODULE ReactorProofs ----------------------------
(***************************************************************************)
(* For any number of peers and descriptors, any lengths and any order of   *)
(* events: the tables of manager, poller and kernel always describe the    *)
(* same connections, and write interest is registered exactly while output *)
(* is pending.                                                             *)
(***************************************************************************)
EXTENDS Reactor, SequenceTheorems, TLAPS

TablesTyped ==
    /\ DOMAIN connections_ \subseteq Fds
    /\ connections_ \in [DOMAIN connections_ -> Conn]
    /\ DOMAIN fd_events_ \subseteq Fds
    /\ fd_events_ \in [DOMAIN fd_events_ -> SUBSET {EPOLLIN, EPOLLOUT}]
    /\ DOMAIN interest \subseteq Fds
    /\ interest \in [DOMAIN interest -> SUBSET {EPOLLIN, EPOLLOUT}]
    /\ DOMAIN fdTable \subseteq Fds
    /\ fdTable \in [DOMAIN fdTable -> Sockets]
    /\ sock \in [Sockets -> Sock]
    /\ \A s \in Sockets : sock[s].sent <= MaxSent[s]

RoundTyped ==
    /\ timerReady \in BOOLEAN
    /\ batch \in Seq(Entry)
    /\ alive \in BOOLEAN

(* The events a connection wants between two handlers. *)
Wanted(out) == IF out > 0 THEN {EPOLLIN, EPOLLOUT} ELSE {EPOLLIN}

EventsFollowOutput ==
    \A fd \in DOMAIN connections_ : connections_[fd].events = Wanted(connections_[fd].out)

(* Peers and handlers change the tables and the sockets together; rounds
   change the batch.  The invariant is split accordingly. *)
TablesInv == TablesTyped /\ TablesAgree /\ EventsFollowOutput

ReactorInv == TablesInv /\ RoundTyped

(* A state k of socket s that stands for the same connection as before. *)
SameSocket(s, k) ==
    /\ k \in Sock
    /\ k.phase = "open" <=> sock[s].phase = "open"
    /\ k.sent <= MaxSent[s]

-----------------------------------------------------------------------------
(* Restricting a function keeps the values of what is left. *)
LEMMA RestrictProperties ==
    ASSUME NEW f, NEW S
    PROVE  /\ DOMAIN Restrict(f, S) = S
           /\ \A x \in S : Restrict(f, S)[x] = f[x]
BY DEF Restrict

(* What the tables say about a descriptor of a connection. *)
LEMMA OpenConnection ==
    ASSUME TablesInv, NEW fd \in DOMAIN connections_
    PROVE  /\ fd \in Fds /\ fd \in DOMAIN fdTable
           /\ fd \in DOMAIN fd_events_ /\ fd \in DOMAIN interest
           /\ connections_[fd] \in Conn
           /\ fdTable[fd] \in Sockets
           /\ sock[fdTable[fd]] \in Sock
           /\ sock[fdTable[fd]].phase = "open"
           /\ sock[fdTable[fd]].sent <= MaxSent[fdTable[fd]]
           /\ fd_events_[fd] = connections_[fd].events
           /\ connections_[fd].events = Wanted(connections_[fd].out)
BY DEF TablesInv, TablesTyped, TablesAgree, EventsFollowOutput

(* A closed socket keeps its type. *)
LEMMA CloseSockTyped ==
    ASSUME NEW k \in Sock
    PROVE  CloseSock(k) \in Sock /\ CloseSock(k).phase = "closed" /\ CloseSock(k).sent = k.sent
<1> DEFINE left == IF k.inq > 0 THEN 0 ELSE k.sndq
<1>1. left \in 0 .. SndBuf
  BY ReactorAssumption DEF Sock
<1>2. CloseSock(k) = [k EXCEPT !.phase = "closed", !.inq = 0, !.sndq = left]
  BY DEF CloseSock
<1> DEFINE z == [phase |-> "closed", sent |-> k.sent, inq |-> 0, fin |-> k.fin, rst |-> k.rst,
                 sndq |-> left, got |-> k.got]
<1>3. z \in Sock
  BY <1>1 DEF Sock
<1>4. CloseSock(k) = z
  BY <1>2 DEF Sock
<1> QED BY <1>3, <1>4

(* Deleting connections takes them out of all four tables and closes their
   sockets; no other descriptor refers to these sockets. *)
LEMMA DeleteKeeps ==
    ASSUME TablesInv,
           NEW fds \in SUBSET DOMAIN connections_,
           NEW k \in [Sockets -> Sock],
           \A s \in Sockets : SameSocket(s, k[s]),
           DeleteConnections(fds, k)
    PROVE  TablesInv'
<1> DEFINE rest == DOMAIN connections_ \ fds
<1>0. /\ DOMAIN fdTable = DOMAIN connections_
      /\ DOMAIN fd_events_ = DOMAIN connections_
      /\ DOMAIN interest = DOMAIN connections_
  BY DEF TablesInv, TablesAgree
<1>1. /\ DOMAIN connections_' = rest /\ \A x \in rest : connections_'[x] = connections_[x]
      /\ DOMAIN fd_events_' = rest /\ \A x \in rest : fd_events_'[x] = fd_events_[x]
      /\ DOMAIN interest' = rest /\ \A x \in rest : interest'[x] = interest[x]
      /\ DOMAIN fdTable' = rest /\ \A x \in rest : fdTable'[x] = fdTable[x]
  BY <1>0, RestrictProperties DEF DeleteConnections
<1>2. /\ connections_' = [x \in rest |-> connections_[x]]
      /\ fd_events_' = [x \in rest |-> fd_events_[x]]
      /\ interest' = [x \in rest |-> interest[x]]
      /\ fdTable' = [x \in rest |-> fdTable[x]]
  BY <1>0 DEF DeleteConnections, Restrict
<1>3. \A s \in Sockets : CloseSock(k[s]) \in Sock /\ CloseSock(k[s]).phase = "closed"
                           /\ CloseSock(k[s]).sent = k[s].sent
  BY CloseSockTyped
<1>4. /\ sock' \in [Sockets -> Sock]
      /\ \A s \in Sockets : sock'[s].sent <= MaxSent[s]
  <2> DEFINE after(s) == IF \E fd \in fds : fdTable[fd] = s THEN CloseSock(k[s]) ELSE k[s]
  <2>1. ASSUME NEW s \in Sockets PROVE after(s) \in Sock /\ after(s).sent <= MaxSent[s]
    BY <1>3 DEF SameSocket
  <2>2. sock' = [s \in Sockets |-> after(s)]
    BY DEF DeleteConnections
  <2> HIDE DEF after
  <2> QED BY <2>1, <2>2
<1>5. TablesTyped'
  BY <1>0, <1>1, <1>2, <1>4 DEF TablesInv, TablesTyped
<1>6. ASSUME NEW s \in Sockets
      PROVE  sock'[s].phase = "open" <=> \E fd \in rest : fdTable[fd] = s
  <2>1. CASE \E fd \in fds : fdTable[fd] = s
    <3>1. sock'[s].phase = "closed"
      BY <1>3, <2>1 DEF DeleteConnections
    <3>2. ~ \E fd \in rest : fdTable[fd] = s
      BY <1>0, <2>1 DEF TablesInv, TablesAgree
    <3> QED BY <3>1, <3>2
  <2>2. CASE ~ \E fd \in fds : fdTable[fd] = s
    <3>1. sock'[s] = k[s]
      BY <2>2 DEF DeleteConnections
    <3>2. sock'[s].phase = "open" <=> \E fd \in DOMAIN fdTable : fdTable[fd] = s
      BY <3>1 DEF SameSocket, TablesInv, TablesAgree
    <3> QED BY <1>0, <2>2, <3>2
  <2> QED BY <2>1, <2>2
<1>7. TablesAgree'
  <2>1. fd_events_' = interest' /\ DOMAIN connections_' = DOMAIN fdTable'
    BY <1>1, <1>2 DEF TablesInv, TablesAgree
  <2>2. interest' = [fd \in DOMAIN connections_' |-> connections_'[fd].events]
    BY <1>0, <1>1, <1>2 DEF TablesInv, TablesAgree
  <2>3. \A fd1, fd2 \in DOMAIN fdTable' : fdTable'[fd1] = fdTable'[fd2] => fd1 = fd2
    BY <1>0, <1>1 DEF TablesInv, TablesAgree
  <2>4. \A s \in Sockets : sock'[s].phase = "open" <=> \E fd \in DOMAIN fdTable' : fdTable'[fd] = s
    BY <1>1, <1>6
  <2> QED BY <2>1, <2>2, <2>3, <2>4 DEF TablesAgree
<1>8. EventsFollowOutput'
  BY <1>1 DEF TablesInv, EventsFollowOutput
<1> QED BY <1>5, <1>7, <1>8 DEF TablesInv

(* A handler that keeps its connection brings the poller's cache and the
   kernel up to date with the events the connection has chosen. *)
LEMMA UpdateKeeps ==
    ASSUME TablesInv,
           NEW fd \in DOMAIN connections_,
           NEW c \in Conn, c.events = Wanted(c.out),
           NEW k, SameSocket(fdTable[fd], k),
           connections_' = [connections_ EXCEPT ![fd] = c],
           sock' = [sock EXCEPT ![fdTable[fd]] = k],
           IF c.events # connections_[fd].events
           THEN ModifyFd(fd, c.events)
           ELSE UNCHANGED << fd_events_, interest >>,
           UNCHANGED fdTable
    PROVE  TablesInv'
<1> DEFINE T == DOMAIN connections_
           s == fdTable[fd]
<1>0. /\ DOMAIN fdTable = T /\ DOMAIN fd_events_ = T /\ DOMAIN interest = T
      /\ fd \in Fds /\ s \in Sockets /\ fd_events_ = interest
      /\ fd_events_[fd] = connections_[fd].events
      /\ T \subseteq Fds
      /\ \A x \in T : interest[x] = connections_[x].events
  BY OpenConnection DEF TablesInv, TablesAgree, TablesTyped
<1>1. DOMAIN connections_' = T /\ connections_'[fd] = c
      /\ \A x \in T \ {fd} : connections_'[x] = connections_[x]
  BY DEF TablesInv, TablesTyped
<1>2. c.events \in SUBSET {EPOLLIN, EPOLLOUT}
  BY DEF Conn
<1>3. /\ fd_events_' = [x \in T |-> IF x = fd THEN c.events ELSE fd_events_[x]]
      /\ interest' = [x \in T |-> IF x = fd THEN c.events ELSE interest[x]]
  <2>1. CASE c.events # connections_[fd].events
    <3>1. /\ interest' = [interest EXCEPT ![fd] = c.events]
          /\ fd_events_' = Insert(fd_events_, fd, c.events)
      BY <1>0, <2>1 DEF ModifyFd
    <3>2. T \cup {fd} = T
      OBVIOUS
    <3>3. interest = [x \in T |-> interest[x]]
      BY <1>0 DEF TablesInv, TablesTyped
    <3> QED BY <1>0, <3>1, <3>2, <3>3 DEF Insert
  <2>2. CASE c.events = connections_[fd].events
    <3>1. interest = [x \in T |-> interest[x]]
      BY <1>0 DEF TablesInv, TablesTyped
    <3> QED BY <1>0, <2>2, <3>1
  <2> QED BY <2>1, <2>2
<1>4. /\ sock' \in [Sockets -> Sock] /\ sock'[s] = k
      /\ \A q \in Sockets \ {s} : sock'[q] = sock[q]
  BY <1>0 DEF TablesInv, TablesTyped, SameSocket
<1>5. connections_' \in [T -> Conn]
  BY <1>1 DEF TablesInv, TablesTyped
<1>6. TablesTyped'
  <2>1. fd_events_' \in [T -> SUBSET {EPOLLIN, EPOLLOUT}]
        /\ interest' \in [T -> SUBSET {EPOLLIN, EPOLLOUT}]
    BY <1>0, <1>2, <1>3 DEF TablesInv, TablesTyped
  <2>2. DOMAIN fd_events_' = T /\ DOMAIN interest' = T
    BY <1>3
  <2>3. \A q \in Sockets : sock'[q].sent <= MaxSent[q]
    BY <1>4 DEF TablesInv, TablesTyped, SameSocket
  <2> QED BY <1>0, <1>1, <1>4, <1>5, <2>1, <2>2, <2>3 DEF TablesInv, TablesTyped
<1>7. TablesAgree'
  <2>1. fd_events_' = interest'
    BY <1>0, <1>3
  <2>2. interest' = [x \in DOMAIN connections_' |-> connections_'[x].events]
    BY <1>0, <1>1, <1>3
  <2>3. \A q \in Sockets : sock'[q].phase = "open" <=> \E x \in T : fdTable[x] = q
    BY <1>0, <1>4 DEF TablesInv, TablesAgree, SameSocket
  <2> QED BY <1>0, <1>1, <2>1, <2>2, <2>3 DEF TablesInv, TablesAgree
<1>8. EventsFollowOutput'
  BY <1>1 DEF TablesInv, EventsFollowOutput
<1> QED BY <1>6, <1>7, <1>8 DEF TablesInv

-----------------------------------------------------------------------------
(* After a send the connection wants EPOLLOUT exactly if output is left. *)
LEMMA AcceptedKeeps ==
    ASSUME NEW c \in Conn, EPOLLIN \in c.events,
           NEW k \in Sock,
           NEW n \in 0 .. c.out
    PROVE  /\ Accepted(c, k, n).conn \in Conn
           /\ Accepted(c, k, n).conn.events = Wanted(Accepted(c, k, n).conn.out)
           /\ Accepted(c, k, n).sock \in Sock
           /\ Accepted(c, k, n).sock.phase = k.phase
           /\ Accepted(c, k, n).sock.sent = k.sent
<1> DEFINE queued == k.sndq + n
           kept == IF queued > SndBuf THEN SndBuf ELSE queued
           events == IF n < c.out THEN c.events \cup {EPOLLOUT} ELSE c.events \ {EPOLLOUT}
           idle == IF n > 0 THEN 0 ELSE c.idle
           conn == [c EXCEPT !.out = c.out - n, !.events = events, !.idle = idle]
           after == [k EXCEPT !.sndq = kept, !.got = k.got + (queued - kept)]
<1>1. /\ c.out \in Nat /\ c.idle \in 0 .. IdleLimit + 1 /\ c.events \subseteq {EPOLLIN, EPOLLOUT}
      /\ k.sndq \in 0 .. SndBuf /\ k.got \in Nat /\ SndBuf \in Nat /\ IdleLimit \in Nat
  BY ReactorAssumption DEF Conn, Sock
<1>2. c.out - n \in Nat /\ idle \in 0 .. IdleLimit + 1
  BY <1>1
<1>3. kept \in 0 .. SndBuf /\ queued - kept \in Nat /\ k.got + (queued - kept) \in Nat
  BY <1>1
<1>4. events = Wanted(c.out - n) /\ events \in SUBSET {EPOLLIN, EPOLLOUT}
  <2>1. n < c.out <=> c.out - n > 0
    BY <1>1
  <2>2. IF n < c.out THEN events = {EPOLLIN, EPOLLOUT} ELSE events = {EPOLLIN}
    BY <1>1 DEF EPOLLIN, EPOLLOUT
  <2> QED BY <2>1, <2>2 DEF Wanted
<1>5. Accepted(c, k, n).conn = conn /\ Accepted(c, k, n).sock = after
  BY DEF Accepted
<1> HIDE DEF queued, kept, events, idle
<1>6. conn \in Conn /\ conn.out = c.out - n /\ conn.events = events
  BY <1>2, <1>4 DEF Conn
<1>7. after \in Sock /\ after.phase = k.phase /\ after.sent = k.sent
  BY <1>3 DEF Sock
<1> QED BY <1>4, <1>5, <1>6, <1>7

(* send_data keeps the four tables in agreement. *)
LEMMA SendKeeps ==
    ASSUME TablesInv,
           NEW fd \in DOMAIN connections_,
           NEW c \in Conn, EPOLLIN \in c.events,
           NEW k, SameSocket(fdTable[fd], k),
           SendData(fd, c, k)
    PROVE  TablesInv'
<1> DEFINE s == fdTable[fd]
<1>1. /\ s \in Sockets /\ k \in Sock /\ sock \in [Sockets -> Sock]
      /\ \A q \in Sockets : sock[q].sent <= MaxSent[q]
  BY OpenConnection DEF SameSocket, TablesInv, TablesTyped
<1>2. ASSUME NEW q, SameSocket(s, q), DeleteConnections({fd}, [sock EXCEPT ![s] = q])
      PROVE  TablesInv'
  <2> DEFINE all == [sock EXCEPT ![s] = q]
  <2>1. all \in [Sockets -> Sock] /\ \A p \in Sockets : SameSocket(p, all[p])
    BY <1>1, <1>2 DEF SameSocket
  <2> HIDE DEF all
  <2> QED BY <1>2, <2>1, DeleteKeeps DEF all
<1>3. CASE c.out > 0 /\ k.rst /\ DeleteConnections({fd}, [sock EXCEPT ![s] = k])
  BY <1>2, <1>3
<1>4. ASSUME NEW n \in 0 .. c.out,
             LET r == Accepted(c, k, n) IN
               IF r.conn.peerClose /\ r.conn.out = 0
               THEN DeleteConnections({fd}, [sock EXCEPT ![s] = r.sock])
               ELSE /\ connections_' = [connections_ EXCEPT ![fd] = r.conn]
                    /\ sock' = [sock EXCEPT ![s] = r.sock]
                    /\ IF r.conn.events # connections_[fd].events
                       THEN ModifyFd(fd, r.conn.events)
                       ELSE UNCHANGED << fd_events_, interest >>
                    /\ UNCHANGED fdTable
      PROVE  TablesInv'
  <2> DEFINE conn == Accepted(c, k, n).conn
             after == Accepted(c, k, n).sock
  <2>1. /\ conn \in Conn /\ conn.events = Wanted(conn.out) /\ SameSocket(s, after)
    BY <1>1, AcceptedKeeps DEF SameSocket
  <2>2. \/ DeleteConnections({fd}, [sock EXCEPT ![s] = after])
        \/ /\ connections_' = [connections_ EXCEPT ![fd] = conn]
           /\ sock' = [sock EXCEPT ![s] = after]
           /\ IF conn.events # connections_[fd].events
              THEN ModifyFd(fd, conn.events)
              ELSE UNCHANGED << fd_events_, interest >>
           /\ UNCHANGED fdTable
    BY <1>4
  <2> HIDE DEF conn, after
  <2> QED BY <1>2, <2>1, <2>2, UpdateKeeps
<1> QED BY <1>3, <1>4 DEF SendData

(* Receiving and decoding change counters and leave the events alone. *)
LEMMA DecodedTyped ==
    ASSUME NEW c \in Conn, NEW k \in Sock
    PROVE  /\ Decoded(Received(c, k)) \in Conn
           /\ Decoded(Received(c, k)).events = c.events
<1> DEFINE r == Received(c, k)
<1>1. /\ c.in \in Nat /\ c.out \in Nat /\ c.idle \in 0 .. IdleLimit + 1
      /\ k.inq \in Nat /\ k.fin \in BOOLEAN /\ c.peerClose \in BOOLEAN /\ IdleLimit \in Nat
      /\ MsgLen \in Nat \ {0} /\ RespLen \in Nat
  BY ReactorAssumption DEF Conn, Sock
<1>2. c.in + k.inq \in Nat /\ (IF k.inq > 0 THEN 0 ELSE c.idle) \in 0 .. IdleLimit + 1
  BY <1>1
<1>3. (c.peerClose \/ k.fin) \in BOOLEAN
  OBVIOUS
<1>4. r \in Conn /\ r.events = c.events
  BY <1>2, <1>3 DEF Received, Conn
<1> HIDE DEF r
<1>5. /\ r.in \in Nat /\ r.out \in Nat
  BY <1>4 DEF Conn
<1>6. r.in % MsgLen \in Nat /\ r.in \div MsgLen \in Nat
  BY <1>1, <1>5
<1>7. RespLen * (r.in \div MsgLen) \in Nat
  BY <1>1, <1>6
<1>8. r.out + RespLen * (r.in \div MsgLen) \in Nat
  BY <1>5, <1>7
<1>9. Decoded(r) \in Conn /\ Decoded(r).events = r.events
  BY <1>4, <1>6, <1>8 DEF Decoded, Conn
<1> QED BY <1>4, <1>9 DEF r

(* recv_data and what follows it keep the four tables in agreement. *)
LEMMA ReceiveKeeps ==
    ASSUME TablesInv, NEW fd \in DOMAIN connections_, ReceiveData(fd)
    PROVE  TablesInv'
<1> DEFINE c == connections_[fd]
           s == fdTable[fd]
           k == sock[s]
           drained == [k EXCEPT !.inq = 0]
<1>1. c \in Conn /\ c.events = Wanted(c.out) /\ s \in Sockets /\ k \in Sock
      /\ k.sent <= MaxSent[s] /\ sock \in [Sockets -> Sock]
      /\ \A q \in Sockets : sock[q].sent <= MaxSent[q]
  BY OpenConnection DEF TablesInv, TablesTyped
<1>2. SameSocket(s, drained)
  BY <1>1 DEF SameSocket, Sock
<1>3. CASE DeleteConnections({fd}, [sock EXCEPT ![s] = drained])
  <2> DEFINE all == [sock EXCEPT ![s] = drained]
  <2>1. all \in [Sockets -> Sock] /\ \A p \in Sockets : SameSocket(p, all[p])
    BY <1>1, <1>2 DEF SameSocket
  <2> HIDE DEF all
  <2> QED BY <1>3, <2>1, DeleteKeeps DEF all
<1>4. CASE UNCHANGED << loop, sock >>
  BY <1>4 DEF loop, TablesInv, TablesTyped, TablesAgree, EventsFollowOutput
<1>5. CASE SendData(fd, Decoded(Received(c, k)), drained)
  <2>1. Decoded(Received(c, k)) \in Conn /\ EPOLLIN \in Decoded(Received(c, k)).events
    BY <1>1, DecodedTyped DEF Wanted
  <2> HIDE DEF c, k, drained
  <2> QED BY <1>2, <1>5, <2>1, SendKeeps
<1> QED BY <1>3, <1>4, <1>5 DEF ReceiveData

(* A new connection enters all four tables with the events it starts with. *)
LEMMA AcceptKeeps ==
    ASSUME TablesInv, NEW s \in Sockets, NEW fd \in Fds, AcceptConnection(s, fd)
    PROVE  TablesInv'
<1> DEFINE T == DOMAIN connections_
<1>0. /\ DOMAIN fdTable = T /\ DOMAIN fd_events_ = T /\ DOMAIN interest = T
      /\ fd \notin T /\ T \subseteq Fds /\ sock[s].phase = "backlog"
      /\ sock \in [Sockets -> Sock]
  BY DEF TablesInv, TablesTyped, TablesAgree, AcceptConnection, FreeFds, Backlog
<1>1. /\ connections_' = Insert(connections_, fd, NewConn)
      /\ fd_events_' = Insert(fd_events_, fd, {EPOLLIN})
      /\ interest' = Insert(interest, fd, {EPOLLIN})
      /\ fdTable' = Insert(fdTable, fd, s)
      /\ sock' = [sock EXCEPT ![s].phase = "open"]
  BY <1>0 DEF AcceptConnection, AddConnection
<1>2. /\ NewConn \in Conn /\ NewConn.events = {EPOLLIN}
      /\ NewConn.events = Wanted(NewConn.out)
  BY ReactorAssumption DEF NewConn, Conn, Wanted
<1> HIDE DEF T
<1>3. /\ DOMAIN connections_' = T \cup {fd} /\ DOMAIN fdTable' = T \cup {fd}
      /\ DOMAIN fd_events_' = T \cup {fd} /\ DOMAIN interest' = T \cup {fd}
      /\ connections_'[fd] = NewConn /\ fdTable'[fd] = s
      /\ fd_events_'[fd] = {EPOLLIN} /\ interest'[fd] = {EPOLLIN}
      /\ \A x \in T : /\ connections_'[x] = connections_[x] /\ fdTable'[x] = fdTable[x]
                      /\ fd_events_'[x] = fd_events_[x] /\ interest'[x] = interest[x]
  <2>1. /\ DOMAIN connections_' = T \cup {fd} /\ connections_'[fd] = NewConn
        /\ \A x \in T : connections_'[x] = connections_[x]
    BY <1>0, <1>1 DEF Insert, T
  <2>2. /\ DOMAIN fdTable' = T \cup {fd} /\ fdTable'[fd] = s
        /\ \A x \in T : fdTable'[x] = fdTable[x]
    BY <1>0, <1>1 DEF Insert
  <2>3. /\ DOMAIN fd_events_' = T \cup {fd} /\ fd_events_'[fd] = {EPOLLIN}
        /\ \A x \in T : fd_events_'[x] = fd_events_[x]
    BY <1>0, <1>1 DEF Insert
  <2>4. /\ DOMAIN interest' = T \cup {fd} /\ interest'[fd] = {EPOLLIN}
        /\ \A x \in T : interest'[x] = interest[x]
    BY <1>0, <1>1 DEF Insert
  <2> QED BY <2>1, <2>2, <2>3, <2>4
<1>4. /\ connections_' = [x \in T \cup {fd} |-> connections_'[x]]
      /\ fd_events_' = [x \in T \cup {fd} |-> fd_events_'[x]]
      /\ interest' = [x \in T \cup {fd} |-> interest'[x]]
      /\ fdTable' = [x \in T \cup {fd} |-> fdTable'[x]]
  BY <1>0, <1>1, <1>3 DEF Insert, T
<1>5. /\ sock' \in [Sockets -> Sock] /\ sock'[s].phase = "open"
      /\ \A q \in Sockets \ {s} : sock'[q] = sock[q]
      /\ \A q \in Sockets : sock'[q].sent = sock[q].sent
  BY <1>0, <1>1 DEF Sock
<1>6. TablesTyped'
  <2>1. /\ \A x \in T \cup {fd} : connections_'[x] \in Conn /\ fdTable'[x] \in Sockets
    BY <1>0, <1>2, <1>3 DEF TablesInv, TablesTyped, T
  <2>2. \A x \in T \cup {fd} : /\ fd_events_'[x] \in SUBSET {EPOLLIN, EPOLLOUT}
                               /\ interest'[x] \in SUBSET {EPOLLIN, EPOLLOUT}
    BY <1>0, <1>3 DEF TablesInv, TablesTyped, T
  <2> QED BY <1>0, <1>3, <1>4, <1>5, <2>1, <2>2 DEF TablesInv, TablesTyped, T
<1>7. TablesAgree'
  <2>1. \A x \in T \cup {fd} : /\ fd_events_'[x] = interest'[x]
                               /\ interest'[x] = connections_'[x].events
    <3>1. \A x \in T : fd_events_[x] = interest[x] /\ interest[x] = connections_[x].events
      BY <1>0 DEF TablesInv, TablesAgree, T
    <3> QED BY <1>2, <1>3, <3>1
  <2>2. ~ \E x \in T : fdTable[x] = s
    BY <1>0 DEF TablesInv, TablesAgree
  <2>3. \A q \in Sockets : sock'[q].phase = "open" <=> \E x \in T \cup {fd} : fdTable'[x] = q
    BY <1>0, <1>3, <1>5, <2>2 DEF TablesInv, TablesAgree
  <2>4. \A x, y \in T \cup {fd} : fdTable'[x] = fdTable'[y] => x = y
    BY <1>0, <1>3, <2>2 DEF TablesInv, TablesAgree
  <2>5. fd_events_' = interest' /\ interest' = [x \in T \cup {fd} |-> connections_'[x].events]
    BY <1>4, <2>1
  <2> QED BY <1>3, <2>3, <2>4, <2>5 DEF TablesAgree
<1>8. EventsFollowOutput'
  BY <1>2, <1>3 DEF TablesInv, EventsFollowOutput, T
<1> QED BY <1>6, <1>7, <1>8 DEF TablesInv

(* What a peer does changes one socket, and none becomes open by it. *)
LEMMA PeerKeeps ==
    ASSUME TablesInv, NEW s \in Sockets, PeerStep(s)
    PROVE  TablesInv' /\ UNCHANGED << timerReady, batch, alive >>
<1>0. /\ sock \in [Sockets -> Sock] /\ sock[s] \in Sock /\ sock[s].sent <= MaxSent[s]
      /\ sock[s].sent \in Nat /\ MaxSent[s] \in Nat /\ SndBuf \in Nat
      /\ \A q \in Sockets : sock[q].sent <= MaxSent[q]
  BY ReactorAssumption DEF TablesInv, TablesTyped, Sock
<1>1. ASSUME NEW k, SameSocket(s, k), Peer(s, k)
      PROVE  TablesInv' /\ UNCHANGED << timerReady, batch, alive >>
  <2>1. UNCHANGED loop /\ sock' = [sock EXCEPT ![s] = k] /\ UNCHANGED << timerReady, batch, alive >>
    BY <1>1 DEF Peer
  <2>2. /\ sock' \in [Sockets -> Sock]
        /\ \A q \in Sockets : /\ sock'[q].sent <= MaxSent[q]
                              /\ sock'[q].phase = "open" <=> sock[q].phase = "open"
    BY <1>0, <1>1, <2>1 DEF SameSocket
  <2>3. TablesTyped' /\ EventsFollowOutput'
    BY <2>1, <2>2 DEF loop, TablesInv, TablesTyped, EventsFollowOutput
  <2>4. TablesAgree'
    BY <2>1, <2>2 DEF loop, TablesInv, TablesAgree
  <2> QED BY <2>1, <2>3, <2>4 DEF TablesInv
<1> DEFINE k == sock[s]
<1>2. CASE PeerConnect(s)
  <2>1. SameSocket(s, [k EXCEPT !.phase = "backlog"])
    BY <1>0, <1>2 DEF PeerConnect, SameSocket, Sock
  <2> QED BY <1>1, <1>2, <2>1 DEF PeerConnect
<1>3. CASE PeerSend(s)
  <2>1. k.sent < MaxSent[s] /\ k.sent + 1 \in Nat /\ k.inq + 1 \in Nat
    BY <1>0, <1>3 DEF PeerSend, Sock
  <2> DEFINE q == [k EXCEPT !.sent = @ + 1, !.inq = @ + 1]
  <2>2. q \in Sock /\ q.phase = k.phase /\ q.sent = k.sent + 1
    BY <1>0, <2>1 DEF Sock
  <2>3. q.sent <= MaxSent[s]
    BY <1>0, <2>1, <2>2
  <2>4. SameSocket(s, q)
    BY <2>2, <2>3 DEF SameSocket
  <2> QED BY <1>1, <1>3, <2>4 DEF PeerSend
<1>4. CASE PeerFin(s)
  <2>1. SameSocket(s, [k EXCEPT !.fin = TRUE])
    BY <1>0 DEF SameSocket, Sock
  <2> QED BY <1>1, <1>4, <2>1 DEF PeerFin
<1>5. CASE PeerReset(s)
  <2> DEFINE q == [k EXCEPT !.rst = TRUE, !.sndq = 0]
  <2>1. 0 \in 0 .. SndBuf
    BY <1>0
  <2>2. q \in Sock /\ q.phase = k.phase /\ q.sent = k.sent
    BY <1>0, <2>1 DEF Sock
  <2>3. SameSocket(s, q)
    BY <1>0, <2>2 DEF SameSocket
  <2> QED BY <1>1, <1>5, <2>3 DEF PeerReset
<1>6. CASE PeerRead(s)
  <2>1. k.sndq - 1 \in 0 .. SndBuf /\ k.got + 1 \in Nat
    BY <1>0, <1>6 DEF PeerRead, Sock
  <2>2. SameSocket(s, [k EXCEPT !.sndq = @ - 1, !.got = @ + 1])
    BY <1>0, <2>1 DEF SameSocket, Sock
  <2> QED BY <1>1, <1>6, <2>2 DEF PeerRead
<1> QED BY <1>2, <1>3, <1>4, <1>5, <1>6 DEF PeerStep

(* Time changes nothing but how idle the connections are. *)
LEMMA TimeKeeps ==
    ASSUME TablesInv, TimePasses
    PROVE  TablesInv'
<1> DEFINE T == DOMAIN connections_
           idle(fd) == IF connections_[fd].idle > IdleLimit THEN connections_[fd].idle
                       ELSE connections_[fd].idle + 1
           older(fd) == [connections_[fd] EXCEPT !.idle = idle(fd)]
<1>1. connections_' = [fd \in T |-> older(fd)]
  BY DEF TimePasses
<1>2. ASSUME NEW fd \in T
      PROVE  /\ older(fd) \in Conn
             /\ older(fd).events = connections_[fd].events
             /\ older(fd).out = connections_[fd].out
  <2>1. connections_[fd] \in Conn
    BY DEF TablesInv, TablesTyped
  <2>2. idle(fd) \in 0 .. IdleLimit + 1
    BY <2>1, ReactorAssumption DEF Conn
  <2> HIDE DEF idle
  <2> QED BY <2>1, <2>2 DEF Conn
<1> HIDE DEF older
<1>3. /\ DOMAIN connections_' = T /\ connections_' \in [T -> Conn]
      /\ \A fd \in T : /\ connections_'[fd].events = connections_[fd].events
                       /\ connections_'[fd].out = connections_[fd].out
  BY <1>1, <1>2
<1>4. UNCHANGED << fd_events_, interest, fdTable, sock >>
  BY DEF TimePasses
<1>5. TablesTyped'
  BY <1>3, <1>4 DEF TablesInv, TablesTyped
<1>6. TablesAgree'
  BY <1>3, <1>4 DEF TablesInv, TablesAgree
<1>7. EventsFollowOutput'
  BY <1>3 DEF TablesInv, EventsFollowOutput
<1> QED BY <1>5, <1>6, <1>7 DEF TablesInv

(* A round is a sequence of entries for sources epoll knows of. *)
LEMMA EntryTyped ==
    ASSUME TablesInv, NEW src \in Ready
    PROVE  EntryOf(src) \in Entry
<1>1. src \in Fds \cup {Listener, Timer}
  BY DEF Ready, TablesInv, TablesTyped
<1>2. (src \in Fds /\ Readable(src)) \in BOOLEAN /\ (src \in Fds /\ Writable(src)) \in BOOLEAN
  OBVIOUS
<1> QED BY <1>1, <1>2 DEF EntryOf, Entry

(* A batch names sources that exist. *)
LEMMA PollTyped ==
    ASSUME TablesInv, Poll
    PROVE  batch' \in Seq(Entry)
<1>1. PICK n \in 1 .. MaxEvents : \E order \in Injection(1 .. n, Ready) :
          batch' = [i \in 1 .. n |-> EntryOf(order[i])]
  BY DEF Poll
<1>2. PICK order \in Injection(1 .. n, Ready) : batch' = [i \in 1 .. n |-> EntryOf(order[i])]
  BY <1>1
<1>3. \A i \in 1 .. n : EntryOf(order[i]) \in Entry
  BY <1>2, EntryTyped DEF Injection
<1>4. batch' \in [1 .. n -> Entry]
  BY <1>2, <1>3
<1>5. n \in Nat
  BY ReactorAssumption
<1> QED BY <1>4, <1>5

(* The batch shrinks from its head, or its first entry loses its READ. *)
LEMMA BatchShrinks ==
    ASSUME batch \in Seq(Entry), batch # << >>
    PROVE  Tail(batch) \in Seq(Entry) /\ [batch EXCEPT ![1].rd = FALSE] \in Seq(Entry)
<1>1. Tail(batch) \in Seq(Entry) /\ Head(batch) \in Entry
  BY HeadTailProperties
<1>2. Len(batch) \in Nat \ {0} /\ 1 \in 1 .. Len(batch) /\ batch[1] \in Entry
  BY EmptySeq, ElementOfSeq
<1> DEFINE e == [batch[1] EXCEPT !.rd = FALSE]
<1>3. e \in Entry
  BY <1>2 DEF Entry
<1>4. [batch EXCEPT ![1].rd = FALSE] = [batch EXCEPT ![1] = e]
  OBVIOUS
<1> HIDE DEF e
<1>5. [batch EXCEPT ![1] = e] \in Seq(Entry)
  BY <1>2, <1>3, ExceptSeq
<1> QED BY <1>1, <1>4, <1>5

(* A step that touches no table keeps the invariant. *)
LEMMA UnchangedKeeps ==
    ASSUME TablesInv, UNCHANGED << loop, sock >>
    PROVE  TablesInv'
BY DEF loop, TablesInv, TablesTyped, TablesAgree, EventsFollowOutput

-----------------------------------------------------------------------------
(* The tables agree when the loop starts. *)
LEMMA ReactorInit == Init => ReactorInv
<1> SUFFICES ASSUME Init PROVE ReactorInv
  OBVIOUS
<1>1. NewSock \in Sock /\ NewSock.phase = "new" /\ NewSock.sent = 0
  BY ReactorAssumption DEF NewSock, Sock
<1>2. /\ DOMAIN connections_ = {} /\ DOMAIN fd_events_ = {}
      /\ DOMAIN interest = {} /\ DOMAIN fdTable = {}
  BY DEF Init
<1>3. sock \in [Sockets -> Sock] /\ \A s \in Sockets : sock[s].phase = "new" /\ sock[s].sent = 0
  BY <1>1 DEF Init
<1>4. \A s \in Sockets : 0 <= MaxSent[s]
  BY ReactorAssumption
<1>5. TablesTyped
  BY <1>2, <1>3, <1>4 DEF Init, TablesTyped
<1>6. TablesAgree /\ EventsFollowOutput
  BY <1>2, <1>3 DEF Init, TablesAgree, EventsFollowOutput
<1>7. RoundTyped
  BY EmptySeq DEF Init, RoundTyped
<1> QED BY <1>5, <1>6, <1>7 DEF ReactorInv, TablesInv

(* One step for each action of Next. *)
LEMMA ReactorNext == ReactorInv /\ [Next]_vars => ReactorInv'
<1> SUFFICES ASSUME ReactorInv, [Next]_vars PROVE ReactorInv'
  OBVIOUS
<1>0. TablesInv /\ RoundTyped /\ batch \in Seq(Entry)
  BY DEF ReactorInv, RoundTyped
<1>1. CASE Poll
  <2>1. UNCHANGED << loop, sock >> /\ UNCHANGED << timerReady, alive >>
    BY <1>1 DEF Poll
  <2> QED BY <1>0, <1>1, <2>1, PollTyped, UnchangedKeeps DEF ReactorInv, RoundTyped
<1>2. ASSUME NEW s \in Sockets, NEW fd \in Fds, AcceptConnection(s, fd) PROVE ReactorInv'
  <2>1. UNCHANGED << timerReady, batch, alive >>
    BY <1>2 DEF AcceptConnection
  <2> QED BY <1>0, <1>2, <2>1, AcceptKeeps DEF ReactorInv, RoundTyped
<1>3. CASE AcceptNothing
  <2>1. UNCHANGED << loop, sock >> /\ batch' = Tail(batch) /\ batch # << >>
        /\ UNCHANGED << timerReady, alive >>
    BY <1>3 DEF AcceptNothing, Dispatching
  <2> QED BY <1>0, <2>1, BatchShrinks, UnchangedKeeps DEF ReactorInv, RoundTyped
<1>4. CASE AcceptThrows
  <2>1. UNCHANGED << loop, sock >> /\ alive' = FALSE /\ UNCHANGED << timerReady, batch >>
    BY <1>4 DEF AcceptThrows
  <2> QED BY <1>0, <2>1, UnchangedKeeps DEF ReactorInv, RoundTyped
<1>5. ASSUME NEW fd \in Fds, HandleRead(fd) PROVE ReactorInv'
  <2>1. \/ fd \in DOMAIN connections_ /\ ReceiveData(fd)
        \/ UNCHANGED << loop, sock >>
    BY <1>5 DEF HandleRead
  <2>2. TablesInv'
    BY <1>0, <2>1, ReceiveKeeps, UnchangedKeeps
  <2>3. /\ batch # << >>
        /\ batch' = [batch EXCEPT ![1].rd = FALSE] \/ batch' = Tail(batch)
        /\ UNCHANGED << timerReady, alive >>
    BY <1>5 DEF HandleRead, Dispatching
  <2> QED BY <1>0, <2>2, <2>3, BatchShrinks DEF ReactorInv, RoundTyped
<1>6. ASSUME NEW fd \in Fds, HandleWrite(fd) PROVE ReactorInv'
  <2>1. \/ fd \in DOMAIN connections_ /\ SendData(fd, connections_[fd], sock[fdTable[fd]])
        \/ UNCHANGED << loop, sock >>
    BY <1>6 DEF HandleWrite
  <2>2. ASSUME fd \in DOMAIN connections_, SendData(fd, connections_[fd], sock[fdTable[fd]])
        PROVE  TablesInv'
    <3>1. /\ connections_[fd] \in Conn /\ EPOLLIN \in connections_[fd].events
          /\ SameSocket(fdTable[fd], sock[fdTable[fd]])
      BY <1>0, <2>2, OpenConnection DEF SameSocket, Wanted
    <3> QED BY <1>0, <2>2, <3>1, SendKeeps
  <2>3. TablesInv'
    BY <1>0, <2>1, <2>2, UnchangedKeeps
  <2>4. /\ batch # << >> /\ batch' = Tail(batch)
        /\ UNCHANGED << timerReady, alive >>
    BY <1>6 DEF HandleWrite, Dispatching
  <2> QED BY <1>0, <2>3, <2>4, BatchShrinks DEF ReactorInv, RoundTyped
<1>7. CASE HandleTimer
  <2> DEFINE idle == {fd \in DOMAIN connections_ : connections_[fd].idle > IdleLimit}
  <2>1. idle \in SUBSET DOMAIN connections_ /\ DeleteConnections(idle, sock)
    BY <1>7 DEF HandleTimer
  <2>2. sock \in [Sockets -> Sock] /\ \A s \in Sockets : SameSocket(s, sock[s])
    BY <1>0 DEF TablesInv, TablesTyped, SameSocket
  <2> HIDE DEF idle
  <2>3. TablesInv'
    BY <1>0, <2>1, <2>2, DeleteKeeps
  <2>4. /\ batch # << >> /\ batch' = Tail(batch)
        /\ timerReady' = FALSE /\ UNCHANGED alive
    BY <1>7 DEF HandleTimer, Dispatching
  <2> QED BY <1>0, <2>3, <2>4, BatchShrinks DEF ReactorInv, RoundTyped
<1>8. ASSUME NEW s \in Sockets, PeerStep(s) PROVE ReactorInv'
  BY <1>0, <1>8, PeerKeeps DEF ReactorInv, RoundTyped
<1>9. CASE TimePasses
  <2>1. timerReady' \in {timerReady, TRUE} /\ UNCHANGED << batch, alive >>
    BY <1>9 DEF TimePasses
  <2> QED BY <1>0, <1>9, <2>1, TimeKeeps DEF ReactorInv, RoundTyped
<1>10. CASE UNCHANGED vars
  <2>1. UNCHANGED << loop, sock >> /\ UNCHANGED << timerReady, batch, alive >>
    BY <1>10 DEF vars
  <2> QED BY <1>0, <2>1, UnchangedKeeps DEF ReactorInv, RoundTyped
<1> QED
  BY <1>1, <1>2, <1>3, <1>4, <1>5, <1>6, <1>7, <1>8, <1>9, <1>10 DEF Next, LoopStep

(* The invariant holds in every behaviour. *)
LEMMA ReactorInvariant == Spec => []ReactorInv
<1> QED BY ReactorInit, ReactorNext, PTL DEF Spec

-----------------------------------------------------------------------------
(* All variables keep their types, for any number of peers and descriptors. *)
THEOREM ReactorTypeOK == Spec => []TypeOK
<1>1. ReactorInv => TypeOK
  BY DEF ReactorInv, TablesInv, TablesTyped, RoundTyped, TypeOK
<1> QED BY <1>1, ReactorInvariant, PTL

(* The manager's table, the poller's cache, the kernel's interest set and the
   descriptor table always describe the same connections: no event, however
   stale, and no way a connection ends takes them apart. *)
THEOREM ReactorTablesAgree == Spec => []TablesAgree
<1>1. ReactorInv => TablesAgree
  BY DEF ReactorInv, TablesInv
<1> QED BY <1>1, ReactorInvariant, PTL

(* EPOLLOUT is registered with the kernel for a connection if and only if it
   has output to send. *)
THEOREM ReactorWriteInterest == Spec => []WriteInterestIffPending
<1>1. ReactorInv => WriteInterestIffPending
  <2> SUFFICES ASSUME ReactorInv, NEW fd \in DOMAIN connections_
               PROVE  EPOLLOUT \in interest[fd] <=> connections_[fd].out > 0
    BY DEF WriteInterestIffPending
  <2>1. interest[fd] = Wanted(connections_[fd].out)
    BY DEF ReactorInv, TablesInv, TablesAgree, EventsFollowOutput
  <2> QED BY <2>1 DEF Wanted, EPOLLIN, EPOLLOUT
<1> QED BY <1>1, ReactorInvariant, PTL
=============================================================================
