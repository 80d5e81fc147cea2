------------------------------ MODULE Reactor ------------------------------
(***************************************************************************)
(* One EventLoop serving connections: the dispatch of a batch of epoll     *)
(* events, Connection's reading, decoding and sending, the table of        *)
(* ConnectionManager, the interest set of EpollPoller, and the kernel      *)
(* (sockets, descriptors, epoll) with the peers behind it.                 *)
(*                                                                         *)
(* Bytes are counted, not named: a request is MsgLen units, the message    *)
(* callback answers each complete request with RespLen units.              *)
(***************************************************************************)
EXTENDS Integers, Sequences, FiniteSets, Functions

CONSTANTS
    Sockets,        \* client connections, one for each connect() of a peer
    Fds,            \* the descriptors the process may give to connections
    Listener,       \* the listening socket as a source of events
    Timer,          \* the timerfd as a source of events
    MsgLen,         \* length of a request
    RespLen,        \* length of a response
    SndBuf,         \* capacity of a kernel send buffer
    IdleLimit,      \* periods of idleness a connection survives
    MaxEvents,      \* max_events: the size of a batch
    AcceptMayFail,  \* TRUE if accept can fail with descriptors to spare
    MaxSent         \* bound of the model: how many units each peer sends

ASSUME ReactorAssumption ==
    /\ Listener \notin Fds
    /\ Timer \notin Fds
    /\ Listener # Timer
    /\ IsFiniteSet(Fds)
    /\ MsgLen \in Nat \ {0}
    /\ RespLen \in Nat \ {0}
    /\ SndBuf \in Nat \ {0}
    /\ IdleLimit \in Nat
    /\ MaxEvents \in Nat \ {0}
    /\ AcceptMayFail \in BOOLEAN
    /\ MaxSent \in [Sockets -> Nat]

VARIABLES
    connections_,   \* ConnectionManager: the Connection of each descriptor
    fd_events_,     \* EpollPoller: the events it believes are registered
    interest,       \* kernel: the events registered with epoll
    fdTable,        \* kernel: the socket behind each open descriptor
    sock,           \* kernel and peer: the state of each socket
    timerReady,     \* kernel: the idle check's timer has expired
    batch,          \* the events of this round not yet dispatched
    alive           \* FALSE once an exception has left run()

loop == << connections_, fd_events_, interest, fdTable >>
vars == << loop, sock, timerReady, batch, alive >>

EPOLLIN == "IN"
EPOLLOUT == "OUT"

Conn == [in: Nat, out: Nat, events: SUBSET {EPOLLIN, EPOLLOUT}, peerClose: BOOLEAN,
         idle: 0 .. IdleLimit + 1]

Sock == [phase: {"new", "backlog", "open", "closed"}, sent: Nat, inq: Nat,
         fin: BOOLEAN, rst: BOOLEAN, sndq: 0 .. SndBuf, got: Nat]

(* An entry stands for a READ event, a WRITE event or a READ followed by a
   WRITE of one descriptor, or for the event of the listener or the timer. *)
Entry == [src: Fds \cup {Listener, Timer}, rd: BOOLEAN, wr: BOOLEAN]

NewConn == [in |-> 0, out |-> 0, events |-> {EPOLLIN}, peerClose |-> FALSE, idle |-> 0]

NewSock == [phase |-> "new", sent |-> 0, inq |-> 0, fin |-> FALSE, rst |-> FALSE,
            sndq |-> 0, got |-> 0]

Init ==
    /\ connections_ = << >>
    /\ fd_events_ = << >>
    /\ interest = << >>
    /\ fdTable = << >>
    /\ sock = [s \in Sockets |-> NewSock]
    /\ timerReady = FALSE
    /\ batch = << >>
    /\ alive = TRUE

-----------------------------------------------------------------------------
(* The peers and the clock. *)

Peer(s, k) ==
    /\ sock' = [sock EXCEPT ![s] = k]
    /\ UNCHANGED << loop, timerReady, batch, alive >>

Connected(s) == sock[s].phase \in {"backlog", "open"} /\ ~ sock[s].rst

PeerConnect(s) ==
    /\ sock[s].phase = "new"
    /\ Peer(s, [sock[s] EXCEPT !.phase = "backlog"])

PeerSend(s) ==
    /\ Connected(s) /\ ~ sock[s].fin
    /\ sock[s].sent < MaxSent[s]
    /\ Peer(s, [sock[s] EXCEPT !.sent = @ + 1, !.inq = @ + 1])

(* shutdown(SHUT_WR): the peer sends no more but goes on reading. *)
PeerFin(s) ==
    /\ Connected(s) /\ ~ sock[s].fin
    /\ Peer(s, [sock[s] EXCEPT !.fin = TRUE])

(* A reset also discards what the kernel had not transmitted. *)
PeerReset(s) ==
    /\ Connected(s)
    /\ Peer(s, [sock[s] EXCEPT !.rst = TRUE, !.sndq = 0])

PeerRead(s) ==
    /\ ~ sock[s].rst
    /\ sock[s].sndq > 0
    /\ Peer(s, [sock[s] EXCEPT !.sndq = @ - 1, !.got = @ + 1])

(* A period of the idle check goes by; idleness saturates past the limit.  The
   timerfd expires, or it was left disarmed, for which see TimerQueue. *)
TimePasses ==
    /\ connections_' = [fd \in DOMAIN connections_ |->
          [connections_[fd] EXCEPT !.idle = IF @ > IdleLimit THEN @ ELSE @ + 1]]
    /\ timerReady' \in {timerReady, TRUE}
    /\ UNCHANGED << fd_events_, interest, fdTable, sock, batch, alive >>

-----------------------------------------------------------------------------
(* epoll_wait and get_events. *)

Backlog == {s \in Sockets : sock[s].phase = "backlog"}
FreeFds == Fds \ DOMAIN fdTable

Readable(fd) ==
    LET k == sock[fdTable[fd]] IN EPOLLIN \in interest[fd] /\ (k.inq > 0 \/ k.fin \/ k.rst)

Writable(fd) ==
    LET k == sock[fdTable[fd]] IN EPOLLOUT \in interest[fd] /\ (k.sndq < SndBuf \/ k.rst)

Ready ==
    {fd \in DOMAIN interest : Readable(fd) \/ Writable(fd)}
        \cup {src \in {Listener} : Backlog # {}}
        \cup {src \in {Timer} : timerReady}

EntryOf(src) ==
    [src |-> src, rd |-> src \in Fds /\ Readable(src), wr |-> src \in Fds /\ Writable(src)]

(* A round begins with as many ready sources as a batch holds, in any order. *)
Poll ==
    /\ alive
    /\ batch = << >>
    /\ Ready # {}
    /\ \E n \in 1 .. MaxEvents :
         /\ n = MaxEvents \/ n = Cardinality(Ready)
         /\ \E order \in Injection(1 .. n, Ready) :
              batch' = [i \in 1 .. n |-> EntryOf(order[i])]
    /\ UNCHANGED << loop, sock, timerReady, alive >>

Dispatching(src) ==
    /\ alive
    /\ batch # << >>
    /\ Head(batch).src = src

-----------------------------------------------------------------------------
(* ConnectionManager and EpollPoller. *)

Insert(table, fd, e) == [x \in DOMAIN table \cup {fd} |-> IF x = fd THEN e ELSE table[x]]

(* Mutant: the cache is not brought up to date. *)
ModifyFd_StaleCache(fd, events) ==
    IF fd \in DOMAIN fd_events_ /\ fd_events_[fd] = events
    THEN UNCHANGED << fd_events_, interest >>
    ELSE /\ interest' = [interest EXCEPT ![fd] = events]
         /\ UNCHANGED fd_events_

(* modify_fd, which trusts its cache. *)
ModifyFd(fd, events) ==
    IF fd \in DOMAIN fd_events_ /\ fd_events_[fd] = events
    THEN UNCHANGED << fd_events_, interest >>
    ELSE /\ interest' = [interest EXCEPT ![fd] = events]
         /\ fd_events_' = Insert(fd_events_, fd, events)

(* add_connection: the descriptor enters the interest set only if its
   connection is a new one. *)
AddConnection(fd) ==
    IF fd \in DOMAIN connections_
    THEN UNCHANGED << connections_, fd_events_, interest >>
    ELSE /\ connections_' = Insert(connections_, fd, NewConn)
         /\ fd_events_' = Insert(fd_events_, fd, {EPOLLIN})
         /\ interest' = Insert(interest, fd, {EPOLLIN})

(* close(fd): input nobody read turns the close into a reset. *)
CloseSock(k) ==
    [k EXCEPT !.phase = "closed", !.inq = 0, !.sndq = IF k.inq > 0 THEN 0 ELSE @]

(* Mutant: the destructor does not close the descriptor. *)
DeleteConnections_Leak(fds, k) ==
    /\ connections_' = Restrict(connections_, DOMAIN connections_ \ fds)
    /\ fd_events_' = Restrict(fd_events_, DOMAIN fd_events_ \ fds)
    /\ interest' = Restrict(interest, DOMAIN interest \ fds)
    /\ sock' = [s \in Sockets |->
                  IF \E fd \in fds : fdTable[fd] = s THEN CloseSock(k[s]) ELSE k[s]]
    /\ UNCHANGED fdTable

(* delete_connection of each of fds: out of epoll, out of the table, and
   closed by the destructor.  k is the state of the sockets before. *)
DeleteConnections(fds, k) ==
    /\ connections_' = Restrict(connections_, DOMAIN connections_ \ fds)
    /\ fd_events_' = Restrict(fd_events_, DOMAIN fd_events_ \ fds)
    /\ interest' = Restrict(interest, DOMAIN interest \ fds)
    /\ fdTable' = Restrict(fdTable, DOMAIN fdTable \ fds)
    /\ sock' = [s \in Sockets |->
                  IF \E fd \in fds : fdTable[fd] = s THEN CloseSock(k[s]) ELSE k[s]]

-----------------------------------------------------------------------------
(* Connection. *)

Received(c, k) ==
    [c EXCEPT !.in = @ + k.inq,
              !.idle = IF k.inq > 0 THEN 0 ELSE @,
              !.peerClose = @ \/ k.fin]

(* Mutant: the rest after the last complete request is dropped. *)
Decoded_DropRest(c) ==
    [c EXCEPT !.in = 0, !.out = @ + RespLen * (c.in \div MsgLen)]

(* decode_message and the message callback until no request is complete. *)
Decoded(c) ==
    [c EXCEPT !.in = c.in % MsgLen, !.out = @ + RespLen * (c.in \div MsgLen)]

(* Mutants of the bookkeeping after a send: one unit too many is fetched, or
   the write interest is never dropped, or never registered. *)
Sent(c, k, n, out, events) ==
    LET queued == k.sndq + n
        kept == IF queued > SndBuf THEN SndBuf ELSE queued
    IN  [conn |-> [c EXCEPT !.out = out, !.events = events, !.idle = IF n > 0 THEN 0 ELSE @],
         sock |-> [k EXCEPT !.sndq = kept, !.got = @ + (queued - kept)]]

Accepted_OverFetch(c, k, n) ==
    Sent(c, k, n, IF n > 0 THEN c.out - n - 1 ELSE c.out, c.events)

Accepted_NoDisable(c, k, n) ==
    Sent(c, k, n, c.out - n, IF n < c.out THEN c.events \cup {EPOLLOUT} ELSE c.events)

Accepted_NoEnable(c, k, n) == Sent(c, k, n, c.out - n, {EPOLLIN})

(* n units were accepted by the kernel, the peer draining meanwhile as many
   as the buffer cannot hold; then EAGAIN, or nothing is left to send. *)
Accepted(c, k, n) ==
    LET queued == k.sndq + n
        kept == IF queued > SndBuf THEN SndBuf ELSE queued
    IN  [conn |-> [c EXCEPT !.out = @ - n,
                            !.events = IF n < c.out THEN @ \cup {EPOLLOUT} ELSE @ \ {EPOLLOUT},
                            !.idle = IF n > 0 THEN 0 ELSE @],
         sock |-> [k EXCEPT !.sndq = kept, !.got = @ + (queued - kept)]]

(* send_data followed by what both its callers do with its result: the
   connection goes when the send failed, or when nothing is left to send to a
   peer that has shut down its side. *)
SendData(fd, c, k) ==
    LET s == fdTable[fd] IN
    \/ /\ c.out > 0 /\ k.rst
       /\ DeleteConnections({fd}, [sock EXCEPT ![s] = k])
    \/ /\ c.out = 0 \/ ~ k.rst
       /\ \E n \in 0 .. c.out :
            /\ n = c.out \/ k.sndq + n >= SndBuf
            /\ LET r == Accepted(c, k, n) IN
               IF r.conn.peerClose /\ r.conn.out = 0
               THEN DeleteConnections({fd}, [sock EXCEPT ![s] = r.sock])
               ELSE /\ connections_' = [connections_ EXCEPT ![fd] = r.conn]
                    /\ sock' = [sock EXCEPT ![s] = r.sock]
                    /\ IF r.conn.events # connections_[fd].events
                       THEN ModifyFd(fd, r.conn.events)
                       ELSE UNCHANGED << fd_events_, interest >>
                    /\ UNCHANGED fdTable

(* Mutants of the end of recv_data: no data counts as the end of the stream,
   the end of the stream outranks data read before it, or it is ignored. *)
ReceiveUnless(fd, close) ==
    LET c == connections_[fd]
        s == fdTable[fd]
        k == sock[s]
        drained == [k EXCEPT !.inq = 0]
    IN
    \/ close /\ DeleteConnections({fd}, [sock EXCEPT ![s] = drained])
    \/ ~ close /\ k.inq = 0 /\ UNCHANGED << loop, sock >>
    \/ ~ close /\ k.inq > 0 /\ SendData(fd, Decoded(Received(c, k)), drained)

ReceiveData_EmptyIsEof(fd) ==
    ReceiveUnless(fd, sock[fdTable[fd]].rst \/ sock[fdTable[fd]].inq = 0)

ReceiveData_EofFirst(fd) ==
    ReceiveUnless(fd, sock[fdTable[fd]].rst \/ sock[fdTable[fd]].fin)

ReceiveData_IgnoreEof(fd) ==
    ReceiveUnless(fd, sock[fdTable[fd]].rst)

(* recv_data and the rest of handle_client_event. *)
ReceiveData(fd) ==
    LET c == connections_[fd]
        s == fdTable[fd]
        k == sock[s]
        drained == [k EXCEPT !.inq = 0]
    IN
    \/ /\ k.rst \/ (k.inq = 0 /\ (c.peerClose \/ k.fin))
       /\ DeleteConnections({fd}, [sock EXCEPT ![s] = drained])
    \/ /\ ~ k.rst /\ k.inq = 0 /\ ~ c.peerClose /\ ~ k.fin
       /\ UNCHANGED << loop, sock >>
    \/ /\ ~ k.rst /\ k.inq > 0
       /\ SendData(fd, Decoded(Received(c, k)), drained)

-----------------------------------------------------------------------------
(* run(): the event at the head of the batch. *)

(* One accept() of accept_new_connection. *)
AcceptConnection(s, fd) ==
    /\ Dispatching(Listener)
    /\ s \in Backlog
    /\ fd \in FreeFds
    /\ fdTable' = Insert(fdTable, fd, s)
    /\ sock' = [sock EXCEPT ![s].phase = "open"]
    /\ AddConnection(fd)
    /\ UNCHANGED << timerReady, batch, alive >>

(* accept() finds nobody waiting: the loop of accept_new_connection ends. *)
AcceptNothing ==
    /\ Dispatching(Listener)
    /\ Backlog = {} /\ FreeFds # {}
    /\ batch' = Tail(batch)
    /\ UNCHANGED << loop, sock, timerReady, alive >>

(* Out of descriptors accept() fails with EMFILE, before it looks at the
   backlog; it or fcntl may also fail for want of memory or of files in the
   whole system.  SocketListener throws and nothing in run() catches. *)
AcceptThrows ==
    /\ Dispatching(Listener)
    /\ FreeFds = {} \/ AcceptMayFail
    /\ alive' = FALSE
    /\ UNCHANGED << loop, sock, timerReady, batch >>

HandleRead(fd) ==
    /\ Dispatching(fd)
    /\ Head(batch).rd
    /\ IF fd \in DOMAIN connections_
       THEN ReceiveData(fd)
       ELSE UNCHANGED << loop, sock >>
    /\ batch' = IF Head(batch).wr
                THEN [batch EXCEPT ![1].rd = FALSE]
                ELSE Tail(batch)
    /\ UNCHANGED << timerReady, alive >>

HandleWrite(fd) ==
    /\ Dispatching(fd)
    /\ ~ Head(batch).rd
    /\ IF fd \in DOMAIN connections_
       THEN SendData(fd, connections_[fd], sock[fdTable[fd]])
       ELSE UNCHANGED << loop, sock >>
    /\ batch' = Tail(batch)
    /\ UNCHANGED << timerReady, alive >>

(* The idle check of startIdleTimeout. *)
HandleTimer ==
    /\ Dispatching(Timer)
    /\ DeleteConnections({fd \in DOMAIN connections_ : connections_[fd].idle > IdleLimit}, sock)
    /\ timerReady' = FALSE
    /\ batch' = Tail(batch)
    /\ UNCHANGED alive

LoopStep ==
    \/ Poll
    \/ \E s \in Sockets, fd \in Fds : AcceptConnection(s, fd)
    \/ AcceptNothing
    \/ AcceptThrows
    \/ \E fd \in Fds : HandleRead(fd) \/ HandleWrite(fd)
    \/ HandleTimer

PeerStep(s) ==
    \/ PeerConnect(s)
    \/ PeerSend(s)
    \/ PeerFin(s)
    \/ PeerReset(s)
    \/ PeerRead(s)

Next ==
    \/ LoopStep
    \/ \E s \in Sockets : PeerStep(s)
    \/ TimePasses

Spec == Init /\ [][Next]_vars

(* run() is always scheduled and peers keep reading what they are sent.
   Nothing is assumed of what peers send, of when they leave, or of time. *)
Fairness ==
    /\ WF_vars(LoopStep)
    /\ \A s \in Sockets : WF_vars(PeerRead(s))

FairSpec == Spec /\ Fairness

-----------------------------------------------------------------------------
TypeOK ==
    /\ DOMAIN connections_ \subseteq Fds
    /\ connections_ \in [DOMAIN connections_ -> Conn]
    /\ DOMAIN fd_events_ \subseteq Fds
    /\ fd_events_ \in [DOMAIN fd_events_ -> SUBSET {EPOLLIN, EPOLLOUT}]
    /\ DOMAIN interest \subseteq Fds
    /\ interest \in [DOMAIN interest -> SUBSET {EPOLLIN, EPOLLOUT}]
    /\ DOMAIN fdTable \subseteq Fds
    /\ fdTable \in [DOMAIN fdTable -> Sockets]
    /\ sock \in [Sockets -> Sock]
    /\ \A s \in Sockets : sock[s].sent <= MaxSent[s]
    /\ timerReady \in BOOLEAN
    /\ batch \in Seq(Entry)
    /\ alive \in BOOLEAN

(* Four tables in three layers describe one set of connections: an open
   descriptor has a Connection, an entry in the poller's cache and one in the
   kernel's interest set, all with the same events, and belongs to one open
   socket.  No descriptor leaks, and none is served after its close. *)
TablesAgree ==
    /\ DOMAIN connections_ = DOMAIN fdTable
    /\ fd_events_ = interest
    /\ interest = [fd \in DOMAIN connections_ |-> connections_[fd].events]
    /\ \A s \in Sockets : sock[s].phase = "open" <=> \E fd \in DOMAIN fdTable : fdTable[fd] = s
    /\ \A fd1, fd2 \in DOMAIN fdTable : fdTable[fd1] = fdTable[fd2] => fd1 = fd2

(* Between two handlers EPOLLOUT is registered exactly for the connections
   with unsent output: without it a response would wait for ever, with it on
   an idle connection the loop would spin. *)
WriteInterestIffPending ==
    \A fd \in DOMAIN connections_ : EPOLLOUT \in interest[fd] <=> connections_[fd].out > 0

Answerable(n) == RespLen * (n \div MsgLen)

(* Across partial reads, half requests, partial sends, EPOLLOUT rounds and
   descriptors that change hands, the output made for a connection is what
   its own peer's complete requests call for: every unit is with the peer, in
   the kernel or pending.  Nothing is lost, sent twice, or sent to another. *)
OutputMatchesInput ==
    /\ \A fd \in DOMAIN connections_ :
         LET c == connections_[fd]
             k == sock[fdTable[fd]]
         IN  /\ c.in = (k.sent - k.inq) % MsgLen
             /\ ~ k.rst => k.got + k.sndq + c.out = Answerable(k.sent - k.inq)
    /\ \A s \in Sockets : sock[s].got + sock[s].sndq <= Answerable(sock[s].sent)

(* The socket of fd is closed by this step. *)
Closes(fd) == fd \in DOMAIN fdTable /\ fd \notin DOMAIN fdTable'

(* A connection is closed only because its peer shut down or reset it or
   because it was idle too long, never by an event that was collected for an
   earlier owner of its descriptor in the same batch. *)
ClosedForCause ==
    [][\A fd \in Fds : Closes(fd) =>
          \/ sock[fdTable[fd]].fin
          \/ sock[fdTable[fd]].rst
          \/ connections_[fd].idle > IdleLimit]_vars

(* When a peer that shut down its side is let go and no output was waiting
   from an earlier round, all of its complete requests have been answered. *)
GracefulCloseAnswersAll ==
    [][\A fd \in Fds : Closes(fd) =>
          LET k == sock[fdTable[fd]]
              after == sock'[fdTable[fd]]
          IN  \/ k.rst
              \/ connections_[fd].idle > IdleLimit
              \/ connections_[fd].out > 0
              \/ after.got + after.sndq = Answerable(k.sent)]_vars

(* Running out of descriptors ends the process, but only connections that are
   open can have used them up: whatever way a connection ended, its descriptor
   came back.  Where accept fails for no other reason, the loop dies of nothing
   else. *)
DiesOnlyWhenFull ==
    ~ alive /\ ~ AcceptMayFail =>
        Cardinality({s \in Sockets : sock[s].phase = "open"}) = Cardinality(Fds)

(* What README.md 5.2 promises: with a peer that shut down its sending side,
   pending output is sent before the connection is cleaned up. *)
HalfCloseCompletes ==
    [][\A fd \in Fds : Closes(fd) =>
          LET k == sock[fdTable[fd]]
              after == sock'[fdTable[fd]]
          IN  \/ k.rst
              \/ connections_[fd].idle > IdleLimit
              \/ after.got + after.sndq = Answerable(k.sent)]_vars

(* A peer that keeps its connection gets all the answers it is owed. *)
RequestsAnswered ==
    \A s \in Sockets :
        sock[s].phase \in {"backlog", "open"} ~>
            \/ sock[s].got = Answerable(sock[s].sent)
            \/ sock[s].fin \/ sock[s].rst
            \/ sock[s].phase = "closed"
            \/ ~ alive

Deserted(s) == sock[s].phase \in {"backlog", "open"} /\ (sock[s].fin \/ sock[s].rst)

Expired(s) ==
    \E fd \in DOMAIN connections_ : fdTable[fd] = s /\ connections_[fd].idle > IdleLimit

(* A connection whose peer shut down or reset it is let go, and so is one past the
   idle limit once the idle check's timer has expired, unless it comes back to life
   first. *)
DoomedConnectionsReaped ==
    \A s \in Sockets :
        /\ Deserted(s) ~> (~ Deserted(s) \/ ~ alive)
        /\ (Expired(s) /\ timerReady) ~> (~ Expired(s) \/ ~ alive)
=============================================================================
