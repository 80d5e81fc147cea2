-------------------------- MODULE ReactorFlowProofs --------------------------
(***************************************************************************)
(* Where every unit of a connection's input and output is, for any number  *)
(* of peers and descriptors, any lengths and any order of events: the      *)
(* output a socket has been given is what its requests call for, a         *)
(* connection is closed only for cause, and descriptors run out only when  *)
(* open connections hold them all.                                         *)
(***************************************************************************)
EXTENDS ReactorProofs, FiniteSetTheorems

(* A socket alone: what was read of it is what was sent less what is queued,
   it has nothing to give before it is accepted, and the answers it was given
   answer requests that were sent. *)
SocketFlow(k) ==
    /\ k.inq <= k.sent
    /\ k.phase \in {"new", "backlog"} => k.inq = k.sent /\ k.got = 0 /\ k.sndq = 0
    /\ k.got + k.sndq <= Answerable(k.sent)

(* A connection and the socket behind its descriptor: the undecoded rest and
   the output still to be sent. *)
Balanced(c, k) ==
    /\ c.in = (k.sent - k.inq) % MsgLen
    /\ ~ k.rst => k.got + k.sndq + c.out = Answerable(k.sent - k.inq)

(* A connection survives the end of its peer's stream only for its output. *)
Lingers(c, k) == c.peerClose => k.fin /\ c.out > 0

FlowInv ==
    /\ \A s \in Sockets : SocketFlow(sock[s])
    /\ \A fd \in DOMAIN connections_ :
         /\ Balanced(connections_[fd], sock[fdTable[fd]])
         /\ Lingers(connections_[fd], sock[fdTable[fd]])

-----------------------------------------------------------------------------
(* Arithmetic of requests and answers. *)

(* Quotient and remainder are natural numbers. *)
LEMMA DivModTyped ==
    ASSUME NEW a \in Nat, NEW m \in Nat \ {0}
    PROVE  a % m \in Nat /\ a \div m \in Nat
OBVIOUS

(* More units hold at least as many messages. *)
LEMMA DivMono ==
    ASSUME NEW m \in Nat \ {0}, NEW a \in Nat, NEW b \in Nat, a <= b
    PROVE  a \div m <= b \div m
OBVIOUS

(* More messages have at least as long a response. *)
LEMMA MulMono ==
    ASSUME NEW m \in Nat, NEW a \in Nat, NEW b \in Nat, a <= b
    PROVE  m * a <= m * b /\ m * a \in Nat
OBVIOUS

(* Decoding the rest together with what comes after it decodes as much as
   decoding the whole. *)
LEMMA DivAdd ==
    ASSUME NEW m \in Nat \ {0}, NEW a \in Nat, NEW b \in Nat
    PROVE  /\ ((a % m) + b) % m = (a + b) % m
           /\ (a + b) \div m = (a \div m) + (((a % m) + b) \div m)
OBVIOUS

(* The responses to two batches of messages are those to both together. *)
LEMMA MulAdd ==
    ASSUME NEW r \in Nat, NEW a \in Nat, NEW b \in Nat
    PROVE  r * (a + b) = (r * a) + (r * b)
OBVIOUS

(* What n units of requests call for is a number of units. *)
LEMMA AnswerableTyped ==
    ASSUME NEW n \in Nat
    PROVE  Answerable(n) \in Nat
<1>1. MsgLen \in Nat \ {0} /\ RespLen \in Nat
  BY ReactorAssumption
<1>2. n \div MsgLen \in Nat
  BY <1>1, DivModTyped
<1> QED BY <1>1, <1>2, MulMono DEF Answerable

(* More input never calls for less output. *)
LEMMA AnswerableMono ==
    ASSUME NEW a \in Nat, NEW b \in Nat, a <= b
    PROVE  Answerable(a) <= Answerable(b)
<1>1. MsgLen \in Nat \ {0} /\ RespLen \in Nat
  BY ReactorAssumption
<1>2. a \div MsgLen \in Nat /\ b \div MsgLen \in Nat /\ a \div MsgLen <= b \div MsgLen
  BY <1>1, DivModTyped, DivMono
<1> QED BY <1>1, <1>2, MulMono DEF Answerable

(* b units after a earlier ones call for what the rest of a and b call for. *)
LEMMA AnswerableAdd ==
    ASSUME NEW a \in Nat, NEW b \in Nat
    PROVE  /\ ((a % MsgLen) + b) % MsgLen = (a + b) % MsgLen
           /\ Answerable(a + b) = Answerable(a) + Answerable((a % MsgLen) + b)
<1> DEFINE m == MsgLen
           rest == (a % m) + b
<1>1. m \in Nat \ {0} /\ RespLen \in Nat
  BY ReactorAssumption
<1>2. a % m \in Nat /\ a \div m \in Nat
  BY <1>1, DivModTyped
<1>3. rest \in Nat
  BY <1>2
<1>4. rest \div m \in Nat
  BY <1>1, <1>3, DivModTyped
<1>5. rest % m = (a + b) % m /\ (a + b) \div m = (a \div m) + (rest \div m)
  BY <1>1, DivAdd
<1>6. RespLen * ((a \div m) + (rest \div m)) = (RespLen * (a \div m)) + (RespLen * (rest \div m))
  BY <1>1, <1>2, <1>4, MulAdd
<1> QED BY <1>5, <1>6 DEF Answerable

-----------------------------------------------------------------------------
(* The operators of a connection. *)

(* A send moves units from the output to the kernel and the peer. *)
LEMMA AcceptedFlow ==
    ASSUME NEW c \in Conn, NEW k \in Sock, NEW n \in 0 .. c.out,
           NEW r, r = Accepted(c, k, n)
    PROVE  /\ r.conn.in = c.in /\ r.conn.peerClose = c.peerClose
           /\ r.conn.out \in Nat
           /\ r.sock.phase = k.phase /\ r.sock.sent = k.sent /\ r.sock.inq = k.inq
           /\ r.sock.fin = k.fin /\ r.sock.rst = k.rst
           /\ r.sock.got \in Nat /\ r.sock.sndq \in Nat
           /\ r.sock.got + r.sock.sndq + r.conn.out = k.got + k.sndq + c.out
<1> DEFINE queued == k.sndq + n
           kept == IF queued > SndBuf THEN SndBuf ELSE queued
<1>1. /\ c.out \in Nat /\ k.sndq \in Nat /\ k.got \in Nat /\ SndBuf \in Nat /\ n \in Nat
      /\ n <= c.out
  BY ReactorAssumption DEF Conn, Sock
<1>2. /\ kept \in Nat /\ queued - kept \in Nat /\ c.out - n \in Nat
      /\ (k.got + (queued - kept)) + kept + (c.out - n) = k.got + k.sndq + c.out
  BY <1>1
<1>3. /\ r.conn.in = c.in /\ r.conn.peerClose = c.peerClose /\ r.conn.out = c.out - n
  BY DEF Accepted, Conn
<1>4. /\ r.sock.phase = k.phase /\ r.sock.sent = k.sent /\ r.sock.inq = k.inq
      /\ r.sock.fin = k.fin /\ r.sock.rst = k.rst
      /\ r.sock.got = k.got + (queued - kept) /\ r.sock.sndq = kept
  BY DEF Accepted, Sock
<1> HIDE DEF queued, kept
<1>5. r.sock.got \in Nat
  BY <1>1, <1>2, <1>4
<1> QED BY <1>1, <1>2, <1>3, <1>4, <1>5

(* What the connection is after receiving all that is queued and decoding it. *)
LEMMA DecodedFlow ==
    ASSUME NEW c \in Conn, NEW k \in Sock, NEW d, d = Decoded(Received(c, k))
    PROVE  /\ d.in = (c.in + k.inq) % MsgLen
           /\ d.out = c.out + Answerable(c.in + k.inq)
           /\ d.peerClose = (c.peerClose \/ k.fin)
<1> DEFINE r == Received(c, k)
<1>1. /\ r.in = c.in + k.inq /\ r.out = c.out /\ r.peerClose = (c.peerClose \/ k.fin)
      /\ DOMAIN r = DOMAIN c
  BY DEF Received, Conn
<1>2. r = [r EXCEPT !.in = r.in] /\ DOMAIN c = {"in", "out", "events", "peerClose", "idle"}
  BY DEF Received, Conn
<1> HIDE DEF r
<1>3. /\ Decoded(r).in = r.in % MsgLen
      /\ Decoded(r).out = r.out + RespLen * (r.in \div MsgLen)
      /\ Decoded(r).peerClose = r.peerClose
  BY <1>1, <1>2 DEF Decoded
<1> QED BY <1>1, <1>3 DEF Answerable, r

(* A closed socket keeps what the peer sent and has; at most output is lost. *)
LEMMA CloseSockFlow ==
    ASSUME NEW k \in Sock, SocketFlow(k), NEW z, z = CloseSock(k)
    PROVE  /\ SocketFlow(z)
           /\ z.got = k.got /\ z.sent = k.sent
           /\ k.inq = 0 => z.sndq = k.sndq
<1>1. /\ z.phase = "closed" /\ z.inq = 0 /\ z.sent = k.sent /\ z.got = k.got
      /\ z.sndq = IF k.inq > 0 THEN 0 ELSE k.sndq
  BY DEF CloseSock, Sock
<1>2. k.sent \in Nat /\ k.got \in Nat /\ k.sndq \in Nat /\ k.inq \in Nat
  BY ReactorAssumption DEF Sock
<1>3. Answerable(k.sent) \in Nat
  BY <1>2, AnswerableTyped
<1> QED BY <1>1, <1>2, <1>3 DEF SocketFlow

-----------------------------------------------------------------------------
(* The tables.  The sockets of other descriptors are out of a handler's reach
   because no two descriptors share one. *)

(* Deleting connections leaves the connections that remain as they were. *)
LEMMA DeleteFlow ==
    ASSUME TablesInv, FlowInv,
           NEW fds \in SUBSET DOMAIN connections_,
           NEW k \in [Sockets -> Sock],
           \A s \in Sockets : SocketFlow(k[s]),
           \A fd \in DOMAIN connections_ \ fds : k[fdTable[fd]] = sock[fdTable[fd]],
           DeleteConnections(fds, k)
    PROVE  /\ FlowInv'
           /\ DOMAIN fdTable' = DOMAIN fdTable \ fds
           /\ \A fd \in fds : sock'[fdTable[fd]] = CloseSock(k[fdTable[fd]])
<1> DEFINE rest == DOMAIN connections_ \ fds
<1>0. /\ DOMAIN fdTable = DOMAIN connections_
      /\ \A fd \in DOMAIN connections_ : fdTable[fd] \in Sockets
  BY OpenConnection DEF TablesInv, TablesAgree
<1>1. /\ DOMAIN connections_' = rest /\ \A x \in rest : connections_'[x] = connections_[x]
      /\ DOMAIN fdTable' = rest /\ \A x \in rest : fdTable'[x] = fdTable[x]
  BY <1>0, RestrictProperties DEF DeleteConnections
<1>2. ASSUME NEW s \in Sockets
      PROVE  /\ (\E fd \in fds : fdTable[fd] = s) => sock'[s] = CloseSock(k[s])
             /\ (~ \E fd \in fds : fdTable[fd] = s) => sock'[s] = k[s]
  BY DEF DeleteConnections
<1>3. ASSUME NEW s \in Sockets PROVE SocketFlow(sock'[s])
  BY <1>2, CloseSockFlow
<1>4. ASSUME NEW fd \in rest
      PROVE  sock'[fdTable'[fd]] = sock[fdTable[fd]]
  <2>1. fdTable'[fd] = fdTable[fd] /\ fdTable[fd] \in Sockets
    BY <1>0, <1>1
  <2>2. ~ \E x \in fds : fdTable[x] = fdTable[fd]
    BY <1>0 DEF TablesInv, TablesAgree
  <2>3. sock'[fdTable[fd]] = k[fdTable[fd]]
    BY <1>2, <2>1, <2>2
  <2> QED BY <2>1, <2>3
<1>5. ASSUME NEW fd \in rest
      PROVE  /\ Balanced(connections_'[fd], sock'[fdTable'[fd]])
             /\ Lingers(connections_'[fd], sock'[fdTable'[fd]])
  BY <1>1, <1>4 DEF FlowInv
<1>6. FlowInv'
  BY <1>1, <1>3, <1>5 DEF FlowInv, SocketFlow, Balanced, Lingers, Answerable
<1>7. DOMAIN fdTable' = DOMAIN fdTable \ fds
  BY <1>0, <1>1
<1>8. \A fd \in fds : sock'[fdTable[fd]] = CloseSock(k[fdTable[fd]])
  BY <1>0, <1>2
<1> QED BY <1>6, <1>7, <1>8

(* A handler that keeps its connection changes it and its socket only. *)
LEMMA UpdateFlow ==
    ASSUME TablesInv, FlowInv,
           NEW fd \in DOMAIN connections_, NEW c, NEW k,
           SocketFlow(k), Balanced(c, k), Lingers(c, k),
           connections_' = [connections_ EXCEPT ![fd] = c],
           sock' = [sock EXCEPT ![fdTable[fd]] = k],
           UNCHANGED fdTable
    PROVE  FlowInv'
<1> DEFINE T == DOMAIN connections_
           s == fdTable[fd]
<1>0. /\ DOMAIN fdTable = T /\ s \in Sockets
      /\ sock \in [Sockets -> Sock]
      /\ \A x \in T : fdTable[x] \in Sockets
      /\ \A x \in T \ {fd} : fdTable[x] # s
  BY OpenConnection DEF TablesInv, TablesAgree, TablesTyped
<1>1. /\ DOMAIN connections_' = T /\ connections_'[fd] = c
      /\ \A x \in T \ {fd} : connections_'[x] = connections_[x]
  BY DEF TablesInv, TablesTyped
<1>2. sock'[s] = k /\ \A q \in Sockets \ {s} : sock'[q] = sock[q]
  BY <1>0
<1>3. \A q \in Sockets : SocketFlow(sock'[q])
  BY <1>2 DEF FlowInv
<1>4. ASSUME NEW x \in T
      PROVE  /\ Balanced(connections_'[x], sock'[fdTable'[x]])
             /\ Lingers(connections_'[x], sock'[fdTable'[x]])
  BY <1>0, <1>1, <1>2 DEF FlowInv
<1> QED BY <1>1, <1>3, <1>4 DEF FlowInv, SocketFlow, Balanced, Lingers, Answerable

(* Only fd is closed, and its peer has reset the connection or has shut down
   its side and c knew it; then all that the input calls for has been given to
   the kernel, unless input that nobody read was queued. *)
ClosedAfter(fd, c, k) ==
    \A x \in DOMAIN fdTable \ DOMAIN fdTable' :
        /\ x = fd
        /\ \/ k.rst
           \/ /\ k.fin /\ c.peerClose
              /\ k.inq = 0 =>
                   sock'[fdTable[fd]].got + sock'[fdTable[fd]].sndq = Answerable(k.sent)

(* send_data moves output to the peer and lets go of the connection only with a cause. *)
LEMMA SendFlow ==
    ASSUME TablesInv, FlowInv,
           NEW fd \in DOMAIN connections_,
           NEW c \in Conn, EPOLLIN \in c.events,
           NEW k \in Sock, k.phase = "open",
           SocketFlow(k), Balanced(c, k), c.peerClose => k.fin,
           SendData(fd, c, k)
    PROVE  FlowInv' /\ ClosedAfter(fd, c, k)
<1> DEFINE s == fdTable[fd]
<1>1. /\ s \in Sockets /\ sock \in [Sockets -> Sock]
      /\ DOMAIN fdTable = DOMAIN connections_
      /\ \A x \in DOMAIN connections_ : fdTable[x] \in Sockets
      /\ \A x \in DOMAIN connections_ \ {fd} : fdTable[x] # s
  BY OpenConnection DEF TablesInv, TablesTyped, TablesAgree
<1>2. ASSUME NEW q \in Sock, SocketFlow(q), DeleteConnections({fd}, [sock EXCEPT ![s] = q])
      PROVE  /\ FlowInv'
             /\ DOMAIN fdTable \ DOMAIN fdTable' = {fd}
             /\ sock'[s] = CloseSock(q)
  <2> DEFINE all == [sock EXCEPT ![s] = q]
  <2>1. all \in [Sockets -> Sock] /\ all[s] = q /\ \A x \in Sockets \ {s} : all[x] = sock[x]
    BY <1>1, <1>2
  <2>2. \A x \in Sockets : SocketFlow(all[x])
    BY <1>2, <2>1 DEF FlowInv
  <2>3. \A x \in DOMAIN connections_ \ {fd} : all[fdTable[x]] = sock[fdTable[x]]
    BY <1>1, <2>1
  <2>4. DeleteConnections({fd}, all) /\ {fd} \in SUBSET DOMAIN connections_
    BY <1>2
  <2> HIDE DEF all
  <2>5. /\ FlowInv'
        /\ DOMAIN fdTable' = DOMAIN fdTable \ {fd}
        /\ \A x \in {fd} : sock'[fdTable[x]] = CloseSock(all[fdTable[x]])
    BY <2>1, <2>2, <2>3, <2>4, DeleteFlow
  <2> QED BY <1>1, <2>1, <2>5
<1>3. CASE c.out > 0 /\ k.rst /\ DeleteConnections({fd}, [sock EXCEPT ![s] = k])
  BY <1>2, <1>3 DEF ClosedAfter
<1>4. ASSUME NEW n \in 0 .. c.out,
             c.out = 0 \/ ~ k.rst,
             LET r == Accepted(c, k, n) IN
               IF r.conn.peerClose /\ r.conn.out = 0
               THEN DeleteConnections({fd}, [sock EXCEPT ![s] = r.sock])
               ELSE /\ connections_' = [connections_ EXCEPT ![fd] = r.conn]
                    /\ sock' = [sock EXCEPT ![s] = r.sock]
                    /\ UNCHANGED fdTable
      PROVE  FlowInv' /\ ClosedAfter(fd, c, k)
  <2>0. PICK r : r = Accepted(c, k, n)
    OBVIOUS
  <2> DEFINE conn == r.conn
             after == r.sock
  <2>1. /\ conn.in = c.in /\ conn.peerClose = c.peerClose /\ conn.out \in Nat
        /\ after.phase = k.phase /\ after.sent = k.sent /\ after.inq = k.inq
        /\ after.fin = k.fin /\ after.rst = k.rst
        /\ after.got \in Nat /\ after.sndq \in Nat
        /\ after.got + after.sndq + conn.out = k.got + k.sndq + c.out
    BY <2>0, AcceptedFlow
  <2>2. /\ k.got \in Nat /\ k.sndq \in Nat /\ k.sent \in Nat /\ k.inq \in Nat /\ c.out \in Nat
        /\ k.inq <= k.sent
    BY ReactorAssumption DEF Sock, Conn, SocketFlow
  <2>3. after \in Sock
    BY <2>0, AcceptedKeeps
  <2> HIDE DEF conn, after
  <2>4. Answerable(k.sent - k.inq) \in Nat /\ Answerable(k.sent - k.inq) <= Answerable(k.sent)
        /\ Answerable(k.sent) \in Nat
    BY <2>2, AnswerableTyped, AnswerableMono
  <2>5. SocketFlow(after) /\ Balanced(conn, after)
    BY <1>4, <2>1, <2>2, <2>4 DEF SocketFlow, Balanced
  <2>6. CASE conn.peerClose /\ conn.out = 0
    <3>1. DeleteConnections({fd}, [sock EXCEPT ![s] = after])
      BY <1>4, <2>0, <2>6 DEF conn, after
    <3>2. FlowInv' /\ DOMAIN fdTable \ DOMAIN fdTable' = {fd} /\ sock'[s] = CloseSock(after)
      BY <1>2, <2>3, <2>5, <3>1
    <3>3. k.inq = 0 /\ ~ k.rst => sock'[s].got + sock'[s].sndq = Answerable(k.sent)
      BY <2>1, <2>2, <2>3, <2>5, <2>6, <3>2, CloseSockFlow DEF Balanced
    <3> QED BY <2>1, <2>6, <3>2, <3>3 DEF ClosedAfter
  <2>7. CASE ~ (conn.peerClose /\ conn.out = 0)
    <3>1. /\ connections_' = [connections_ EXCEPT ![fd] = conn]
          /\ sock' = [sock EXCEPT ![s] = after]
          /\ UNCHANGED fdTable
      BY <1>4, <2>0, <2>7 DEF conn, after
    <3>2. Lingers(conn, after)
      BY <2>1, <2>7 DEF Lingers
    <3>3. FlowInv'
      BY <2>5, <3>1, <3>2, UpdateFlow
    <3> QED BY <3>1, <3>3 DEF ClosedAfter
  <2> QED BY <2>6, <2>7
<1> QED BY <1>3, <1>4 DEF SendData

(* Receiving and decoding keep the balance with the drained socket. *)
LEMMA ReceivedFlow ==
    ASSUME NEW c \in Conn, NEW k \in Sock, SocketFlow(k), Balanced(c, k), Lingers(c, k),
           k.phase = "open",
           NEW d, d = Decoded(Received(c, k)),
           NEW q, q = [k EXCEPT !.inq = 0]
    PROVE  /\ q \in Sock /\ q.phase = "open" /\ q.sent = k.sent /\ q.inq = 0
           /\ q.fin = k.fin /\ q.rst = k.rst /\ q.got = k.got /\ q.sndq = k.sndq
           /\ SocketFlow(q)
           /\ Balanced(d, q)
           /\ d.peerClose => q.fin
<1>1. /\ q \in Sock /\ q.phase = "open" /\ q.sent = k.sent /\ q.inq = 0
      /\ q.fin = k.fin /\ q.rst = k.rst /\ q.got = k.got /\ q.sndq = k.sndq
  BY DEF Sock
<1>2. k.sent \in Nat /\ k.inq \in Nat /\ k.inq <= k.sent /\ k.got \in Nat /\ k.sndq \in Nat
      /\ c.out \in Nat /\ c.in \in Nat
  BY ReactorAssumption DEF Sock, Conn, SocketFlow
<1>3. SocketFlow(q)
  BY <1>1, <1>2 DEF SocketFlow
<1>4. /\ d.in = (c.in + k.inq) % MsgLen
      /\ d.out = c.out + Answerable(c.in + k.inq)
      /\ d.peerClose = (c.peerClose \/ k.fin)
  BY DecodedFlow
<1> DEFINE read == k.sent - k.inq
<1>5. read \in Nat /\ read + k.inq = k.sent
  BY <1>2
<1> HIDE DEF read
<1>6. c.in = read % MsgLen /\ (~ k.rst => k.got + k.sndq + c.out = Answerable(read))
  BY DEF Balanced, read
<1>7. /\ d.in = k.sent % MsgLen
      /\ Answerable(k.sent) = Answerable(read) + Answerable(c.in + k.inq)
  BY <1>2, <1>4, <1>5, <1>6, AnswerableAdd
<1>8. Answerable(c.in + k.inq) \in Nat /\ Answerable(read) \in Nat
  BY <1>2, <1>5, AnswerableTyped
<1>9. k.sent - 0 = k.sent
  BY <1>2
<1>10. Balanced(d, q)
  <2>1. d.in = (q.sent - q.inq) % MsgLen
    BY <1>1, <1>7, <1>9
  <2>2. ASSUME ~ q.rst PROVE q.got + q.sndq + d.out = Answerable(q.sent - q.inq)
    BY <1>1, <1>2, <1>4, <1>6, <1>7, <1>8, <1>9, <2>2
  <2> QED BY <2>1, <2>2 DEF Balanced
<1>11. d.peerClose => q.fin
  BY <1>1, <1>4 DEF Lingers
<1> QED BY <1>1, <1>3, <1>10, <1>11

(* Why this step closes a descriptor: its peer has reset the connection, it was
   idle too long, or its peer has shut down its side and everything it asked
   for is with the kernel or the peer, or else output was pending before. *)
ClosedWithCause ==
    \A fd \in DOMAIN fdTable \ DOMAIN fdTable' :
        LET k == sock[fdTable[fd]]
            after == sock'[fdTable[fd]]
        IN  \/ k.rst
            \/ connections_[fd].idle > IdleLimit
            \/ k.fin /\ (connections_[fd].out > 0
                            \/ after.got + after.sndq = Answerable(k.sent))

(* recv_data adds the responses to what was decoded, and the send after it keeps the balance. *)
LEMMA ReceiveFlow ==
    ASSUME TablesInv, FlowInv, NEW fd \in DOMAIN connections_, ReceiveData(fd)
    PROVE  FlowInv' /\ ClosedWithCause
<1> DEFINE c == connections_[fd]
           s == fdTable[fd]
           k == sock[s]
<1>0. PICK d, q : d = Decoded(Received(c, k)) /\ q = [k EXCEPT !.inq = 0]
  OBVIOUS
<1>1. /\ c \in Conn /\ c.events = Wanted(c.out) /\ s \in Sockets /\ k \in Sock
      /\ k.phase = "open" /\ sock \in [Sockets -> Sock]
      /\ DOMAIN fdTable = DOMAIN connections_
      /\ SocketFlow(k) /\ Balanced(c, k) /\ Lingers(c, k)
      /\ \A x \in DOMAIN connections_ : fdTable[x] \in Sockets
      /\ \A x \in DOMAIN connections_ \ {fd} : fdTable[x] # s
  BY OpenConnection DEF TablesInv, TablesTyped, TablesAgree, FlowInv
<1>2. /\ q \in Sock /\ q.phase = "open" /\ q.sent = k.sent /\ q.inq = 0
      /\ q.fin = k.fin /\ q.rst = k.rst /\ q.got = k.got /\ q.sndq = k.sndq
      /\ SocketFlow(q) /\ Balanced(d, q) /\ (d.peerClose => q.fin)
  BY <1>0, <1>1, ReceivedFlow
<1>3. ASSUME k.rst \/ (k.inq = 0 /\ (c.peerClose \/ k.fin)),
             DeleteConnections({fd}, [sock EXCEPT ![s] = q])
      PROVE  FlowInv' /\ ClosedWithCause
  <2> DEFINE all == [sock EXCEPT ![s] = q]
  <2>1. all \in [Sockets -> Sock] /\ all[s] = q /\ \A x \in Sockets \ {s} : all[x] = sock[x]
    BY <1>1, <1>2
  <2>2. \A x \in Sockets : SocketFlow(all[x])
    BY <1>2, <2>1 DEF FlowInv
  <2>3. \A x \in DOMAIN connections_ \ {fd} : all[fdTable[x]] = sock[fdTable[x]]
    BY <1>1, <2>1
  <2>4. DeleteConnections({fd}, all) /\ {fd} \in SUBSET DOMAIN connections_
    BY <1>3
  <2> HIDE DEF all
  <2>5. /\ FlowInv'
        /\ DOMAIN fdTable' = DOMAIN fdTable \ {fd}
        /\ \A x \in {fd} : sock'[fdTable[x]] = CloseSock(all[fdTable[x]])
    BY <2>1, <2>2, <2>3, <2>4, DeleteFlow
  <2>6. sock'[s].got = k.got /\ sock'[s].sndq = k.sndq
    BY <1>2, <2>1, <2>5, CloseSockFlow
  <2>7. k.inq = 0 /\ c.out = 0 /\ ~ k.rst => k.got + k.sndq = Answerable(k.sent)
    <3>1. k.sent \in Nat /\ k.got \in Nat /\ k.sndq \in Nat
      BY <1>1, ReactorAssumption DEF Sock
    <3> QED BY <1>1, <3>1 DEF Balanced
  <2>8. c.out = 0 \/ c.out > 0
    BY <1>1 DEF Conn
  <2>9. k.rst \/ k.fin
    BY <1>1, <1>3 DEF Lingers
  <2> QED BY <1>3, <2>5, <2>6, <2>7, <2>8, <2>9 DEF ClosedWithCause
<1>4. CASE UNCHANGED << loop, sock >>
  BY <1>4 DEF loop, FlowInv, SocketFlow, Balanced, Lingers, Answerable, ClosedWithCause
<1>5. CASE k.inq > 0 /\ SendData(fd, d, q)
  <2>1. d \in Conn /\ EPOLLIN \in d.events
    BY <1>0, <1>1, DecodedTyped DEF Wanted
  <2>2. FlowInv' /\ ClosedAfter(fd, d, q)
    BY <1>2, <1>5, <2>1, SendFlow
  <2> QED BY <1>2, <2>2 DEF ClosedAfter, ClosedWithCause
<1> QED BY <1>0, <1>3, <1>4, <1>5 DEF ReceiveData

(* A WRITE event keeps the balance. *)
LEMMA WriteFlow ==
    ASSUME TablesInv, FlowInv, NEW fd \in DOMAIN connections_,
           SendData(fd, connections_[fd], sock[fdTable[fd]])
    PROVE  FlowInv' /\ ClosedWithCause
<1> DEFINE c == connections_[fd]
           k == sock[fdTable[fd]]
<1>1. /\ c \in Conn /\ EPOLLIN \in c.events /\ k \in Sock /\ k.phase = "open"
      /\ SocketFlow(k) /\ Balanced(c, k) /\ Lingers(c, k)
  BY OpenConnection DEF FlowInv, Wanted
<1>2. FlowInv' /\ ClosedAfter(fd, c, k)
  BY <1>1, SendFlow DEF Lingers
<1> QED BY <1>1, <1>2 DEF ClosedAfter, ClosedWithCause, Lingers

(* The connection of an accepted socket starts with nothing read or owed. *)
LEMMA AcceptFlow ==
    ASSUME TablesInv, FlowInv, NEW s \in Sockets, NEW fd \in Fds, AcceptConnection(s, fd)
    PROVE  FlowInv' /\ ClosedWithCause
<1> DEFINE T == DOMAIN connections_
           k == sock[s]
<1>0. /\ DOMAIN fdTable = T /\ fd \notin T /\ k.phase = "backlog" /\ k \in Sock
      /\ sock \in [Sockets -> Sock]
      /\ \A x \in T : fdTable[x] \in Sockets /\ sock[fdTable[x]].phase = "open"
  BY OpenConnection DEF TablesInv, TablesTyped, TablesAgree, AcceptConnection, FreeFds, Backlog
<1>1. /\ connections_' = Insert(connections_, fd, NewConn)
      /\ fdTable' = Insert(fdTable, fd, s)
      /\ sock' = [sock EXCEPT ![s].phase = "open"]
  BY <1>0 DEF AcceptConnection, AddConnection
<1>2. /\ DOMAIN connections_' = T \cup {fd} /\ connections_'[fd] = NewConn
      /\ \A x \in T : connections_'[x] = connections_[x]
      /\ DOMAIN fdTable' = T \cup {fd} /\ fdTable'[fd] = s
      /\ \A x \in T : fdTable'[x] = fdTable[x]
  BY <1>0, <1>1 DEF Insert
<1> DEFINE q == sock'[s]
<1>3. /\ q.sent = k.sent /\ q.inq = k.inq /\ q.got = k.got /\ q.sndq = k.sndq
      /\ q.phase = "open" /\ \A x \in Sockets \ {s} : sock'[x] = sock[x]
  BY <1>0, <1>1 DEF Sock
<1>4. /\ SocketFlow(k) /\ k.sent = k.inq /\ k.got = 0 /\ k.sndq = 0 /\ k.sent \in Nat
  BY <1>0 DEF FlowInv, SocketFlow, Sock
<1>5. k.sent - k.inq = 0 /\ 0 % MsgLen = 0 /\ Answerable(0) = 0
  BY <1>4, ReactorAssumption DEF Answerable
<1>6. SocketFlow(q) /\ Balanced(NewConn, q) /\ Lingers(NewConn, q)
  BY <1>3, <1>4, <1>5 DEF SocketFlow, Balanced, Lingers, NewConn
<1>7. \A x \in Sockets : SocketFlow(sock'[x])
  BY <1>3, <1>6 DEF FlowInv
<1> HIDE DEF q
<1>8. ASSUME NEW x \in T
      PROVE  /\ Balanced(connections_'[x], sock'[fdTable'[x]])
             /\ Lingers(connections_'[x], sock'[fdTable'[x]])
  <2>1. fdTable[x] \in Sockets \ {s}
    BY <1>0
  <2> QED BY <1>2, <1>3, <2>1 DEF FlowInv
<1>9. FlowInv'
  BY <1>2, <1>6, <1>7, <1>8 DEF FlowInv, SocketFlow, Balanced, Lingers, Answerable, q
<1>10. ClosedWithCause
  BY <1>0, <1>2 DEF ClosedWithCause
<1> QED BY <1>9, <1>10

(* Peers send, shut down, reset and read. *)
LEMMA PeerFlow ==
    ASSUME TablesInv, FlowInv, NEW s \in Sockets, PeerStep(s)
    PROVE  FlowInv' /\ ClosedWithCause
<1> DEFINE k == sock[s]
<1>0. /\ sock \in [Sockets -> Sock] /\ k \in Sock /\ SocketFlow(k)
      /\ k.sent \in Nat /\ k.inq \in Nat /\ k.got \in Nat /\ k.sndq \in Nat
      /\ k.inq <= k.sent /\ k.got + k.sndq <= Answerable(k.sent)
      /\ Answerable(k.sent) \in Nat
      /\ \A fd \in DOMAIN connections_ : fdTable[fd] \in Sockets
  BY OpenConnection, AnswerableTyped, ReactorAssumption
     DEF TablesInv, TablesTyped, Sock, FlowInv, SocketFlow
<1>1. ASSUME NEW q, Peer(s, q), SocketFlow(q),
             q.sent - q.inq = k.sent - k.inq,
             q.fin = k.fin \/ q.fin,
             q.rst \/ (q.rst = k.rst /\ q.got + q.sndq = k.got + k.sndq)
      PROVE  FlowInv' /\ ClosedWithCause
  <2>1. UNCHANGED loop /\ sock' = [sock EXCEPT ![s] = q]
    BY <1>1 DEF Peer
  <2>2. sock'[s] = q /\ \A x \in Sockets \ {s} : sock'[x] = sock[x]
    BY <1>0, <2>1
  <2>3. ASSUME NEW c \in Conn, Balanced(c, k), Lingers(c, k)
        PROVE  Balanced(c, q) /\ Lingers(c, q)
    <3>1. c.in = (q.sent - q.inq) % MsgLen
      BY <1>1, <2>3 DEF Balanced
    <3>2. ~ q.rst => q.got + q.sndq + c.out = Answerable(q.sent - q.inq)
      <4> SUFFICES ASSUME ~ q.rst PROVE q.got + q.sndq + c.out = Answerable(q.sent - q.inq)
        OBVIOUS
      <4>1. ~ k.rst /\ q.got + q.sndq = k.got + k.sndq
        BY <1>1
      <4>2. k.got + k.sndq + c.out = Answerable(k.sent - k.inq)
        BY <2>3, <4>1 DEF Balanced
      <4> QED BY <1>1, <4>1, <4>2
    <3>3. Lingers(c, q)
      BY <1>1, <2>3 DEF Lingers
    <3> QED BY <3>1, <3>2, <3>3 DEF Balanced
  <2>4. ASSUME NEW fd \in DOMAIN connections_
        PROVE  /\ Balanced(connections_'[fd], sock'[fdTable'[fd]])
               /\ Lingers(connections_'[fd], sock'[fdTable'[fd]])
    <3>1. connections_' = connections_ /\ fdTable' = fdTable /\ connections_[fd] \in Conn
      BY <2>1, OpenConnection DEF loop
    <3>2. CASE fdTable[fd] = s
      BY <2>2, <2>3, <3>1, <3>2 DEF FlowInv
    <3>3. CASE fdTable[fd] # s
      BY <1>0, <2>2, <3>1, <3>3 DEF FlowInv
    <3> QED BY <3>2, <3>3
  <2>5. \A x \in Sockets : SocketFlow(sock'[x])
    BY <1>1, <2>2 DEF FlowInv
  <2>6. DOMAIN connections_' = DOMAIN connections_ /\ DOMAIN fdTable' = DOMAIN fdTable
    BY <2>1 DEF loop
  <2>7. FlowInv'
    BY <2>4, <2>5, <2>6 DEF FlowInv, SocketFlow, Balanced, Lingers, Answerable
  <2> QED BY <2>6, <2>7 DEF ClosedWithCause
<1>2. CASE PeerConnect(s)
  <2> DEFINE q == [k EXCEPT !.phase = "backlog"]
  <2>1. /\ q.sent = k.sent /\ q.inq = k.inq /\ q.got = k.got /\ q.sndq = k.sndq
        /\ q.fin = k.fin /\ q.rst = k.rst /\ k.phase = "new" /\ Peer(s, q)
    BY <1>0, <1>2 DEF PeerConnect, Sock
  <2> HIDE DEF q
  <2>2. SocketFlow(q)
    BY <1>0, <2>1 DEF SocketFlow
  <2> QED BY <1>1, <2>1, <2>2
<1>3. CASE PeerSend(s)
  <2> DEFINE q == [k EXCEPT !.sent = @ + 1, !.inq = @ + 1]
  <2>1. /\ q.sent = k.sent + 1 /\ q.inq = k.inq + 1 /\ q.got = k.got /\ q.sndq = k.sndq
        /\ q.fin = k.fin /\ q.rst = k.rst /\ q.phase = k.phase /\ Peer(s, q)
    BY <1>0, <1>3 DEF PeerSend, Sock
  <2> HIDE DEF q
  <2>2. Answerable(k.sent) <= Answerable(k.sent + 1) /\ Answerable(k.sent + 1) \in Nat
    BY <1>0, AnswerableMono, AnswerableTyped
  <2>3. SocketFlow(q)
    BY <1>0, <2>1, <2>2 DEF SocketFlow
  <2>4. q.sent - q.inq = k.sent - k.inq
    BY <1>0, <2>1
  <2> QED BY <1>1, <2>1, <2>3, <2>4
<1>4. CASE PeerFin(s)
  <2> DEFINE q == [k EXCEPT !.fin = TRUE]
  <2>1. /\ q.sent = k.sent /\ q.inq = k.inq /\ q.got = k.got /\ q.sndq = k.sndq
        /\ q.fin /\ q.rst = k.rst /\ q.phase = k.phase /\ Peer(s, q)
    BY <1>0, <1>4 DEF PeerFin, Sock
  <2> HIDE DEF q
  <2>2. SocketFlow(q)
    BY <1>0, <2>1 DEF SocketFlow
  <2> QED BY <1>1, <2>1, <2>2
<1>5. CASE PeerReset(s)
  <2> DEFINE q == [k EXCEPT !.rst = TRUE, !.sndq = 0]
  <2>1. /\ q.sent = k.sent /\ q.inq = k.inq /\ q.got = k.got /\ q.sndq = 0
        /\ q.fin = k.fin /\ q.rst /\ q.phase = k.phase /\ Peer(s, q)
    BY <1>0, <1>5 DEF PeerReset, Sock
  <2> HIDE DEF q
  <2>2. SocketFlow(q)
    BY <1>0, <2>1 DEF SocketFlow
  <2> QED BY <1>1, <2>1, <2>2
<1>6. CASE PeerRead(s)
  <2> DEFINE q == [k EXCEPT !.sndq = @ - 1, !.got = @ + 1]
  <2>1. /\ q.sent = k.sent /\ q.inq = k.inq /\ q.got = k.got + 1 /\ q.sndq = k.sndq - 1
        /\ q.fin = k.fin /\ q.rst = k.rst /\ q.phase = k.phase /\ k.sndq > 0 /\ Peer(s, q)
    BY <1>0, <1>6 DEF PeerRead, Sock
  <2> HIDE DEF q
  <2>2. q.got + q.sndq = k.got + k.sndq
    BY <1>0, <2>1
  <2>3. SocketFlow(q)
    BY <1>0, <2>1, <2>2 DEF SocketFlow
  <2> QED BY <1>1, <2>1, <2>2, <2>3
<1> QED BY <1>2, <1>3, <1>4, <1>5, <1>6 DEF PeerStep

(* Time changes nothing but how idle the connections are. *)
LEMMA TimeFlow ==
    ASSUME TablesInv, FlowInv, TimePasses
    PROVE  FlowInv' /\ ClosedWithCause
<1>1. UNCHANGED << fdTable, sock >>
  BY DEF TimePasses
<1>2. /\ DOMAIN connections_' = DOMAIN connections_
      /\ \A fd \in DOMAIN connections_ :
           /\ connections_'[fd].in = connections_[fd].in
           /\ connections_'[fd].out = connections_[fd].out
           /\ connections_'[fd].peerClose = connections_[fd].peerClose
  <2> SUFFICES ASSUME NEW fd \in DOMAIN connections_
               PROVE  /\ connections_'[fd].in = connections_[fd].in
                      /\ connections_'[fd].out = connections_[fd].out
                      /\ connections_'[fd].peerClose = connections_[fd].peerClose
    BY DEF TimePasses
  <2> DEFINE c == connections_[fd]
             idle == IF c.idle > IdleLimit THEN c.idle ELSE c.idle + 1
  <2>1. c \in Conn
    BY OpenConnection
  <2>2. connections_'[fd] = [c EXCEPT !.idle = idle]
    BY DEF TimePasses
  <2> HIDE DEF c, idle
  <2>3. /\ connections_'[fd].in = c.in /\ connections_'[fd].out = c.out
        /\ connections_'[fd].peerClose = c.peerClose
    BY <2>1, <2>2 DEF Conn
  <2> QED BY <2>3 DEF c
<1>3. FlowInv'
  BY <1>1, <1>2 DEF FlowInv, SocketFlow, Balanced, Lingers, Answerable
<1> QED BY <1>1, <1>3 DEF ClosedWithCause

(* A step that touches neither tables nor sockets keeps the balance. *)
LEMMA UnchangedFlow ==
    ASSUME FlowInv, UNCHANGED << loop, sock >>
    PROVE  FlowInv' /\ ClosedWithCause
BY DEF loop, FlowInv, SocketFlow, Balanced, Lingers, Answerable, ClosedWithCause

-----------------------------------------------------------------------------
(* Without connections the balance holds. *)
LEMMA FlowInit == Init => FlowInv
<1> SUFFICES ASSUME Init PROVE FlowInv
  OBVIOUS
<1>1. DOMAIN connections_ = {}
  BY DEF Init
<1>2. Answerable(0) = 0
  BY ReactorAssumption DEF Answerable
<1>3. SocketFlow(NewSock)
  BY <1>2 DEF SocketFlow, NewSock
<1>4. \A s \in Sockets : sock[s] = NewSock
  BY DEF Init
<1> QED BY <1>1, <1>3, <1>4 DEF FlowInv

(* One step for each action of Next. *)
LEMMA FlowNext ==
    ASSUME TablesInv, FlowInv, [Next]_vars
    PROVE  FlowInv' /\ ClosedWithCause
<1>1. CASE Poll
  BY <1>1, UnchangedFlow DEF Poll
<1>2. ASSUME NEW s \in Sockets, NEW fd \in Fds, AcceptConnection(s, fd)
      PROVE  FlowInv' /\ ClosedWithCause
  BY <1>2, AcceptFlow
<1>3. CASE AcceptNothing
  BY <1>3, UnchangedFlow DEF AcceptNothing
<1>4. CASE AcceptThrows
  BY <1>4, UnchangedFlow DEF AcceptThrows
<1>5. ASSUME NEW fd \in Fds, HandleRead(fd) PROVE FlowInv' /\ ClosedWithCause
  BY <1>5, ReceiveFlow, UnchangedFlow DEF HandleRead
<1>6. ASSUME NEW fd \in Fds, HandleWrite(fd) PROVE FlowInv' /\ ClosedWithCause
  BY <1>6, WriteFlow, UnchangedFlow DEF HandleWrite
<1>7. CASE HandleTimer
  <2> DEFINE idle == {fd \in DOMAIN connections_ : connections_[fd].idle > IdleLimit}
  <2>1. idle \in SUBSET DOMAIN connections_ /\ DeleteConnections(idle, sock)
    BY <1>7 DEF HandleTimer
  <2>2. sock \in [Sockets -> Sock] /\ \A s \in Sockets : SocketFlow(sock[s])
    BY DEF TablesInv, TablesTyped, FlowInv
  <2>3. \A fd \in idle : connections_[fd].idle > IdleLimit
    OBVIOUS
  <2> HIDE DEF idle
  <2>4. FlowInv' /\ DOMAIN fdTable' = DOMAIN fdTable \ idle
    BY <2>1, <2>2, DeleteFlow
  <2> QED BY <2>3, <2>4 DEF ClosedWithCause
<1>8. ASSUME NEW s \in Sockets, PeerStep(s) PROVE FlowInv' /\ ClosedWithCause
  BY <1>8, PeerFlow
<1>9. CASE TimePasses
  BY <1>9, TimeFlow
<1>10. CASE UNCHANGED vars
  BY <1>10, UnchangedFlow DEF vars
<1> QED
  BY <1>1, <1>2, <1>3, <1>4, <1>5, <1>6, <1>7, <1>8, <1>9, <1>10 DEF Next, LoopStep

(* The balance holds in every behaviour. *)
LEMMA FlowInvariant == Spec => []FlowInv
<1>1. ReactorInv /\ FlowInv /\ [Next]_vars => FlowInv'
  BY FlowNext DEF ReactorInv
<1> QED BY <1>1, FlowInit, ReactorInvariant, PTL DEF Spec

(* Every close has a cause. *)
LEMMA ClosesHaveCause == Spec => [][ClosedWithCause]_vars
<1>1. ReactorInv /\ FlowInv /\ [Next]_vars => ClosedWithCause
  BY FlowNext DEF ReactorInv
<1> QED BY <1>1, ReactorInvariant, FlowInvariant, PTL DEF Spec

-----------------------------------------------------------------------------
(* Of every open connection the undecoded rest, the pending output, the units
   in the kernel and those with the peer add up to what the peer's own complete
   requests call for, and no socket was ever given more than that, whatever the
   pattern of partial reads and sends and the reuse of descriptors. *)
THEOREM ReactorOutputMatchesInput == Spec => []OutputMatchesInput
<1>1. FlowInv => OutputMatchesInput
  BY DEF FlowInv, SocketFlow, Balanced, OutputMatchesInput
<1> QED BY <1>1, FlowInvariant, PTL

(* A descriptor is closed only if its own peer shut down or reset the
   connection, or it was idle too long: an event collected for an earlier owner
   of the descriptor in the same batch never closes it. *)
THEOREM ReactorClosedForCause == Spec => ClosedForCause
<1>1. ClosedWithCause =>
        \A fd \in Fds : Closes(fd) => \/ sock[fdTable[fd]].fin
                                      \/ sock[fdTable[fd]].rst
                                      \/ connections_[fd].idle > IdleLimit
  BY DEF ClosedWithCause, Closes
<1> QED BY <1>1, ClosesHaveCause, PTL DEF ClosedForCause

(* When a peer that shut down its side is let go and no output was waiting
   from an earlier round, all its complete requests have been answered. *)
THEOREM ReactorGracefulClose == Spec => GracefulCloseAnswersAll
<1>1. ClosedWithCause =>
        \A fd \in Fds : Closes(fd) =>
          LET k == sock[fdTable[fd]]
              after == sock'[fdTable[fd]]
          IN  \/ k.rst
              \/ connections_[fd].idle > IdleLimit
              \/ connections_[fd].out > 0
              \/ after.got + after.sndq = Answerable(k.sent)
  BY DEF ClosedWithCause, Closes
<1> QED BY <1>1, ClosesHaveCause, PTL DEF GracefulCloseAnswersAll

-----------------------------------------------------------------------------
OpenSockets == {s \in Sockets : sock[s].phase = "open"}

(* Each open socket is behind exactly one descriptor. *)
LEMMA FullTableCounts ==
    ASSUME TablesInv, DOMAIN fdTable = Fds
    PROVE  Cardinality(OpenSockets) = Cardinality(Fds)
<1>1. fdTable \in [Fds -> OpenSockets]
  BY DEF TablesInv, TablesTyped, TablesAgree, OpenSockets
<1>2. \A fd1, fd2 \in Fds : fdTable[fd1] = fdTable[fd2] => fd1 = fd2
  BY DEF TablesInv, TablesAgree
<1>3. \A s \in OpenSockets : \E fd \in Fds : fdTable[fd] = s
  BY DEF TablesInv, TablesAgree, OpenSockets
<1>4. fdTable \in Bijection(Fds, OpenSockets)
  BY <1>1, <1>2, <1>3 DEF Bijection, Injection, Surjection, IsInjective
<1>5. ExistsBijection(Fds, OpenSockets)
  BY <1>4 DEF ExistsBijection
<1> QED BY <1>5, FS_Bijection, ReactorAssumption

(* Once an exception has left run(), no descriptor changes hands. *)
FullOnceDead == ~ alive /\ ~ AcceptMayFail => DOMAIN fdTable = Fds

(* A process that dies of EMFILE dies with all descriptors given away, and nothing
   is closed after that. *)
LEMMA DeadStaysFull ==
    ASSUME TablesInv, FullOnceDead, [Next]_vars
    PROVE  FullOnceDead'
<1>1. CASE AcceptThrows
  BY <1>1 DEF AcceptThrows, FreeFds, TablesInv, TablesTyped, FullOnceDead, loop
<1>2. CASE UNCHANGED << fdTable, alive >>
  BY <1>2 DEF FullOnceDead
<1>3. CASE alive /\ UNCHANGED alive
  BY <1>3 DEF FullOnceDead
<1>4. Poll => UNCHANGED << fdTable, alive >>
  BY DEF Poll, loop
<1>5. \A s \in Sockets, fd \in Fds : AcceptConnection(s, fd) => alive /\ UNCHANGED alive
  BY DEF AcceptConnection, Dispatching
<1>6. AcceptNothing => UNCHANGED << fdTable, alive >>
  BY DEF AcceptNothing, loop
<1>7. \A fd \in Fds : HandleRead(fd) \/ HandleWrite(fd) => alive /\ UNCHANGED alive
  BY DEF HandleRead, HandleWrite, Dispatching
<1>8. HandleTimer => alive /\ UNCHANGED alive
  BY DEF HandleTimer, Dispatching
<1>9. \A s \in Sockets : PeerStep(s) => UNCHANGED << fdTable, alive >>
  BY DEF PeerStep, PeerConnect, PeerSend, PeerFin, PeerReset, PeerRead, Peer, loop
<1>10. TimePasses \/ UNCHANGED vars => UNCHANGED << fdTable, alive >>
  BY DEF TimePasses, vars, loop
<1> QED
  BY <1>1, <1>2, <1>3, <1>4, <1>5, <1>6, <1>7, <1>8, <1>9, <1>10 DEF Next, LoopStep

(* The process runs out of descriptors only when as many connections are open
   as it may have: whatever way a connection ended, its descriptor came back.
   Where accept can fail for other reasons the theorem says nothing of its end. *)
THEOREM ReactorDiesOnlyWhenFull == Spec => []DiesOnlyWhenFull
<1>1. Init => FullOnceDead
  BY DEF Init, FullOnceDead
<1>2. ReactorInv /\ FullOnceDead /\ [Next]_vars => FullOnceDead'
  BY DeadStaysFull DEF ReactorInv
<1>3. ReactorInv /\ FullOnceDead => DiesOnlyWhenFull
  BY FullTableCounts DEF ReactorInv, FullOnceDead, DiesOnlyWhenFull, OpenSockets
<1> QED BY <1>1, <1>2, <1>3, ReactorInvariant, PTL DEF Spec
=============================================================================
