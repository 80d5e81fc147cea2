-------------------------- MODULE BenchmarkProofs --------------------------
(***************************************************************************)
(* For any number of connections and requests: the gate opens when all     *)
(* workers are there and no notification is missed, and the figures that   *)
(* main reports are those of what happened on the connections.             *)
(***************************************************************************)
EXTENDS Benchmark, FiniteSetTheorems, SequenceTheorems, NaturalsInduction,
        WellFoundedInduction, TLAPS

BeforeGate == {"none", "lock", "arrive", "check", "park", "parked", "woken"}

WorkerAt == BeforeGate \cup {"send", "receive", "done"}

MainAt == {"connect", "spawn", "lock", "check", "park", "parked", "woken", "open", "notify",
           "join", "exit"}

(* Where each thread can be; only the owner of the mutex is where it is needed. *)
ThreadsPlaced ==
    /\ pc \in [Threads -> WorkerAt \cup MainAt]
    /\ pc[Main] \in MainAt
    /\ \A w \in Workers : pc[w] \in WorkerAt
    /\ mutex \in Threads \cup {Free}
    /\ \A t \in Threads : pc[t] \in {"arrive", "check", "park"} <=> mutex = t

HaveArrived == {w \in Workers : pc[w] \notin {"none", "lock", "arrive"}}

(* ready counts the workers that came; the gate opens when it has counted all. *)
GateCounts ==
    /\ start \in BOOLEAN
    /\ ready = Cardinality(HaveArrived)
    /\ pc[Main] \in {"open", "notify", "join"} => ready = Cardinality(Workers)
    /\ start => ready = Cardinality(Workers) /\ pc[Main] \in {"notify", "join", "exit"}
    /\ \A w \in Workers : Past(w) => start

GateInv ==
    /\ ThreadsPlaced
    /\ GateCounts
    /\ NoMissedNotify

-----------------------------------------------------------------------------
(* As many workers have arrived as there are only if all of them have. *)
LEMMA ArrivedFinite ==
    /\ IsFiniteSet(Workers) /\ Cardinality(Workers) \in Nat \ {0}
    /\ Cardinality(HaveArrived) \in 0 .. Cardinality(Workers)
    /\ Cardinality(HaveArrived) = Cardinality(Workers) => HaveArrived = Workers
<1>1. IsFiniteSet(Workers) /\ Workers # {}
  BY BenchmarkAssumption
<1>2. Cardinality(Workers) \in Nat /\ Cardinality(Workers) # 0
  BY <1>1, FS_CardinalityType, FS_EmptySet
<1>3. HaveArrived \in SUBSET Workers
  BY DEF HaveArrived
<1>4. /\ IsFiniteSet(HaveArrived) /\ Cardinality(HaveArrived) <= Cardinality(Workers)
      /\ Cardinality(HaveArrived) = Cardinality(Workers) => HaveArrived = Workers
  BY <1>1, <1>3, FS_Subset
<1>5. Cardinality(HaveArrived) \in Nat
  BY <1>4, FS_CardinalityType
<1> QED BY <1>1, <1>2, <1>4, <1>5

(* The gate invariant holds at the start: no worker runs and the mutex is free. *)
LEMMA GateInit == Init => GateInv
<1> SUFFICES ASSUME Init PROVE GateInv
  OBVIOUS
<1>1. Main \notin Workers /\ Free \notin Threads
  BY BenchmarkAssumption
<1>2. ThreadsPlaced
  BY <1>1 DEF Init, ThreadsPlaced, Threads, WorkerAt, BeforeGate, MainAt
<1>3. HaveArrived = {}
  BY <1>1 DEF Init, HaveArrived, Threads
<1>4. Cardinality(HaveArrived) = 0
  BY <1>3, FS_EmptySet
<1>5. GateCounts
  BY <1>1, <1>4 DEF Init, GateCounts, Past, Threads
<1>6. NoMissedNotify
  BY <1>1 DEF Init, NoMissedNotify, Threads
<1> QED BY <1>2, <1>5, <1>6 DEF GateInv

(* A thread moves on its own, none of the places it leaves or comes to being one
   where the mutex is held, a worker is counted, or the gate is waited for. *)
LEMMA MovesPastGate ==
    ASSUME GateInv, NEW t \in Threads, NEW there, Goto(t, there), UNCHANGED gate,
           t = Main => \/ pc[t] = "connect" /\ there \in {"connect", "spawn", "exit"}
                       \/ pc[t] = "join" /\ there = "exit",
           t # Main => pc[t] \in {"send", "receive"} /\ there \in {"send", "receive", "done"}
    PROVE  GateInv'
<1>1. UNCHANGED << mutex, ready, start >> /\ pc' = [pc EXCEPT ![t] = there]
  BY DEF gate, Goto
<1>2. ThreadsPlaced'
  BY <1>1 DEF GateInv, ThreadsPlaced, Threads, WorkerAt, BeforeGate, MainAt
<1>3. HaveArrived' = HaveArrived
  BY <1>1 DEF GateInv, ThreadsPlaced, Threads, HaveArrived
<1>4. GateCounts'
  BY <1>1, <1>3, BenchmarkAssumption
  DEF GateInv, GateCounts, ThreadsPlaced, Past, Threads, WorkerAt, BeforeGate, MainAt
<1>5. NoMissedNotify'
  BY <1>1, BenchmarkAssumption
  DEF GateInv, NoMissedNotify, MayPass, ThreadsPlaced, Threads
<1> QED BY <1>2, <1>4, <1>5 DEF GateInv

(* A thread that starts has neither the mutex nor a place in the count. *)
LEMMA SpawnKeepsGate == ASSUME GateInv, NEW w \in Workers, Spawn(w) PROVE GateInv'
<1> DEFINE next == IF \A v \in Workers \ {w} : pc[v] # "none" THEN "lock" ELSE "spawn"
<1>1. /\ pc[Main] = "spawn" /\ pc[w] = "none"
      /\ pc' = [pc EXCEPT ![w] = "lock", ![Main] = next]
      /\ UNCHANGED << mutex, ready, start >>
  BY DEF Spawn, gate
<1>2. /\ next \in {"lock", "spawn"} /\ w # Main /\ w \in Threads /\ Main \in Threads
      /\ Main \notin Workers
  BY BenchmarkAssumption DEF Threads
<1> HIDE DEF next
<1>3. \A t \in Threads : pc'[t] = IF t = w THEN "lock" ELSE IF t = Main THEN next ELSE pc[t]
  BY <1>1, <1>2 DEF GateInv, ThreadsPlaced
<1>4. ThreadsPlaced'
  BY <1>1, <1>2, <1>3 DEF GateInv, ThreadsPlaced, Threads, WorkerAt, BeforeGate, MainAt
<1>5. HaveArrived' = HaveArrived
  BY <1>1, <1>2, <1>3 DEF HaveArrived, Threads
<1>6. GateCounts'
  BY <1>1, <1>2, <1>3, <1>5 DEF GateInv, GateCounts, Past, Threads
<1>7. NoMissedNotify'
  <2>1. \A t \in Threads : MayPass(t)' <=> MayPass(t)
    BY <1>1 DEF MayPass
  <2>2. \A t \in Threads : pc'[t] \in {"park", "parked"} => pc'[t] = pc[t]
    BY <1>2, <1>3
  <2>3. \A t \in Threads : pc[t] \in {"park", "parked"} => ~ MayPass(t)
    BY <1>1 DEF GateInv, NoMissedNotify
  <2> QED BY <2>1, <2>2, <2>3 DEF NoMissedNotify
<1> QED BY <1>4, <1>6, <1>7 DEF GateInv

(* A thread gets the mutex only when nobody has it. *)
LEMMA LockKeepsGate == ASSUME GateInv, NEW t \in Threads, LockGate(t) PROVE GateInv'
<1> DEFINE there == IF pc[t] = "lock" /\ t # Main THEN "arrive" ELSE "check"
<1>1. /\ pc[t] \in {"lock", "woken"} /\ mutex = Free /\ mutex' = t
      /\ pc' = [pc EXCEPT ![t] = there] /\ UNCHANGED << ready, start >>
  BY DEF LockGate, Goto
<1>2. /\ there \in {"arrive", "check"} /\ (t = Main => there = "check")
      /\ (there = "arrive" <=> pc[t] = "lock" /\ t # Main)
      /\ Free # t /\ Main \notin Workers
  BY BenchmarkAssumption DEF Threads
<1> HIDE DEF there
<1>3. ThreadsPlaced'
  <2>1. \A u \in Threads : pc'[u] = IF u = t THEN there ELSE pc[u]
    BY <1>1 DEF GateInv, ThreadsPlaced
  <2>2. \A u \in Threads : pc[u] \notin {"arrive", "check", "park"}
    BY <1>1, BenchmarkAssumption DEF GateInv, ThreadsPlaced
  <2>3. \A u \in Threads : pc'[u] \in {"arrive", "check", "park"} <=> mutex' = u
    BY <1>1, <1>2, <2>1, <2>2
  <2> QED
    BY <1>1, <1>2, <2>1, <2>3
    DEF GateInv, ThreadsPlaced, Threads, WorkerAt, BeforeGate, MainAt
<1>4. HaveArrived' = HaveArrived
  BY <1>1, <1>2 DEF GateInv, ThreadsPlaced, HaveArrived, Threads
<1>5. GateCounts'
  BY <1>1, <1>2, <1>4 DEF GateInv, GateCounts, ThreadsPlaced, Past, Threads
<1>6. NoMissedNotify'
  BY <1>1, <1>2 DEF GateInv, NoMissedNotify, MayPass, ThreadsPlaced, Threads
<1> QED BY <1>3, <1>5, <1>6 DEF GateInv

(* A worker is counted, and whoever waits is told. *)
LEMMA ArriveKeepsGate == ASSUME GateInv, NEW w \in Workers, Arrive(w) PROVE GateInv'
<1>1. /\ pc[w] = "arrive" /\ ready' = ready + 1 /\ UNCHANGED << mutex, start >>
      /\ pc' = [Notified(pc) EXCEPT ![w] = "check"]
      /\ w \in Threads /\ w # Main /\ Main \notin Workers
  BY BenchmarkAssumption DEF Arrive, Threads
<1>2. \A t \in Threads : pc'[t] = IF t = w THEN "check"
                                  ELSE IF pc[t] = "parked" THEN "woken" ELSE pc[t]
  BY <1>1 DEF Notified
<1>3. mutex = w
  BY <1>1 DEF GateInv, ThreadsPlaced
<1>4. ThreadsPlaced'
  <2>1. pc' \in [Threads -> WorkerAt \cup MainAt]
    BY <1>1 DEF GateInv, ThreadsPlaced, Notified, WorkerAt, BeforeGate
  <2> QED
    BY <1>1, <1>2, <1>3, <2>1
    DEF GateInv, ThreadsPlaced, Threads, WorkerAt, BeforeGate, MainAt
<1>5. HaveArrived' = HaveArrived \cup {w} /\ w \notin HaveArrived
  BY <1>1, <1>2 DEF HaveArrived, Threads
<1>6. Cardinality(HaveArrived') = Cardinality(HaveArrived) + 1
  <2>1. IsFiniteSet(HaveArrived)
    BY ArrivedFinite, FS_Subset DEF HaveArrived
  <2> QED BY <1>5, <2>1, FS_AddElement
<1>7. HaveArrived # Workers
  BY <1>5
<1>8. ready \in Nat /\ ready < Cardinality(Workers) /\ Cardinality(Workers) \in Nat
  BY <1>7, ArrivedFinite DEF GateInv, GateCounts
<1>9. GateCounts'
  BY <1>1, <1>2, <1>6, <1>8 DEF GateInv, GateCounts, Past, Threads
<1>10. NoMissedNotify'
  <2>1. \A t \in Threads : pc'[t] \notin {"park", "parked"}
    BY <1>1, <1>2, <1>3 DEF GateInv, ThreadsPlaced
  <2> QED BY <2>1 DEF NoMissedNotify
<1> QED BY <1>4, <1>9, <1>10 DEF GateInv

(* The predicate is evaluated with the mutex held, and what it says cannot change
   before the thread waits. *)
LEMMA CheckKeepsGate == ASSUME GateInv, NEW t \in Threads, Check(t) PROVE GateInv'
<1> DEFINE there == IF ~ MayPass(t) THEN "park" ELSE IF t = Main THEN "open" ELSE "send"
<1>1. /\ pc[t] = "check" /\ pc' = [pc EXCEPT ![t] = there] /\ UNCHANGED << ready, start >>
      /\ mutex' = IF MayPass(t) THEN Free ELSE mutex
      /\ mutex = t /\ Free \notin Threads /\ Main \notin Workers /\ Main \in Threads
  BY BenchmarkAssumption DEF Check, Step, Goto, GateInv, ThreadsPlaced, Threads
<1>2. \A u \in Threads : pc'[u] = IF u = t THEN there ELSE pc[u]
  BY <1>1 DEF GateInv, ThreadsPlaced
<1>3. CASE ~ MayPass(t)
  <2>1. there = "park" /\ mutex' = t
    BY <1>1, <1>3
  <2> HIDE DEF there
  <2>2. ThreadsPlaced'
    BY <1>1, <1>2, <2>1 DEF GateInv, ThreadsPlaced, Threads, WorkerAt, BeforeGate, MainAt
  <2>3. HaveArrived' = HaveArrived
    BY <1>1, <1>2, <2>1 DEF HaveArrived, Threads
  <2>4. GateCounts'
    BY <1>1, <1>2, <2>1, <2>3 DEF GateInv, GateCounts, Past, Threads
  <2>5. \A u \in Threads : MayPass(u)' <=> MayPass(u)
    BY <1>1 DEF MayPass
  <2>6. pc[Main] = "notify" => pc'[Main] = "notify"
    BY <1>1, <1>2
  <2>7. NoMissedNotify'
    BY <1>2, <1>3, <2>1, <2>5, <2>6 DEF GateInv, NoMissedNotify
  <2> QED BY <2>2, <2>4, <2>7 DEF GateInv
<1>4. CASE MayPass(t)
  <2>1. mutex' = Free /\ there = IF t = Main THEN "open" ELSE "send"
    BY <1>1, <1>4
  <2> HIDE DEF there
  <2>2. ThreadsPlaced'
    BY <1>1, <1>2, <2>1 DEF GateInv, ThreadsPlaced, Threads, WorkerAt, BeforeGate, MainAt
  <2>3. HaveArrived' = HaveArrived
    BY <1>1, <1>2, <2>1 DEF HaveArrived, Threads
  <2>4. GateCounts'
    BY <1>1, <1>2, <1>4, <2>1, <2>3 DEF GateInv, GateCounts, Past, Threads, MayPass
  <2>5. \A u \in Threads : MayPass(u)' <=> MayPass(u)
    BY <1>1 DEF MayPass
  <2>6. pc[Main] = "notify" => pc'[Main] = "notify"
    BY <1>1, <1>2
  <2>7. NoMissedNotify'
    BY <1>2, <2>1, <2>5, <2>6 DEF GateInv, NoMissedNotify
  <2> QED BY <2>2, <2>4, <2>7 DEF GateInv
<1> QED BY <1>3, <1>4

(* wait() gives the mutex back, and a thread that wakes up checks again. *)
LEMMA WaitKeepsGate ==
    ASSUME GateInv, NEW t \in Threads, Park(t) \/ WakeSpuriously(t)
    PROVE  GateInv'
<1>1. PICK there \in {"parked", "woken"} :
        /\ pc[t] \in {"park", "parked"} /\ pc' = [pc EXCEPT ![t] = there]
        /\ UNCHANGED << ready, start >>
        /\ pc[t] = "park" => mutex' = Free /\ there = "parked"
        /\ pc[t] = "parked" => UNCHANGED mutex /\ there = "woken"
  BY DEF Park, WakeSpuriously, Step, Goto, gate
<1>2. \A u \in Threads : pc'[u] = IF u = t THEN there ELSE pc[u]
  BY <1>1 DEF GateInv, ThreadsPlaced
<1>3. Free \notin Threads /\ Main \notin Workers /\ Main \in Threads
  BY BenchmarkAssumption DEF Threads
<1>4. ThreadsPlaced'
  BY <1>1, <1>2, <1>3 DEF GateInv, ThreadsPlaced, Threads, WorkerAt, BeforeGate, MainAt
<1>5. HaveArrived' = HaveArrived
  BY <1>1, <1>2 DEF HaveArrived, Threads
<1>6. GateCounts'
  BY <1>1, <1>2, <1>3, <1>5 DEF GateInv, GateCounts, Past, Threads
<1>7. \A u \in Threads : MayPass(u)' <=> MayPass(u)
  BY <1>1 DEF MayPass
<1>8. pc[Main] = "notify" => pc'[Main] = "notify"
  BY <1>1, <1>2, <1>3
<1>9. NoMissedNotify'
  BY <1>1, <1>2, <1>7, <1>8 DEF GateInv, NoMissedNotify
<1> QED BY <1>4, <1>6, <1>9 DEF GateInv

(* main opens the gate while nobody holds the mutex, so that nobody is between
   its predicate and the wait, and tells those who wait. *)
LEMMA OpenKeepsGate == ASSUME GateInv, OpenGate \/ NotifyWorkers PROVE GateInv'
<1>0. Free \notin Threads /\ Main \notin Workers /\ Main \in Threads
  BY BenchmarkAssumption DEF Threads
<1>1. CASE OpenGate
  <2>1. /\ mutex = Free /\ pc[Main] = "open" /\ pc' = [pc EXCEPT ![Main] = "notify"]
        /\ start' = TRUE /\ UNCHANGED << mutex, ready >>
    BY <1>1 DEF OpenGate, Step, Goto
  <2>2. \A u \in Threads : pc'[u] = IF u = Main THEN "notify" ELSE pc[u]
    BY <2>1 DEF GateInv, ThreadsPlaced
  <2>3. ThreadsPlaced'
    BY <1>0, <2>1, <2>2 DEF GateInv, ThreadsPlaced, Threads, WorkerAt, BeforeGate, MainAt
  <2>4. HaveArrived' = HaveArrived
    BY <1>0, <2>1, <2>2 DEF HaveArrived, Threads
  <2>5. GateCounts'
    BY <1>0, <2>1, <2>2, <2>4 DEF GateInv, GateCounts, Past, Threads
  <2>6. NoMissedNotify'
    BY <1>0, <2>1, <2>2 DEF GateInv, NoMissedNotify, ThreadsPlaced
  <2> QED BY <2>3, <2>5, <2>6 DEF GateInv
<1>2. CASE NotifyWorkers
  <2>1. /\ pc[Main] = "notify" /\ pc' = [Notified(pc) EXCEPT ![Main] = "join"]
        /\ UNCHANGED << mutex, ready, start >>
    BY <1>2 DEF NotifyWorkers, gate
  <2>2. \A u \in Threads : pc'[u] = IF u = Main THEN "join"
                                    ELSE IF pc[u] = "parked" THEN "woken" ELSE pc[u]
    BY <2>1 DEF Notified
  <2>3. ThreadsPlaced'
    <3>1. pc' \in [Threads -> WorkerAt \cup MainAt]
      BY <2>1 DEF GateInv, ThreadsPlaced, Notified, WorkerAt, BeforeGate, MainAt
    <3> QED
      BY <1>0, <2>1, <2>2, <3>1
      DEF GateInv, ThreadsPlaced, Threads, WorkerAt, BeforeGate, MainAt
  <2>4. HaveArrived' = HaveArrived
    BY <1>0, <2>1, <2>2 DEF HaveArrived, Threads
  <2>5. GateCounts'
    BY <1>0, <2>1, <2>2, <2>4 DEF GateInv, GateCounts, Past, Threads
  <2>6. NoMissedNotify'
    BY <1>0, <2>1, <2>2 DEF GateInv, NoMissedNotify, MayPass
  <2> QED BY <2>3, <2>5, <2>6 DEF GateInv
<1> QED BY <1>1, <1>2

-----------------------------------------------------------------------------
(* What is on its way between a worker and the server is never more than one
   message: nothing before the request is sent, then at most the echo. *)
WireInv ==
    /\ \A f \in {left, owed, socket, input} : f \in [Workers -> 0 .. FrameLen]
    /\ wrong \in [Workers -> BOOLEAN]
    /\ hungUp \subseteq Workers /\ fds \subseteq Workers
    /\ \A w \in Workers :
         /\ owed[w] + socket[w] + input[w] <= FrameLen
         /\ pc[w] \in BeforeGate => left[w] = FrameLen
         /\ pc[w] = "send" => left[w] > 0
         /\ pc[w] \in BeforeGate \cup {"send"} => owed[w] = 0 /\ socket[w] = 0 /\ input[w] = 0

WorkerResult == [completed : 0 .. Requests, errors : {0, 1}, latency_us : Seq(Latencies)]

(* The counts of a worker: there is no error before the end, and one at the end
   unless all requests were answered. *)
ResultInv ==
    /\ result \in [Workers -> WorkerResult]
    /\ \A w \in Workers :
         /\ Len(result[w].latency_us) = result[w].completed
         /\ pc[w] # "done" => result[w].completed < Requests /\ result[w].errors = 0
         /\ pc[w] = "done" =>
              result[w].errors = IF result[w].completed < Requests THEN 1 ELSE 0

TrafficInv == WireInv /\ ResultInv

-----------------------------------------------------------------------------
(* The traffic invariant holds at the start: nothing has been sent. *)
LEMMA TrafficInit == Init => TrafficInv
<1> SUFFICES ASSUME Init PROVE TrafficInv
  OBVIOUS
<1>1. FrameLen \in Nat \ {0} /\ Requests \in Nat \ {0} /\ Main \notin Workers
  BY BenchmarkAssumption
<1>2. WireInv
  <2>1. \A f \in {left, owed, socket, input} : f \in [Workers -> 0 .. FrameLen]
    BY <1>1 DEF Init
  <2>2. \A w \in Workers : left[w] = FrameLen /\ owed[w] = 0 /\ socket[w] = 0 /\ input[w] = 0
    BY DEF Init
  <2> QED BY <1>1, <2>1, <2>2 DEF Init, WireInv
<1>3. ResultInv
  <2>1. << >> \in Seq(Latencies) /\ Len(<< >>) = 0
    BY EmptySeq
  <2>2. \A w \in Workers : pc[w] = "none"
    BY <1>1 DEF Init, Threads
  <2> QED BY <1>1, <2>1, <2>2 DEF Init, ResultInv, WorkerResult
<1> QED BY <1>2, <1>3 DEF TrafficInv

(* At the gate, and whenever no worker comes to "send" or "done" otherwise, the
   traffic is as it was. *)
LEMMA QuietKeepsTraffic ==
    ASSUME TrafficInv, UNCHANGED << wire, result >>, fds' \subseteq Workers,
           \A w \in Workers : \/ pc'[w] = pc[w]
                              \/ pc[w] \in BeforeGate /\ pc'[w] \in BeforeGate \cup {"send"}
    PROVE  TrafficInv'
<1>1. UNCHANGED << left, owed, socket, input, wrong, hungUp, result >>
  BY DEF wire
<1>2. WireInv'
  <2>1. \A f \in {left, owed, socket, input}' : f \in [Workers -> 0 .. FrameLen]
    BY <1>1 DEF TrafficInv, WireInv
  <2>2. FrameLen > 0
    BY BenchmarkAssumption
  <2> QED BY <1>1, <2>1, <2>2 DEF TrafficInv, WireInv
<1>3. ResultInv'
  BY <1>1 DEF TrafficInv, ResultInv, BeforeGate
<1> QED BY <1>2, <1>3 DEF TrafficInv

(* A worker that fails ends with one error and fewer answers than requests. *)
LEMMA FailKeepsTraffic ==
    ASSUME TrafficInv, NEW w \in Workers, pc \in [Threads -> WorkerAt \cup MainAt],
           pc[w] \in {"send", "receive"}, Fail(w),
           UNCHANGED << left, owed, socket, wrong, hungUp >>,
           input' = input \/ (input[w] >= FrameLen /\ input' = [input EXCEPT ![w] = @ - FrameLen])
    PROVE  TrafficInv'
<1>1. /\ pc' = [pc EXCEPT ![w] = "done"] /\ fds' = fds \ {w} /\ w \in Threads
      /\ result' = [result EXCEPT ![w] = [result[w] EXCEPT !.errors = @ + 1]]
  BY DEF Fail, Finish, Goto, Threads
<1>2. \A v \in Workers : pc'[v] = IF v = w THEN "done" ELSE pc[v]
  BY <1>1 DEF Threads
<1>3. /\ input' \in [Workers -> 0 .. FrameLen] /\ input'[w] <= input[w]
      /\ \A v \in Workers : v # w => input'[v] = input[v]
  BY BenchmarkAssumption DEF TrafficInv, WireInv
<1>4. WireInv'
  <2>1. \A f \in {left, owed, socket, input}' : f \in [Workers -> 0 .. FrameLen]
    BY <1>3 DEF TrafficInv, WireInv
  <2>2. owed[w] + socket[w] + input'[w] <= FrameLen
    <3>1. /\ owed[w] \in 0 .. FrameLen /\ socket[w] \in 0 .. FrameLen
          /\ input[w] \in 0 .. FrameLen /\ input'[w] \in 0 .. FrameLen
          /\ owed[w] + socket[w] + input[w] <= FrameLen
      BY <1>3 DEF TrafficInv, WireInv
    <3> QED BY <1>3, <3>1, BenchmarkAssumption
  <2>3. fds' \subseteq Workers
    BY <1>1 DEF TrafficInv, WireInv
  <2> QED BY <1>2, <1>3, <2>1, <2>2, <2>3 DEF TrafficInv, WireInv, BeforeGate
<1>5. ResultInv'
  <2>1. /\ result[w] \in WorkerResult /\ result[w].errors = 0
        /\ result[w].completed < Requests
        /\ Len(result[w].latency_us) = result[w].completed
    BY DEF TrafficInv, ResultInv
  <2> DEFINE new == [result[w] EXCEPT !.errors = @ + 1]
  <2>2. /\ new \in WorkerResult /\ new.errors = 1
        /\ new.completed = result[w].completed /\ new.latency_us = result[w].latency_us
    BY <2>1 DEF WorkerResult
  <2> HIDE DEF new
  <2>3. result' = [result EXCEPT ![w] = new]
    BY <1>1 DEF new
  <2> QED BY <1>2, <2>1, <2>2, <2>3 DEF TrafficInv, ResultInv
<1> QED BY <1>4, <1>5 DEF TrafficInv

(* A piece of the request goes out; after the last one the server owes the echo. *)
LEMMA SendKeepsTraffic ==
    ASSUME TrafficInv, pc \in [Threads -> WorkerAt \cup MainAt],
           NEW w \in Workers, NEW n, Send(w, n)
    PROVE  TrafficInv'
<1> DEFINE there == IF n = left[w] THEN "receive" ELSE "send"
<1>1. /\ pc[w] = "send" /\ pc' = [pc EXCEPT ![w] = there] /\ n \in 1 .. left[w]
      /\ left' = [left EXCEPT ![w] = @ - n]
      /\ owed' = owed \/ (n = left[w] /\ owed' = [owed EXCEPT ![w] = FrameLen])
      /\ UNCHANGED << fds, socket, input, wrong, hungUp, result >> /\ w \in Threads
  BY DEF Send, Step, Goto, Threads
<1>2. \A v \in Workers : pc'[v] = IF v = w THEN there ELSE pc[v]
  BY <1>1 DEF Threads
<1>3. /\ left \in [Workers -> 0 .. FrameLen] /\ owed \in [Workers -> 0 .. FrameLen]
      /\ owed[w] = 0 /\ socket[w] = 0 /\ input[w] = 0 /\ FrameLen \in Nat
  BY <1>1, BenchmarkAssumption DEF TrafficInv, WireInv
<1>4. /\ left' \in [Workers -> 0 .. FrameLen] /\ left'[w] = left[w] - n
      /\ owed' \in [Workers -> 0 .. FrameLen]
      /\ \A v \in Workers : v # w => left'[v] = left[v] /\ owed'[v] = owed[v]
      /\ n # left[w] => owed'[w] = 0
  BY <1>1, <1>3
<1>5. /\ there \in {"send", "receive"} /\ (there = "send" => n # left[w])
  OBVIOUS
<1> HIDE DEF there
<1>6. WireInv'
  <2>1. \A f \in {left, owed, socket, input}' : f \in [Workers -> 0 .. FrameLen]
    BY <1>1, <1>4 DEF TrafficInv, WireInv
  <2>2. ASSUME NEW v \in Workers
        PROVE  /\ owed'[v] + socket'[v] + input'[v] <= FrameLen
               /\ pc'[v] \in BeforeGate => left'[v] = FrameLen
               /\ pc'[v] = "send" => left'[v] > 0
               /\ pc'[v] \in BeforeGate \cup {"send"} =>
                    owed'[v] = 0 /\ socket'[v] = 0 /\ input'[v] = 0
    <3>1. CASE v = w
      <4>1. left[w] \in Nat /\ n \in Nat /\ owed'[w] \in 0 .. FrameLen
        BY <1>1, <1>3, <1>4
      <4> QED BY <1>1, <1>2, <1>3, <1>4, <1>5, <3>1, <4>1 DEF BeforeGate
    <3>2. CASE v # w
      BY <1>1, <1>2, <1>4, <3>2 DEF TrafficInv, WireInv
    <3> QED BY <3>1, <3>2
  <2> QED BY <1>1, <2>1, <2>2 DEF TrafficInv, WireInv
<1>7. ResultInv'
  BY <1>1, <1>2, <1>5 DEF TrafficInv, ResultInv
<1> QED BY <1>6, <1>7 DEF TrafficInv

(* Bytes of the echo go from the server to the socket, and from there to the
   worker. *)
LEMMA DeliveryKeepsTraffic ==
    ASSUME TrafficInv, NEW w \in Workers, NEW n, Answer(w, n) \/ Receive(w, n)
    PROVE  TrafficInv'
<1>1. /\ owed \in [Workers -> 0 .. FrameLen] /\ socket \in [Workers -> 0 .. FrameLen]
      /\ input \in [Workers -> 0 .. FrameLen] /\ FrameLen \in Nat
      /\ \A v \in Workers : owed[v] + socket[v] + input[v] <= FrameLen
  BY BenchmarkAssumption DEF TrafficInv, WireInv
<1>2. /\ UNCHANGED << pc, fds, left, hungUp, result >>
      /\ \A v \in Workers : v # w =>
           owed'[v] = owed[v] /\ socket'[v] = socket[v] /\ input'[v] = input[v]
  BY <1>1 DEF Answer, Receive
<1>3. /\ owed' \in [Workers -> 0 .. FrameLen] /\ socket' \in [Workers -> 0 .. FrameLen]
      /\ input' \in [Workers -> 0 .. FrameLen]
      /\ owed'[w] + socket'[w] + input'[w] <= FrameLen
  <2>0. owed[w] \in 0 .. FrameLen /\ socket[w] \in 0 .. FrameLen /\ input[w] \in 0 .. FrameLen
    BY <1>1
  <2>1. CASE Answer(w, n)
    <3>1. /\ n \in 1 .. owed[w] /\ input' = input
          /\ owed' = [owed EXCEPT ![w] = @ - n] /\ socket' = [socket EXCEPT ![w] = @ + n]
      BY <2>1 DEF Answer
    <3>2. owed[w] - n \in 0 .. FrameLen /\ socket[w] + n \in 0 .. FrameLen
      BY <1>1, <2>0, <3>1
    <3> QED BY <1>1, <2>0, <3>1, <3>2
  <2>2. CASE Receive(w, n)
    <3>1. /\ n \in 1 .. socket[w] /\ owed' = owed
          /\ socket' = [socket EXCEPT ![w] = @ - n] /\ input' = [input EXCEPT ![w] = @ + n]
      BY <2>2 DEF Receive
    <3>2. socket[w] - n \in 0 .. FrameLen /\ input[w] + n \in 0 .. FrameLen
      BY <1>1, <2>0, <3>1
    <3> QED BY <1>1, <2>0, <3>1, <3>2
  <2> QED BY <2>1, <2>2
<1>4. pc[w] \notin BeforeGate \cup {"send"}
  <2>1. CASE Answer(w, n)
    BY <1>1, <2>1 DEF Answer, TrafficInv, WireInv
  <2>2. CASE Receive(w, n)
    BY <2>2 DEF Receive, BeforeGate
  <2> QED BY <2>1, <2>2
<1>5. wrong' \in [Workers -> BOOLEAN]
  BY DEF Answer, Receive, TrafficInv, WireInv
<1>6. WireInv'
  <2>1. \A f \in {left, owed, socket, input}' : f \in [Workers -> 0 .. FrameLen]
    BY <1>2, <1>3 DEF TrafficInv, WireInv
  <2> QED BY <1>2, <1>3, <1>4, <1>5, <2>1 DEF TrafficInv, WireInv
<1>7. ResultInv'
  BY <1>2 DEF TrafficInv, ResultInv
<1> QED BY <1>6, <1>7 DEF TrafficInv

(* When the server hangs up, the rest of its echo is lost. *)
LEMMA HangUpKeepsTraffic ==
    ASSUME TrafficInv, NEW w \in Workers, HangUp(w)
    PROVE  TrafficInv'
<1>1. /\ UNCHANGED << pc, fds, left, socket, input, wrong, result >>
      /\ hungUp' = hungUp \cup {w} /\ owed' = [owed EXCEPT ![w] = 0]
  BY DEF HangUp
<1>2. owed' \in [Workers -> 0 .. FrameLen] /\ \A v \in Workers : owed'[v] \in {owed[v], 0}
  BY <1>1, BenchmarkAssumption DEF TrafficInv, WireInv
<1>3. ASSUME NEW v \in Workers PROVE owed'[v] + socket'[v] + input'[v] <= FrameLen
  <2>1. /\ owed[v] \in 0 .. FrameLen /\ socket[v] \in 0 .. FrameLen
        /\ input[v] \in 0 .. FrameLen /\ owed[v] + socket[v] + input[v] <= FrameLen
    BY DEF TrafficInv, WireInv
  <2> QED BY <1>1, <1>2, <2>1, BenchmarkAssumption
<1>4. WireInv'
  <2>1. \A f \in {left, owed, socket, input}' : f \in [Workers -> 0 .. FrameLen]
    BY <1>1, <1>2 DEF TrafficInv, WireInv
  <2> QED BY <1>1, <1>2, <1>3, <2>1 DEF TrafficInv, WireInv
<1>5. ResultInv'
  BY <1>1 DEF TrafficInv, ResultInv
<1> QED BY <1>4, <1>5 DEF TrafficInv

(* With the whole echo in its buffer, a worker has nothing else under way: it can
   send the next request, or end. *)
LEMMA CompleteKeepsTraffic ==
    ASSUME TrafficInv, pc \in [Threads -> WorkerAt \cup MainAt],
           NEW w \in Workers, Complete(w)
    PROVE  TrafficInv'
<1>1. /\ pc[w] = "receive" /\ input[w] >= FrameLen
      /\ input' = [input EXCEPT ![w] = @ - FrameLen]
      /\ UNCHANGED << owed, socket, wrong, hungUp >> /\ w \in Threads
  BY DEF Complete, Threads
<1>2. CASE Fail(w) /\ UNCHANGED left
  BY <1>1, <1>2, FailKeepsTraffic
<1>3. ASSUME NEW latency \in Latencies,
             IF result[w].completed + 1 < Requests
             THEN /\ Goto(w, "send")
                  /\ left' = [left EXCEPT ![w] = FrameLen]
                  /\ result' = [result EXCEPT ![w] = Echoed(w, latency)]
                  /\ UNCHANGED fds
             ELSE /\ Finish(w, Echoed(w, latency))
                  /\ UNCHANGED left
      PROVE  TrafficInv'
  <2> DEFINE there == IF result[w].completed + 1 < Requests THEN "send" ELSE "done"
             new == Echoed(w, latency)
  <2>1. /\ pc' = [pc EXCEPT ![w] = there] /\ result' = [result EXCEPT ![w] = new]
        /\ left' = left \/ left' = [left EXCEPT ![w] = FrameLen]
        /\ there = "send" => left' = [left EXCEPT ![w] = FrameLen]
        /\ fds' \subseteq fds
    BY <1>3 DEF Finish, Goto
  <2>2. /\ result[w] \in WorkerResult /\ result[w].errors = 0
        /\ result[w].completed < Requests /\ result[w].completed \in Nat /\ Requests \in Nat
        /\ Len(result[w].latency_us) = result[w].completed
    BY <1>1, BenchmarkAssumption DEF TrafficInv, ResultInv, WorkerResult
  <2>3. /\ Append(result[w].latency_us, latency) \in Seq(Latencies)
        /\ Len(Append(result[w].latency_us, latency)) = result[w].completed + 1
    <3>1. result[w].latency_us \in Seq(Latencies)
      BY <2>2 DEF WorkerResult
    <3>2. /\ Append(result[w].latency_us, latency) \in Seq(Latencies)
          /\ Len(Append(result[w].latency_us, latency)) = Len(result[w].latency_us) + 1
      BY <3>1, AppendProperties
    <3> QED BY <2>2, <3>2
  <2>4. /\ new \in WorkerResult /\ new.errors = 0
        /\ new.completed = result[w].completed + 1
        /\ Len(new.latency_us) = new.completed
    BY <2>2, <2>3 DEF Echoed, WorkerResult
  <2>5. /\ there \in {"send", "done"}
        /\ there = "send" <=> result[w].completed + 1 < Requests
    OBVIOUS
  <2> HIDE DEF there, new
  <2>6. \A v \in Workers : /\ pc'[v] = IF v = w THEN there ELSE pc[v]
                           /\ result'[v] = IF v = w THEN new ELSE result[v]
    BY <2>1 DEF Threads, TrafficInv, ResultInv
  <2>7. ResultInv'
    BY <2>1, <2>2, <2>4, <2>5, <2>6 DEF TrafficInv, ResultInv
  <2>8. owed[w] = 0 /\ socket[w] = 0 /\ input'[w] = 0 /\ input' \in [Workers -> 0 .. FrameLen]
    <3>1. /\ owed[w] \in 0 .. FrameLen /\ socket[w] \in 0 .. FrameLen
          /\ input \in [Workers -> 0 .. FrameLen] /\ input[w] \in 0 .. FrameLen
          /\ owed[w] + socket[w] + input[w] <= FrameLen
      BY DEF TrafficInv, WireInv
    <3>2. FrameLen \in Nat
      BY BenchmarkAssumption
    <3>3. owed[w] = 0 /\ socket[w] = 0 /\ input[w] = FrameLen
      BY <1>1, <3>1, <3>2
    <3> QED BY <1>1, <3>1, <3>2, <3>3
  <2>9. /\ left' \in [Workers -> 0 .. FrameLen]
        /\ \A v \in Workers : v # w => left'[v] = left[v] /\ input'[v] = input[v]
        /\ there = "send" => left'[w] > 0
    <3>1. /\ left \in [Workers -> 0 .. FrameLen] /\ input \in [Workers -> 0 .. FrameLen]
          /\ FrameLen \in Nat /\ FrameLen > 0
      BY BenchmarkAssumption DEF TrafficInv, WireInv
    <3>2. there = "send" => left'[w] = FrameLen
      BY <2>1, <3>1
    <3>3. left' \in [Workers -> 0 .. FrameLen] /\ \A v \in Workers : v # w => left'[v] = left[v]
      BY <2>1, <3>1
    <3> QED BY <1>1, <3>1, <3>2, <3>3
  <2>10. WireInv'
    <3>1. \A f \in {left, owed, socket, input}' : f \in [Workers -> 0 .. FrameLen]
      BY <1>1, <2>8, <2>9 DEF TrafficInv, WireInv
    <3>2. ASSUME NEW v \in Workers
          PROVE  /\ owed'[v] + socket'[v] + input'[v] <= FrameLen
                 /\ pc'[v] \in BeforeGate => left'[v] = FrameLen
                 /\ pc'[v] = "send" => left'[v] > 0
                 /\ pc'[v] \in BeforeGate \cup {"send"} =>
                      owed'[v] = 0 /\ socket'[v] = 0 /\ input'[v] = 0
      <4>1. CASE v = w
        BY <1>1, <2>5, <2>6, <2>8, <2>9, <4>1, BenchmarkAssumption DEF BeforeGate
      <4>2. CASE v # w
        BY <1>1, <2>6, <2>9, <4>2 DEF TrafficInv, WireInv
      <4> QED BY <4>1, <4>2
    <3>3. wrong' \in [Workers -> BOOLEAN] /\ hungUp' \subseteq Workers /\ fds' \subseteq Workers
      BY <1>1, <2>1 DEF TrafficInv, WireInv
    <3> QED BY <3>1, <3>2, <3>3 DEF WireInv
  <2> QED BY <2>7, <2>10 DEF TrafficInv
<1> QED BY <1>2, <1>3 DEF Complete

-----------------------------------------------------------------------------
(* Every step keeps the invariants of the gate and of the traffic. *)
LEMMA BenchmarkNext ==
    ASSUME GateInv, TrafficInv, [Next]_vars
    PROVE  GateInv' /\ TrafficInv'
<1>0. /\ pc \in [Threads -> WorkerAt \cup MainAt] /\ Main \notin Workers
      /\ Workers \subseteq Threads /\ Main \in Threads
      /\ fds \subseteq Workers
  BY BenchmarkAssumption DEF GateInv, ThreadsPlaced, TrafficInv, WireInv, Threads
<1>1. ASSUME NEW w \in Workers, Connect(w) PROVE GateInv' /\ TrafficInv'
  <2>1. PICK there \in {"connect", "spawn"} :
          /\ pc[Main] = "connect" /\ Goto(Main, there)
          /\ UNCHANGED << gate, wire, result >> /\ fds' = fds \cup {w}
    BY <1>1 DEF Connect, Step
  <2>2. \A v \in Workers : pc'[v] = pc[v]
    BY <1>0, <2>1 DEF Goto
  <2> QED BY <1>0, <2>1, <2>2, MovesPastGate, QuietKeepsTraffic
<1>2. CASE ConnectFails \/ Report
  <2>1. /\ pc[Main] \in {"connect", "join"} /\ Goto(Main, "exit")
        /\ UNCHANGED << gate, wire, result >> /\ fds' \subseteq Workers
    BY <1>0, <1>2 DEF ConnectFails, Report, Step
  <2>2. \A v \in Workers : pc'[v] = pc[v]
    BY <1>0, <2>1 DEF Goto
  <2> QED BY <1>0, <2>1, <2>2, MovesPastGate, QuietKeepsTraffic
<1>3. ASSUME NEW w \in Workers, Spawn(w) PROVE GateInv' /\ TrafficInv'
  <2>1. /\ pc[w] = "none" /\ pc'[w] = "lock" /\ \A v \in Workers \ {w} : pc'[v] = pc[v]
        /\ UNCHANGED << fds, wire, result >>
    BY <1>0, <1>3 DEF Spawn
  <2>2. TrafficInv'
    BY <1>0, <2>1, QuietKeepsTraffic DEF BeforeGate
  <2> QED BY <1>3, <2>2, SpawnKeepsGate
<1>4. ASSUME NEW t \in Threads, GateStep(t) \/ WakeSpuriously(t) PROVE GateInv' /\ TrafficInv'
  <2>1. UNCHANGED << fds, wire, result >>
    BY <1>4 DEF GateStep, LockGate, Check, Park, WakeSpuriously
  <2>2. \A v \in Workers : \/ pc'[v] = pc[v]
                           \/ pc[v] \in BeforeGate /\ pc'[v] \in BeforeGate \cup {"send"}
    BY <1>0, <1>4
    DEF GateStep, LockGate, Check, Park, WakeSpuriously, Step, Goto, BeforeGate
  <2>3. TrafficInv'
    BY <1>0, <2>1, <2>2, QuietKeepsTraffic
  <2>4. GateInv'
    BY <1>4, LockKeepsGate, CheckKeepsGate, WaitKeepsGate DEF GateStep
  <2> QED BY <2>3, <2>4
<1>5. ASSUME NEW w \in Workers, Arrive(w) PROVE GateInv' /\ TrafficInv'
  <2>1. /\ UNCHANGED << fds, wire, result >>
        /\ \A v \in Workers : pc'[v] = IF v = w THEN "check"
                                       ELSE IF pc[v] = "parked" THEN "woken" ELSE pc[v]
        /\ pc[w] = "arrive"
    BY <1>0, <1>5 DEF Arrive, Notified
  <2>2. TrafficInv'
    BY <1>0, <2>1, QuietKeepsTraffic DEF BeforeGate
  <2> QED BY <1>5, <2>2, ArriveKeepsGate
<1>6. CASE OpenGate \/ NotifyWorkers
  <2>1. /\ UNCHANGED << fds, wire, result >>
        /\ \A v \in Workers : pc'[v] = pc[v] \/ (pc[v] = "parked" /\ pc'[v] = "woken")
    BY <1>0, <1>6 DEF OpenGate, NotifyWorkers, Notified, Step, Goto
  <2>2. TrafficInv'
    BY <1>0, <2>1, QuietKeepsTraffic DEF BeforeGate
  <2> QED BY <1>6, <2>2, OpenKeepsGate
<1>7. ASSUME NEW w \in Workers, NEW n, Send(w, n) PROVE GateInv' /\ TrafficInv'
  <2>1. PICK there \in {"send", "receive"} :
          pc[w] = "send" /\ Goto(w, there) /\ UNCHANGED gate
    BY <1>7 DEF Send, Step
  <2>2. GateInv'
    BY <1>0, <2>1, MovesPastGate
  <2> QED BY <1>0, <1>7, <2>2, SendKeepsTraffic
<1>8. ASSUME NEW w \in Workers, SendFails(w) \/ ReceiveFails(w) PROVE GateInv' /\ TrafficInv'
  <2>1. /\ pc[w] \in {"send", "receive"} /\ Fail(w) /\ UNCHANGED << gate, wire >>
        /\ Goto(w, "done")
    BY <1>8 DEF SendFails, ReceiveFails, Fail, Finish
  <2>2. GateInv'
    BY <1>0, <2>1, MovesPastGate
  <2>3. TrafficInv'
    BY <1>0, <2>1, FailKeepsTraffic DEF wire
  <2> QED BY <2>2, <2>3
<1>9. ASSUME NEW w \in Workers, Complete(w) PROVE GateInv' /\ TrafficInv'
  <2>1. PICK there \in {"send", "done"} : pc[w] = "receive" /\ Goto(w, there) /\ UNCHANGED gate
    BY <1>9 DEF Complete, Fail, Finish
  <2>2. GateInv'
    BY <1>0, <2>1, MovesPastGate
  <2> QED BY <1>0, <1>9, <2>2, CompleteKeepsTraffic
<1>10. ASSUME UNCHANGED << pc, gate >> PROVE GateInv'
  <2>1. UNCHANGED << pc, mutex, ready, start >>
    BY <1>10 DEF gate
  <2> QED
    BY <2>1
    DEF GateInv, ThreadsPlaced, GateCounts, HaveArrived, Past, NoMissedNotify, MayPass
<1>11. ASSUME NEW w \in Workers, NEW n, Receive(w, n) \/ Answer(w, n) \/ HangUp(w)
       PROVE  GateInv' /\ TrafficInv'
  <2>1. UNCHANGED << pc, gate >>
    BY <1>11 DEF Receive, Answer, HangUp
  <2> QED BY <1>10, <1>11, <2>1, DeliveryKeepsTraffic, HangUpKeepsTraffic
<1>12. CASE UNCHANGED vars
  <2>1. UNCHANGED << pc, gate, fds, wire, result >>
    BY <1>12 DEF vars
  <2> QED BY <1>0, <1>10, <2>1, QuietKeepsTraffic
<1> QED
  BY <1>0, <1>1, <1>2, <1>3, <1>4, <1>5, <1>6, <1>7, <1>8, <1>9, <1>11, <1>12
  DEF Next, WorkerStep, MainStep, ServerStep

-----------------------------------------------------------------------------
(* What main computes.  The totals and the joined latencies are folds over the
   set of workers, whose order is that of CHOOSE.  The facts about them are shown
   by induction over the sets of workers, stated for a set of sets. *)

Chosen(s) == CHOOSE v \in s : TRUE

(* Every set of naturals has a least element: induction by least counterexample. *)
LEMMA LeastElement ==
    ASSUME NEW T \in SUBSET Nat, T # {}
    PROVE  \E x \in T : \A y \in T : x <= y
<1>1. IsWellFoundedOn(OpToRel(<, Nat), Nat)
  BY NatLessThanWellFounded
<1>2. PICK x \in T : \A y \in T : ~ (<< y, x >> \in OpToRel(<, Nat))
  BY <1>1, WFMin
<1>3. \A y \in T : << y, x >> \in OpToRel(<, Nat) <=> y < x
  BY DEF OpToRel
<1>4. \A y \in T : ~ (y < x)
  BY <1>2, <1>3
<1>5. x \in T /\ T \subseteq Nat
  OBVIOUS
<1>6. \A y \in T : x <= y
  BY <1>4, <1>5, SMT
<1> QED BY <1>5, <1>6

(* Without its chosen element a set is smaller by one. *)
LEMMA WithoutChosen ==
    ASSUME NEW s \in SUBSET Workers
    PROVE  /\ Cardinality(s) \in Nat /\ (Cardinality(s) = 0 <=> s = {})
           /\ s # {} => /\ Chosen(s) \in s /\ s \ {Chosen(s)} \in SUBSET Workers
                        /\ Cardinality(s \ {Chosen(s)}) = Cardinality(s) - 1
<1>1. IsFiniteSet(s)
  BY FS_Subset, BenchmarkAssumption
<1>2. Cardinality(s) \in Nat /\ (Cardinality(s) = 0 <=> s = {})
  BY <1>1, FS_CardinalityType, FS_EmptySet
<1>3. ASSUME s # {} PROVE Chosen(s) \in s
  BY <1>3 DEF Chosen
<1>4. ASSUME s # {} PROVE Cardinality(s \ {Chosen(s)}) = Cardinality(s) - 1
  BY <1>1, <1>3, <1>4, FS_RemoveElement
<1> QED BY <1>2, <1>3, <1>4

(* Induction over the sets of workers, one chosen element at a time. *)
LEMMA SetsOfWorkersInduction ==
    ASSUME NEW Good, {} \in Good,
           \A s \in SUBSET Workers : s # {} /\ s \ {Chosen(s)} \in Good => s \in Good
    PROVE  \A s \in SUBSET Workers : s \in Good
<1> SUFFICES ASSUME NEW bad \in SUBSET Workers, bad \notin Good PROVE FALSE
  OBVIOUS
<1> DEFINE sizes == {n \in Nat : \E s \in SUBSET Workers : s \notin Good /\ Cardinality(s) = n}
<1>1. sizes \in SUBSET Nat /\ sizes # {}
  BY WithoutChosen
<1>2. PICK n \in sizes : \A m \in sizes : n <= m
  <2> HIDE DEF sizes
  <2> QED BY <1>1, LeastElement
<1>3. PICK s \in SUBSET Workers : s \notin Good /\ Cardinality(s) = n
  BY <1>2
<1>4. s # {}
  BY <1>3
<1>5. /\ s \ {Chosen(s)} \in SUBSET Workers /\ s \ {Chosen(s)} \notin Good
      /\ Cardinality(s \ {Chosen(s)}) = n - 1 /\ n - 1 \in Nat
  BY <1>3, <1>4, WithoutChosen
<1>6. n - 1 \in sizes
  BY <1>5
<1> HIDE DEF sizes
<1> QED BY <1>1, <1>2, <1>5, <1>6

(* One step of a fold. *)
Body(step, base, g, s) == IF s = {} THEN base ELSE step[<< Chosen(s), g[s \ {Chosen(s)}] >>]

IsFold(V, base, step, g) ==
    g \in [SUBSET Workers -> V] /\ \A s \in SUBSET Workers : g[s] = Body(step, base, g, s)

(* The fold of step over the workers exists. *)
LEMMA FoldExists ==
    ASSUME NEW V, NEW base \in V, NEW step \in [Workers \X V -> V]
    PROVE  \E g : IsFold(V, base, step, g)
<1> DEFINE UpTo(n, g) ==
             \A s \in SUBSET Workers : Cardinality(s) <= n => g[s] = Body(step, base, g, s)
           missing == {n \in Nat : ~ \E g \in [SUBSET Workers -> V] : UpTo(n, g)}
<1>1. ASSUME missing # {} PROVE FALSE
  <2>1. missing \in SUBSET Nat
    OBVIOUS
  <2>2. PICK n \in missing : \A m \in missing : n <= m
    <3> HIDE DEF missing
    <3> QED BY <1>1, <2>1, LeastElement
  <2>3. CASE n = 0
    <3> DEFINE g == [s \in SUBSET Workers |-> base]
    <3>1. UpTo(n, g)
      <4>1. ASSUME NEW s \in SUBSET Workers, Cardinality(s) <= n PROVE s = {}
        <5>1. Cardinality(s) \in Nat /\ (Cardinality(s) = 0 <=> s = {})
          BY WithoutChosen
        <5>2. Cardinality(s) <= 0
          BY <2>3, <4>1
        <5> QED BY <5>1, <5>2
      <4> QED BY <4>1 DEF Body
    <3> QED BY <2>2, <3>1
  <2>4. CASE n # 0
    <3>1. n - 1 \in Nat /\ n - 1 \notin missing
      <4>1. n \in Nat
        OBVIOUS
      <4>2. ~ (n <= n - 1)
        BY <4>1
      <4> HIDE DEF missing
      <4> QED BY <2>2, <2>4, <4>1, <4>2
    <3>2. PICK g \in [SUBSET Workers -> V] : UpTo(n - 1, g)
      BY <3>1
    <3> DEFINE h == [s \in SUBSET Workers |->
                        IF Cardinality(s) <= n - 1 THEN g[s] ELSE Body(step, base, g, s)]
    <3>3. ASSUME NEW s \in SUBSET Workers PROVE Body(step, base, g, s) \in V
      <4>1. CASE s = {}
        BY <4>1 DEF Body
      <4>2. CASE s # {}
        <5>1. Chosen(s) \in Workers /\ s \ {Chosen(s)} \in SUBSET Workers
          BY <4>2, WithoutChosen
        <5>2. << Chosen(s), g[s \ {Chosen(s)}] >> \in Workers \X V
          BY <5>1
        <5> QED BY <4>2, <5>2 DEF Body
      <4> QED BY <4>1, <4>2
    <3>4. h \in [SUBSET Workers -> V]
      BY <3>3
    <3>5. ASSUME NEW s \in SUBSET Workers, Cardinality(s) <= n
          PROVE  h[s] = Body(step, base, h, s)
      <4>1. h[s] = Body(step, base, g, s)
        <5>1. Cardinality(s) <= n - 1 => g[s] = Body(step, base, g, s)
          BY <3>2
        <5> QED BY <5>1
      <4>2. CASE s = {}
        BY <4>1, <4>2 DEF Body
      <4>3. CASE s # {}
        <5>1. /\ s \ {Chosen(s)} \in SUBSET Workers
              /\ Cardinality(s \ {Chosen(s)}) = Cardinality(s) - 1 /\ Cardinality(s) \in Nat
          BY <4>3, WithoutChosen
        <5>2. Cardinality(s \ {Chosen(s)}) <= n - 1
          BY <3>1, <3>5, <5>1
        <5>3. h[s \ {Chosen(s)}] = g[s \ {Chosen(s)}]
          BY <5>1, <5>2
        <5> HIDE DEF h
        <5> QED BY <4>1, <4>3, <5>3 DEF Body
      <4> QED BY <4>2, <4>3
    <3> HIDE DEF h
    <3> QED BY <2>2, <3>4, <3>5
  <2> QED BY <2>3, <2>4
<1>2. Cardinality(Workers) \in Nat
  BY ArrivedFinite
<1>3. PICK g \in [SUBSET Workers -> V] : UpTo(Cardinality(Workers), g)
  BY <1>1, <1>2
<1>4. \A s \in SUBSET Workers : Cardinality(s) <= Cardinality(Workers)
  BY FS_Subset, BenchmarkAssumption
<1> QED BY <1>3, <1>4 DEF IsFold

-----------------------------------------------------------------------------
(* The folds of main for the results r. *)
Sums(r, field, g) ==
    g = [s \in SUBSET Workers |->
            IF s = {} THEN 0
            ELSE LET w == CHOOSE v \in s : TRUE IN r[w][field] + g[s \ {w}]]

Joins(r, g) ==
    g = [s \in SUBSET Workers |->
            IF s = {} THEN << >>
            ELSE LET w == CHOOSE v \in s : TRUE IN g[s \ {w}] \o r[w].latency_us]

SumOf(r, field) == (CHOOSE g : Sums(r, field, g))[Workers]

JoinOf(r) == (CHOOSE g : Joins(r, g))[Workers]

(* The model's folds are the folds of the lemmas above. *)
LEMMA TotalIsSum == ASSUME NEW field PROVE Total(field) = SumOf(result, field)
  BY Zenon DEF Total, MapThenSumSet, MapThenFoldSet, SumOf, Sums

(* The fold over the workers is the join of their latencies, one worker after another. *)
LEMMA AllLatenciesIsJoin == AllLatencies = JoinOf(result)
  BY Zenon DEF AllLatencies, FoldSet, MapThenFoldSet, JoinOf, Joins

(* The value of a sum and the way it grows. *)
LEMMA SumValues ==
    ASSUME NEW r \in [Workers -> WorkerResult], NEW field \in {"completed", "errors"}
    PROVE  \E g \in [SUBSET Workers -> Nat] :
             /\ g[{}] = 0
             /\ \A s \in SUBSET Workers :
                  s # {} => g[s] = r[Chosen(s)][field] + g[s \ {Chosen(s)}]
             /\ SumOf(r, field) = g[Workers]
<1> DEFINE step == [p \in Workers \X Nat |-> r[p[1]][field] + p[2]]
<1>1. \A w \in Workers : r[w][field] \in Nat
  BY BenchmarkAssumption DEF WorkerResult
<1>2. step \in [Workers \X Nat -> Nat]
  BY <1>1
<1>3. PICK g : IsFold(Nat, 0, step, g)
  <2> HIDE DEF step
  <2> QED BY <1>2, FoldExists
<1>4. ASSUME NEW s \in SUBSET Workers, s # {}
      PROVE  Body(step, 0, g, s) = r[Chosen(s)][field] + g[s \ {Chosen(s)}]
  <2>1. << Chosen(s), g[s \ {Chosen(s)}] >> \in Workers \X Nat
    BY <1>3, <1>4, WithoutChosen DEF IsFold
  <2> QED BY <1>4, <2>1 DEF Body
<1>5. Body(step, 0, g, {}) = 0
  BY DEF Body
<1> HIDE DEF step
<1>6. /\ g[{}] = 0
      /\ \A s \in SUBSET Workers : s # {} => g[s] = r[Chosen(s)][field] + g[s \ {Chosen(s)}]
  BY <1>3, <1>4, <1>5 DEF IsFold
<1>7. Sums(r, field, g)
  <2> DEFINE next(s) == IF s = {} THEN 0 ELSE r[Chosen(s)][field] + g[s \ {Chosen(s)}]
  <2>1. \A s \in SUBSET Workers : g[s] = next(s)
    BY <1>6
  <2>2. g = [s \in SUBSET Workers |-> next(s)]
    <3> HIDE DEF next
    <3> QED BY <1>3, <2>1 DEF IsFold
  <2> QED BY <2>2 DEF Sums, Chosen
<1> DEFINE h == CHOOSE k : Sums(r, field, k)
<1>8. Sums(r, field, h)
  BY <1>7
<1>9. SumOf(r, field) = h[Workers]
  BY DEF SumOf
<1> HIDE DEF h
<1>10. /\ h[{}] = 0
       /\ \A s \in SUBSET Workers : s # {} => h[s] = r[Chosen(s)][field] + h[s \ {Chosen(s)}]
  BY <1>8 DEF Sums, Chosen
<1>11. \A s \in SUBSET Workers : h[s] = g[s]
  <2> DEFINE Good == {s \in SUBSET Workers : h[s] = g[s]}
  <2>1. {} \in Good
    BY <1>6, <1>10
  <2>2. \A s \in SUBSET Workers : s # {} /\ s \ {Chosen(s)} \in Good => s \in Good
    BY <1>6, <1>10
  <2> HIDE DEF Good
  <2>3. \A s \in SUBSET Workers : s \in Good
    BY <2>1, <2>2, SetsOfWorkersInduction
  <2> QED BY <2>3 DEF Good
<1> QED BY <1>3, <1>6, <1>9, <1>11 DEF IsFold

(* What the joined latencies of a set of workers are, one worker at a time. *)
LEMMA JoinValues ==
    ASSUME NEW r \in [Workers -> WorkerResult]
    PROVE  \E g \in [SUBSET Workers -> Seq(Latencies)] :
             /\ g[{}] = << >>
             /\ \A s \in SUBSET Workers :
                  s # {} => g[s] = g[s \ {Chosen(s)}] \o r[Chosen(s)].latency_us
             /\ JoinOf(r) = g[Workers]
<1> DEFINE V == Seq(Latencies)
           step == [p \in Workers \X V |-> p[2] \o r[p[1]].latency_us]
<1>1. \A w \in Workers : r[w].latency_us \in V
  BY DEF WorkerResult
<1>2. step \in [Workers \X V -> V] /\ << >> \in V
  <2>1. \A a, b \in V : a \o b \in V
    BY ConcatProperties
  <2>2. << >> \in V
    BY EmptySeq
  <2> HIDE DEF V
  <2> QED BY <1>1, <2>1, <2>2
<1>3. PICK g : IsFold(V, << >>, step, g)
  <2> HIDE DEF step, V
  <2> QED BY <1>2, FoldExists
<1> HIDE DEF V
<1>4. ASSUME NEW s \in SUBSET Workers, s # {}
      PROVE  Body(step, << >>, g, s) = g[s \ {Chosen(s)}] \o r[Chosen(s)].latency_us
  <2>1. << Chosen(s), g[s \ {Chosen(s)}] >> \in Workers \X V
    BY <1>3, <1>4, WithoutChosen DEF IsFold
  <2> QED BY <1>4, <2>1 DEF Body
<1>5. Body(step, << >>, g, {}) = << >>
  BY DEF Body
<1> HIDE DEF step
<1>6. /\ g[{}] = << >>
      /\ \A s \in SUBSET Workers :
           s # {} => g[s] = g[s \ {Chosen(s)}] \o r[Chosen(s)].latency_us
  BY <1>3, <1>4, <1>5 DEF IsFold
<1>7. Joins(r, g)
  <2> DEFINE next(s) == IF s = {} THEN << >> ELSE g[s \ {Chosen(s)}] \o r[Chosen(s)].latency_us
  <2>1. \A s \in SUBSET Workers : g[s] = next(s)
    BY <1>6
  <2>2. g = [s \in SUBSET Workers |-> next(s)]
    <3> HIDE DEF next
    <3> QED BY <1>3, <2>1 DEF IsFold
  <2> QED BY <2>2 DEF Joins, Chosen
<1> DEFINE h == CHOOSE k : Joins(r, k)
<1>8. Joins(r, h)
  BY <1>7
<1>9. JoinOf(r) = h[Workers]
  BY DEF JoinOf
<1> HIDE DEF h
<1>10. /\ h[{}] = << >>
       /\ \A s \in SUBSET Workers :
            s # {} => h[s] = h[s \ {Chosen(s)}] \o r[Chosen(s)].latency_us
  BY <1>8 DEF Joins, Chosen
<1>11. \A s \in SUBSET Workers : h[s] = g[s]
  <2> DEFINE Good == {s \in SUBSET Workers : h[s] = g[s]}
  <2>1. {} \in Good
    BY <1>6, <1>10
  <2>2. \A s \in SUBSET Workers : s # {} /\ s \ {Chosen(s)} \in Good => s \in Good
    BY <1>6, <1>10
  <2> HIDE DEF Good
  <2>3. \A s \in SUBSET Workers : s \in Good
    BY <2>1, <2>2, SetsOfWorkersInduction
  <2> QED BY <2>3 DEF Good
<1> QED BY <1>3, <1>6, <1>9, <1>11 DEF IsFold, V

-----------------------------------------------------------------------------
(* A total of 0 leaves no worker with an error. *)
LEMMA NoErrors ==
    ASSUME NEW r \in [Workers -> WorkerResult], SumOf(r, "errors") = 0
    PROVE  \A w \in Workers : r[w].errors = 0
<1>1. PICK g \in [SUBSET Workers -> Nat] :
        /\ g[{}] = 0
        /\ \A s \in SUBSET Workers : s # {} => g[s] = r[Chosen(s)]["errors"] + g[s \ {Chosen(s)}]
        /\ SumOf(r, "errors") = g[Workers]
  BY SumValues
<1> DEFINE Good == {s \in SUBSET Workers : g[s] = 0 => \A w \in s : r[w].errors = 0}
<1>2. {} \in Good
  OBVIOUS
<1>3. ASSUME NEW s \in SUBSET Workers, s # {}, s \ {Chosen(s)} \in Good PROVE s \in Good
  <2>1. ASSUME g[s] = 0 PROVE \A w \in s : r[w].errors = 0
    <3>1. Chosen(s) \in s /\ s \ {Chosen(s)} \in SUBSET Workers
      BY <1>3, WithoutChosen
    <3>2. r[Chosen(s)].errors \in Nat /\ g[s \ {Chosen(s)}] \in Nat
      <4>1. Chosen(s) \in Workers
        BY <3>1
      <4>2. r[Chosen(s)] \in WorkerResult
        BY <4>1
      <4>3. r[Chosen(s)].errors \in {0, 1}
        BY <4>2 DEF WorkerResult
      <4> HIDE DEF Good
      <4> QED BY <3>1, <4>3
    <3>3. r[Chosen(s)].errors = 0 /\ g[s \ {Chosen(s)}] = 0
      BY <1>1, <1>3, <2>1, <3>2
    <3> QED BY <1>3, <3>1, <3>3
  <2> QED BY <2>1
<1> HIDE DEF Good
<1>4. Workers \in Good
  BY <1>2, <1>3, SetsOfWorkersInduction
<1> QED BY <1>1, <1>4 DEF Good

(* Workers that each have the same count have it as often as there are workers. *)
LEMMA AllCompleted ==
    ASSUME NEW r \in [Workers -> WorkerResult], \A w \in Workers : r[w].completed = Requests
    PROVE  SumOf(r, "completed") = Requests * Cardinality(Workers)
<1>0. Requests \in Nat
  BY BenchmarkAssumption
<1>1. PICK g \in [SUBSET Workers -> Nat] :
        /\ g[{}] = 0
        /\ \A s \in SUBSET Workers :
             s # {} => g[s] = r[Chosen(s)]["completed"] + g[s \ {Chosen(s)}]
        /\ SumOf(r, "completed") = g[Workers]
  BY SumValues
<1> DEFINE Good == {s \in SUBSET Workers : g[s] = Requests * Cardinality(s)}
<1>2. {} \in Good
  BY <1>0, <1>1, FS_EmptySet
<1>3. ASSUME NEW s \in SUBSET Workers, s # {}, s \ {Chosen(s)} \in Good PROVE s \in Good
  <2>1. /\ Chosen(s) \in Workers /\ Cardinality(s) \in Nat
        /\ Cardinality(s \ {Chosen(s)}) = Cardinality(s) - 1
    BY <1>3, WithoutChosen
  <2>2. g[s] = Requests + Requests * (Cardinality(s) - 1)
    BY <1>1, <1>3, <2>1
  <2> QED BY <1>0, <2>1, <2>2
<1> HIDE DEF Good
<1>4. Workers \in Good
  BY <1>2, <1>3, SetsOfWorkersInduction
<1> QED BY <1>1, <1>4 DEF Good

(* If each worker has a latency for each answer, so has main. *)
LEMMA AsManyLatencies ==
    ASSUME NEW r \in [Workers -> WorkerResult],
           \A w \in Workers : Len(r[w].latency_us) = r[w].completed
    PROVE  JoinOf(r) \in Seq(Latencies) /\ Len(JoinOf(r)) = SumOf(r, "completed")
<1>1. PICK g \in [SUBSET Workers -> Nat] :
        /\ g[{}] = 0
        /\ \A s \in SUBSET Workers :
             s # {} => g[s] = r[Chosen(s)]["completed"] + g[s \ {Chosen(s)}]
        /\ SumOf(r, "completed") = g[Workers]
  BY SumValues
<1>2. PICK h \in [SUBSET Workers -> Seq(Latencies)] :
        /\ h[{}] = << >>
        /\ \A s \in SUBSET Workers :
             s # {} => h[s] = h[s \ {Chosen(s)}] \o r[Chosen(s)].latency_us
        /\ JoinOf(r) = h[Workers]
  BY JoinValues
<1> DEFINE Good == {s \in SUBSET Workers : Len(h[s]) = g[s]}
<1>3. {} \in Good
  BY <1>1, <1>2, EmptySeq
<1>4. ASSUME NEW s \in SUBSET Workers, s # {}, s \ {Chosen(s)} \in Good PROVE s \in Good
  <2>1. Chosen(s) \in Workers /\ s \ {Chosen(s)} \in SUBSET Workers
    BY <1>4, WithoutChosen
  <2> DEFINE before == h[s \ {Chosen(s)}]
             added == r[Chosen(s)].latency_us
  <2>2. before \in Seq(Latencies) /\ added \in Seq(Latencies)
    BY <2>1 DEF WorkerResult
  <2> HIDE DEF before, added
  <2>3. Len(before \o added) = Len(before) + Len(added)
    BY <2>2, ConcatProperties
  <2>4. Len(before) \in Nat /\ Len(added) \in Nat
    BY <2>2, LenProperties
  <2>5. h[s] = before \o added /\ Len(before) = g[s \ {Chosen(s)}]
    BY <1>2, <1>4 DEF before, added
  <2>6. g[s] = Len(added) + Len(before)
    BY <1>1, <1>4, <2>1, <2>5 DEF added
  <2> QED BY <2>3, <2>4, <2>5, <2>6
<1> HIDE DEF Good
<1>5. Workers \in Good
  BY <1>3, <1>4, SetsOfWorkersInduction
<1> QED BY <1>1, <1>2, <1>5 DEF Good

-----------------------------------------------------------------------------
Summary(r) ==
    [code |-> IF SumOf(r, "errors") = 0 THEN 0 ELSE 2,
     completed |-> SumOf(r, "completed"),
     errors |-> SumOf(r, "errors"),
     p50 |-> Percentile(JoinOf(r), 50)]

(* main reports nothing before its end, and then that it could not connect, or
   what its workers, which have all ended, counted. *)
ReportInv ==
    /\ pc[Main] # "exit" => report = NoReport
    /\ pc[Main] = "exit" =>
         \/ report = [NoReport EXCEPT !.code = 1]
         \/ (\A w \in Workers : pc[w] = "done") /\ report = Summary(result)

(* Every step keeps the report true to the results. *)
LEMMA ReportNext ==
    ASSUME GateInv, ReportInv, [Next]_vars
    PROVE  ReportInv'
<1>0. /\ pc \in [Threads -> WorkerAt \cup MainAt] /\ Main \notin Workers
      /\ Workers \subseteq Threads /\ Main \in Threads /\ pc[Main] \in MainAt
      /\ \A w \in Workers : pc[w] \in WorkerAt
  BY BenchmarkAssumption DEF GateInv, ThreadsPlaced, Threads
<1>1. CASE Report
  <2>1. /\ \A w \in Workers : pc[w] = "done"
        /\ pc' = [pc EXCEPT ![Main] = "exit"] /\ UNCHANGED result
        /\ report' = [code |-> IF Total("errors") = 0 THEN 0 ELSE 2,
                      completed |-> Total("completed"),
                      errors |-> Total("errors"),
                      p50 |-> Percentile(AllLatencies, 50)]
    BY <1>1 DEF Report, Step, Goto
  <2>2. report' = Summary(result)
    <3>1. Total("errors") = SumOf(result, "errors")
      BY TotalIsSum
    <3>2. Total("completed") = SumOf(result, "completed")
      BY TotalIsSum
    <3> QED BY <2>1, <3>1, <3>2, AllLatenciesIsJoin DEF Summary
  <2>3. pc'[Main] = "exit" /\ \A w \in Workers : pc'[w] = "done"
    BY <1>0, <2>1
  <2> QED BY <2>1, <2>2, <2>3 DEF ReportInv
<1>2. CASE ConnectFails
  <2>1. pc[Main] # "exit" /\ pc'[Main] = "exit" /\ report' = [report EXCEPT !.code = 1]
    BY <1>0, <1>2 DEF ConnectFails, Step, Goto
  <2> QED BY <2>1 DEF ReportInv
<1>3. ASSUME UNCHANGED report, pc'[Main] = "exit" <=> pc[Main] = "exit",
             (\A w \in Workers : pc[w] = "done") /\ pc[Main] = "exit" =>
               UNCHANGED result /\ \A w \in Workers : pc'[w] = "done"
      PROVE  ReportInv'
  BY <1>3 DEF ReportInv
<1>4. ASSUME NEW w \in Workers, Connect(w) \/ Spawn(w) PROVE ReportInv'
  <2>1. /\ UNCHANGED << report, result >> /\ pc[Main] # "exit" /\ pc'[Main] # "exit"
    BY <1>0, <1>4 DEF Connect, Spawn, Step, Goto
  <2> QED BY <1>3, <2>1
<1>5. ASSUME NEW t \in Threads, GateStep(t) \/ WakeSpuriously(t) PROVE ReportInv'
  <2>1. /\ UNCHANGED << report, result >>
        /\ \A u \in Threads : pc'[u] = pc[u] \/ {pc[u], pc'[u]} \cap {"exit", "done"} = {}
    BY <1>0, <1>5 DEF GateStep, LockGate, Check, Park, WakeSpuriously, Step, Goto
  <2> QED BY <1>0, <1>3, <2>1
<1>6. CASE OpenGate \/ NotifyWorkers \/ \E w \in Workers : Arrive(w)
  <2>1. /\ UNCHANGED << report, result >>
        /\ \A u \in Threads : pc'[u] = pc[u] \/ {pc[u], pc'[u]} \cap {"exit", "done"} = {}
    BY <1>0, <1>6 DEF OpenGate, NotifyWorkers, Arrive, Notified, Step, Goto
  <2> QED BY <1>0, <1>3, <2>1
<1>7. ASSUME NEW w \in Workers, NEW n,
             Send(w, n) \/ SendFails(w) \/ ReceiveFails(w) \/ Complete(w)
      PROVE  ReportInv'
  <2>1. /\ UNCHANGED report /\ pc[w] # "done" /\ pc'[Main] = pc[Main]
    BY <1>0, <1>7 DEF Send, SendFails, ReceiveFails, Complete, Fail, Finish, Step, Goto
  <2> QED BY <1>3, <2>1
<1>8. ASSUME NEW w \in Workers, NEW n, Receive(w, n) \/ Answer(w, n) \/ HangUp(w)
      PROVE  ReportInv'
  <2>1. UNCHANGED << pc, report, result >>
    BY <1>8 DEF Receive, Answer, HangUp
  <2> QED BY <1>3, <2>1
<1>9. CASE UNCHANGED vars
  <2>1. UNCHANGED << pc, report, result >>
    BY <1>9 DEF vars
  <2> QED BY <1>3, <2>1
<1> QED
  BY <1>0, <1>1, <1>2, <1>4, <1>5, <1>6, <1>7, <1>8, <1>9
  DEF Next, WorkerStep, MainStep, ServerStep

-----------------------------------------------------------------------------
(* Any values can be sorted: the rank of a position is the number of positions
   whose value is smaller, or as great and further to the front. *)
LEMMA SortExists ==
    ASSUME NEW s \in Seq(Int)
    PROVE  \E p \in [DOMAIN s -> DOMAIN s] : Sorts(p, s)
<1> DEFINE n == Len(s)
           D == 1 .. n
           Before(i, j) == s[i] < s[j] \/ (s[i] = s[j] /\ i < j)
           below(i) == {j \in D : Before(j, i)}
           rank == [i \in D |-> Cardinality(below(i)) + 1]
           p == [k \in D |-> CHOOSE i \in D : rank[i] = k]
<1>0. n \in Nat /\ DOMAIN s = D /\ \A i \in D : s[i] \in Int
  BY ElementOfSeq, LenProperties
<1> HIDE DEF n
<1>1. IsFiniteSet(D) /\ Cardinality(D) = n
  <2>1. IsFiniteSet(1 .. n) /\ Cardinality(1 .. n) = IF 1 > n THEN 0 ELSE n - 1 + 1
    BY <1>0, FS_Interval
  <2> QED BY <1>0, <2>1
<1>2. ASSUME NEW i \in D
      PROVE  /\ IsFiniteSet(below(i)) /\ Cardinality(below(i)) \in Nat
             /\ rank[i] \in D
  <2>1. below(i) \in SUBSET D /\ i \notin below(i)
    BY <1>0
  <2>2. /\ IsFiniteSet(below(i)) /\ Cardinality(below(i)) <= n
        /\ Cardinality(below(i)) = n => below(i) = D
    BY <1>1, <2>1, FS_Subset
  <2>3. Cardinality(below(i)) \in Nat
    BY <2>2, FS_CardinalityType
  <2>4. Cardinality(below(i)) # n
    BY <2>1, <2>2
  <2> QED BY <1>0, <2>2, <2>3, <2>4
<1>3. ASSUME NEW i \in D, NEW j \in D, Before(i, j) PROVE rank[i] < rank[j]
  <2>1. below(i) \in SUBSET below(j) /\ i \in below(j) /\ i \notin below(i)
    BY <1>0, <1>3
  <2>2. /\ Cardinality(below(i)) <= Cardinality(below(j))
        /\ Cardinality(below(i)) = Cardinality(below(j)) => below(i) = below(j)
    BY <1>2, <2>1, FS_Subset
  <2>3. Cardinality(below(i)) # Cardinality(below(j))
    BY <2>1, <2>2
  <2>4. rank[i] = Cardinality(below(i)) + 1 /\ rank[j] = Cardinality(below(j)) + 1
    OBVIOUS
  <2>5. Cardinality(below(i)) \in Nat /\ Cardinality(below(j)) \in Nat
    BY <1>2
  <2> HIDE DEF below, rank
  <2> QED BY <2>2, <2>3, <2>4, <2>5
<1>4. \A i, j \in D : i # j => Before(i, j) \/ Before(j, i)
  BY <1>0
<1> HIDE DEF rank, Before
<1>5. rank \in Injection(D, D)
  <2>1. rank \in [D -> D]
    BY <1>2 DEF rank
  <2>2. \A i, j \in D : rank[i] = rank[j] => i = j
    <3>1. \A i \in D : rank[i] \in Int
      BY <1>0, <2>1
    <3> QED BY <1>3, <1>4, <3>1
  <2> QED BY <2>1, <2>2 DEF Injection, IsInjective
<1>6. rank \in Surjection(D, D)
  BY <1>1, <1>5, FS_Injection
<1>7. \A k \in D : p[k] \in D /\ rank[p[k]] = k
  BY <1>6 DEF Surjection
<1>8. p \in [D -> D]
  <2>1. \A k \in D : (CHOOSE i \in D : rank[i] = k) \in D
    BY <1>6 DEF Surjection
  <2> QED BY <2>1
<1> HIDE DEF p
<1>9. IsInjective(p)
  <2>1. \A a, b \in D : p[a] = p[b] => a = b
    BY <1>7
  <2> QED BY <1>8, <2>1 DEF IsInjective
<1>10. ASSUME NEW k \in D, NEW l \in D, k < l PROVE s[p[k]] <= s[p[l]]
  <2>1. p[k] \in D /\ p[l] \in D /\ rank[p[k]] = k /\ rank[p[l]] = l
    BY <1>7
  <2>2. ~ Before(p[l], p[k])
    <3>1. ~ (l < k)
      BY <1>0, <1>10
    <3> QED BY <1>3, <2>1, <3>1
  <2>3. s[p[k]] \in Int /\ s[p[l]] \in Int
    BY <1>0, <2>1
  <2> QED BY <2>2, <2>3 DEF Before
<1> QED BY <1>0, <1>8, <1>9, <1>10 DEF Sorts

(* The 50th percentile is one of the values; at least half of them, rounded down,
   are no greater, and fewer than half are smaller. *)
LEMMA MedianOfValues ==
    ASSUME NEW s \in Seq(Int), s # << >>
    PROVE  LET v == Percentile(s, 50) IN
           /\ v \in ToSet(s)
           /\ Cardinality({i \in DOMAIN s : s[i] <= v}) >= Len(s) \div 2
           /\ 2 * Cardinality({i \in DOMAIN s : s[i] < v}) < Len(s)
<1> DEFINE n == Len(s)
           D == 1 .. n
           p == CHOOSE q \in [DOMAIN s -> DOMAIN s] : Sorts(q, s)
           k == IF (50 * n) \div 100 = 0 THEN 1 ELSE (50 * n) \div 100
           v == Percentile(s, 50)
           atMost == {i \in DOMAIN s : s[i] <= v}
           smaller == {i \in DOMAIN s : s[i] < v}
<1>1. n \in Nat \ {0} /\ DOMAIN s = D /\ \A i \in D : s[i] \in Int
  BY ElementOfSeq, LenProperties, EmptySeq
<1>2. p \in [D -> D] /\ Sorts(p, s)
  BY <1>1, SortExists
<1>3. IsFiniteSet(D) /\ Cardinality(D) = n
  BY <1>1, FS_Interval
<1>4. v = Sorted(s)[k]
  BY DEF Percentile
<1>5. Sorted(s) = [i \in DOMAIN s |-> s[p[i]]]
  BY DEF Sorted
<1> HIDE DEF p, v, n
<1>6. k \in D /\ k >= n \div 2 /\ 2 * (k - 1) < n
  <2>1. (50 * n) \div 100 = n \div 2
    BY <1>1
  <2>2. n \div 2 \in Nat /\ 2 * (n \div 2) <= n /\ n < 2 * (n \div 2) + 2
    BY <1>1
  <2>3. k = IF n \div 2 = 0 THEN 1 ELSE n \div 2
    BY <2>1
  <2> QED BY <1>1, <2>2, <2>3
<1> HIDE DEF k
<1>7. v = s[p[k]] /\ p[k] \in D /\ v \in Int
  BY <1>1, <1>2, <1>4, <1>5, <1>6
<1>8. /\ \A i, j \in D : i < j => s[p[i]] <= s[p[j]]
      /\ \A i, j \in D : p[i] = p[j] => i = j
  BY <1>1, <1>2 DEF Sorts, IsInjective
<1>9. \A i \in D : \E j \in D : p[j] = i
  <2>1. p \in Injection(D, D)
    BY <1>2, <1>8 DEF Injection, IsInjective
  <2>2. p \in Surjection(D, D)
    BY <1>3, <2>1, FS_Injection
  <2> QED BY <2>2 DEF Surjection
<1>10. IsFiniteSet(atMost) /\ IsFiniteSet(smaller)
  <2>1. atMost \in SUBSET D /\ smaller \in SUBSET D
    BY <1>1
  <2> QED BY <1>3, <2>1, FS_Subset
<1>11. Cardinality(atMost) >= n \div 2
  <2> DEFINE f == [j \in 1 .. k |-> p[j]]
  <2>1. ASSUME NEW j \in 1 .. k PROVE j \in D /\ p[j] \in atMost
    <3>1. j \in D /\ (j < k \/ j = k) /\ p[j] \in D
      BY <1>1, <1>2, <1>6
    <3>2. s[p[j]] <= v
      BY <1>1, <1>6, <1>7, <1>8, <3>1
    <3> QED BY <1>1, <3>1, <3>2
  <2>2. f \in Injection(1 .. k, atMost)
    <3> HIDE DEF atMost
    <3> QED BY <1>8, <2>1 DEF Injection, IsInjective
  <2>3. Cardinality(1 .. k) <= Cardinality(atMost)
    BY <1>10, <2>2, FS_Injection
  <2>4. Cardinality(1 .. k) = k
    BY <1>1, <1>6, FS_Interval
  <2>5. Cardinality(atMost) \in Nat /\ n \div 2 \in Nat /\ k \in Nat
    BY <1>1, <1>6, <1>10, FS_CardinalityType
  <2> HIDE DEF atMost
  <2> QED BY <1>6, <2>3, <2>4, <2>5
<1>12. 2 * Cardinality(smaller) < n
  <2> DEFINE place(i) == CHOOSE j \in D : p[j] = i
             f == [i \in smaller |-> place(i)]
  <2>1. ASSUME NEW i \in smaller PROVE place(i) \in 1 .. k - 1 /\ p[place(i)] = i
    <3>1. i \in D /\ s[i] < v
      BY <1>1
    <3>2. place(i) \in D /\ p[place(i)] = i
      BY <1>9, <3>1
    <3> HIDE DEF place
    <3>3. ~ (place(i) >= k)
      <4>1. ASSUME place(i) >= k PROVE FALSE
        <5>1. place(i) = k \/ k < place(i)
          BY <1>1, <1>6, <3>2, <4>1
        <5>2. v <= s[i]
          <6>1. CASE place(i) = k
            BY <1>7, <3>2, <6>1
          <6>2. CASE k < place(i)
            <7>1. s[p[k]] <= s[p[place(i)]]
              BY <1>6, <1>8, <3>2, <6>2
            <7> QED BY <1>7, <3>2, <7>1
          <6> QED BY <5>1, <6>1, <6>2
        <5>3. s[i] \in Int
          BY <1>1, <3>1
        <5> QED BY <1>7, <3>1, <5>2, <5>3
      <4> QED BY <4>1
    <3> QED BY <1>1, <1>6, <3>2, <3>3
  <2> HIDE DEF place, smaller
  <2>2. f \in Injection(smaller, 1 .. k - 1)
    BY <2>1 DEF Injection, IsInjective
  <2>3. IsFiniteSet(1 .. k - 1) /\ Cardinality(1 .. k - 1) = k - 1
    <3>1. k \in Nat \ {0} /\ k - 1 \in Int
      BY <1>1, <1>6
    <3>2. /\ IsFiniteSet(1 .. k - 1)
          /\ Cardinality(1 .. k - 1) = IF 1 > k - 1 THEN 0 ELSE k - 1 - 1 + 1
      BY <3>1, FS_Interval
    <3> QED BY <3>1, <3>2
  <2>4. Cardinality(smaller) <= k - 1
    BY <2>2, <2>3, FS_Injection
  <2>5. Cardinality(smaller) \in Nat /\ k \in Nat
    BY <1>1, <1>6, <1>10, FS_CardinalityType
  <2> QED BY <1>1, <1>6, <2>4, <2>5
<1>13. v \in ToSet(s)
  BY <1>1, <1>7 DEF ToSet
<1> QED BY <1>11, <1>12, <1>13 DEF v, n

-----------------------------------------------------------------------------
(* The inductive invariant: the gate, the traffic of each worker, the report. *)
LEMMA BenchmarkInvariant == Spec => [](GateInv /\ TrafficInv /\ ReportInv)
<1>1. ASSUME Init PROVE GateInv /\ TrafficInv /\ ReportInv
  <2>1. pc[Main] = "connect" /\ report = NoReport
    BY <1>1 DEF Init, Threads
  <2> QED BY <1>1, <2>1, GateInit, TrafficInit DEF ReportInv
<1>2. GateInv /\ TrafficInv /\ ReportInv /\ [Next]_vars => (GateInv /\ TrafficInv /\ ReportInv)'
  BY BenchmarkNext, ReportNext
<1> QED BY <1>1, <1>2, PTL DEF Spec

(* The variables of the client have their types: ready counts no more threads than
   there are workers, and no more than one message is on its way in either
   direction of a connection (tcp_benchmark.cpp:22-36 and 160-231). *)
THEOREM BenchmarkTypeOK == Spec => []TypeOK
<1>1. GateInv /\ TrafficInv => TypeOK
  <2> SUFFICES ASSUME GateInv, TrafficInv PROVE TypeOK
    OBVIOUS
  <2>1. pc \in [Threads -> WorkerAt \cup MainAt] /\ mutex \in Threads \cup {Free}
    BY DEF GateInv, ThreadsPlaced
  <2>2. ready \in 0 .. Cardinality(Workers) /\ start \in BOOLEAN
    BY ArrivedFinite DEF GateInv, GateCounts
  <2>3. WorkerAt \cup MainAt = {"none", "connect", "spawn", "lock", "arrive", "check", "park",
                                "parked", "woken", "open", "notify", "send", "receive", "join",
                                "done", "exit"}
    BY DEF WorkerAt, MainAt, BeforeGate
  <2>4. \A w \in Workers : result[w].completed \in 0 .. Requests
    BY DEF TrafficInv, ResultInv, WorkerResult
  <2> QED BY <2>1, <2>2, <2>3, <2>4 DEF TypeOK, TrafficInv, WireInv
<1> QED BY <1>1, BenchmarkInvariant, PTL

(* No worker is through the gate before all of them have reached it, for any number
   of workers and any spurious wakeups (tcp_benchmark.cpp:167-177 and 351-375). *)
THEOREM BenchmarkGateHolds == Spec => []GateHolds
<1>1. GateInv => GateHolds
  <2> SUFFICES ASSUME GateInv, NEW w \in Workers, Past(w)
               PROVE  ready = Cardinality(Workers) /\ Past(Main)
    BY DEF GateHolds
  <2>1. ready = Cardinality(Workers) /\ pc[Main] \in {"notify", "join", "exit"}
    BY DEF GateInv, GateCounts
  <2> QED BY <2>1 DEF Past
<1> QED BY <1>1, BenchmarkInvariant, PTL

(* A thread that waits or is about to wait has to, but for workers that main is just
   about to wake: no notification falls into the gap between a predicate and its
   wait (tcp_benchmark.cpp:173-177 and 361-375). *)
THEOREM BenchmarkNoMissedNotify == Spec => []NoMissedNotify
<1>1. GateInv => NoMissedNotify
  BY DEF GateInv
<1> QED BY <1>1, BenchmarkInvariant, PTL

(* The counts of each worker say what happened on its connection, and exit code 0
   means that every request of every worker was echoed: main's sums leave out
   nothing (tcp_benchmark.cpp:183-231, 385-406 and 497-501). *)
THEOREM BenchmarkResultsAddUp == Spec => []ResultsAddUp
<1>1. GateInv /\ TrafficInv /\ ReportInv => ResultsAddUp
  <2> SUFFICES ASSUME GateInv, TrafficInv, ReportInv PROVE ResultsAddUp
    OBVIOUS
  <2>1. /\ result \in [Workers -> WorkerResult]
        /\ \A w \in Workers :
             /\ Len(result[w].latency_us) = result[w].completed
             /\ pc[w] = "done" =>
                  result[w].errors = IF result[w].completed < Requests THEN 1 ELSE 0
    BY DEF TrafficInv, ResultInv
  <2>2. ASSUME pc[Main] = "exit", report.code = 0
        PROVE  report.completed = Requests * Cardinality(Workers)
    <3>1. (\A w \in Workers : pc[w] = "done") /\ report = Summary(result)
      BY <2>2 DEF ReportInv, NoReport
    <3>2. SumOf(result, "errors") = 0
      BY <2>2, <3>1 DEF Summary
    <3>3. \A w \in Workers : result[w].errors = 0
      BY <2>1, <3>2, NoErrors
    <3>4. \A w \in Workers : result[w].completed = Requests
      <4>1. \A w \in Workers : result[w].completed \in 0 .. Requests
        BY <2>1 DEF WorkerResult
      <4> QED BY <2>1, <3>1, <3>3, <4>1, BenchmarkAssumption
    <3> QED BY <2>1, <3>1, <3>4, AllCompleted DEF Summary
  <2> QED BY <2>1, <2>2 DEF ResultsAddUp
<1> QED BY <1>1, BenchmarkInvariant, PTL

(* The P50 of the report is a latency that was measured, at least half of them,
   rounded down, are no greater and fewer than half are smaller, for any number of
   them in any order (percentile, tcp_benchmark.cpp:234-256). *)
THEOREM BenchmarkMedianReported == Spec => []MedianReported
<1>1. GateInv /\ TrafficInv /\ ReportInv => MedianReported
  <2> SUFFICES ASSUME GateInv, TrafficInv, ReportInv, pc[Main] = "exit", report.completed > 0
               PROVE  /\ report.p50 \in ToSet(AllLatencies)
                      /\ Cardinality({i \in DOMAIN AllLatencies : AllLatencies[i] <= report.p50})
                           >= report.completed \div 2
                      /\ 2 * Cardinality({i \in DOMAIN AllLatencies :
                                             AllLatencies[i] < report.p50}) < report.completed
    BY DEF MedianReported
  <2>1. report = Summary(result)
    BY DEF ReportInv, NoReport
  <2>2. /\ result \in [Workers -> WorkerResult]
        /\ \A w \in Workers : Len(result[w].latency_us) = result[w].completed
    BY DEF TrafficInv, ResultInv
  <2>3. JoinOf(result) \in Seq(Latencies) /\ Len(JoinOf(result)) = SumOf(result, "completed")
    BY <2>2, AsManyLatencies
  <2>4. JoinOf(result) \in Seq(Int)
    <3>1. Latencies \subseteq Int
      BY BenchmarkAssumption
    <3> QED BY <2>3, <3>1, SeqMonotonic
  <2>5. report.completed = Len(JoinOf(result)) /\ report.p50 = Percentile(JoinOf(result), 50)
    BY <2>1, <2>3 DEF Summary
  <2>6. JoinOf(result) # << >>
    BY <2>5, EmptySeq
  <2> QED BY <2>4, <2>5, <2>6, AllLatenciesIsJoin, MedianOfValues
<1> QED BY <1>1, BenchmarkInvariant, PTL
=============================================================================
