------------------------------ MODULE Benchmark ------------------------------
(***************************************************************************)
(* benchmark/tcp_benchmark.cpp: the main thread connects, starts a worker  *)
(* for each connection and opens a gate (mutex and condition variable)     *)
(* when all of them are there; a worker sends a request, waits for the     *)
(* echo, and repeats; main joins the workers and reports.                  *)
(***************************************************************************)
EXTENDS Integers, Sequences, FiniteSets, FiniteSetsExt, SequencesExt

CONSTANTS
    Workers,        \* the worker threads, one for each connection
    Main,           \* the main thread
    Free,           \* the owner of a mutex nobody holds
    Requests,       \* requests_per_connection
    FrameLen,       \* bytes of a request with its length prefix, and of its echo
    Latencies       \* the values latency can take

Threads == Workers \cup {Main}

ASSUME BenchmarkAssumption ==
    /\ IsFiniteSet(Workers) /\ Workers # {}
    /\ Main \notin Workers
    /\ Free \notin Threads
    /\ Requests \in Nat \ {0}
    /\ FrameLen \in Nat \ {0}
    /\ Latencies \subseteq Nat

VARIABLES
    pc,                     \* where each thread is
    mutex, ready, start,    \* StartGate
    fds,                    \* connections that are open on this side
    left,                   \* bytes of a worker's current request not sent yet
    owed,                   \* bytes the server has still to echo to a worker
    socket,                 \* bytes that wait in a worker's socket
    input,                  \* bytes in its input_buffer
    wrong,                  \* the current echo differs from the message
    hungUp,                 \* connections the server has closed
    result,                 \* WorkerResult of each worker
    report                  \* what main prints and returns

gate == << mutex, ready, start >>
wire == << left, owed, socket, input, wrong, hungUp >>
vars == << pc, gate, fds, wire, result, report >>

NoReport == [code |-> 0, completed |-> 0, errors |-> 0, p50 |-> 0]

Init ==
    /\ pc = [t \in Threads |-> IF t = Main THEN "connect" ELSE "none"]
    /\ mutex = Free /\ ready = 0 /\ start = FALSE
    /\ fds = {}
    /\ left = [w \in Workers |-> FrameLen]
    /\ owed = [w \in Workers |-> 0]
    /\ socket = [w \in Workers |-> 0]
    /\ input = [w \in Workers |-> 0]
    /\ wrong = [w \in Workers |-> FALSE]
    /\ hungUp = {}
    /\ result = [w \in Workers |-> [completed |-> 0, errors |-> 0, latency_us |-> << >>]]
    /\ report = NoReport

Goto(t, there) == pc' = [pc EXCEPT ![t] = there]

Step(t, here, there) == pc[t] = here /\ Goto(t, there)

-----------------------------------------------------------------------------
(* Start-up of main. *)

Connect(w) ==
    /\ w \notin fds
    /\ Step(Main, "connect", IF fds \cup {w} = Workers THEN "spawn" ELSE "connect")
    /\ fds' = fds \cup {w}
    /\ UNCHANGED << gate, wire, result, report >>

(* A connection that cannot be made ends the program with code 1. *)
ConnectFails ==
    /\ Step(Main, "connect", "exit")
    /\ fds' = {}
    /\ report' = [report EXCEPT !.code = 1]
    /\ UNCHANGED << gate, wire, result >>

Spawn(w) ==
    /\ pc[Main] = "spawn" /\ pc[w] = "none"
    /\ pc' = [pc EXCEPT ![w] = "lock",
                        ![Main] = IF \A v \in Workers \ {w} : pc[v] # "none"
                                  THEN "lock" ELSE "spawn"]
    /\ UNCHANGED << gate, fds, wire, result, report >>

-----------------------------------------------------------------------------
(* The gate. *)

(* A thread takes the mutex, the first time or when wait() wakes up. *)
LockGate(t) ==
    /\ pc[t] \in {"lock", "woken"}
    /\ mutex = Free
    /\ mutex' = t
    /\ Goto(t, IF pc[t] = "lock" /\ t # Main THEN "arrive" ELSE "check")
    /\ UNCHANGED << ready, start, fds, wire, result, report >>

(* notify_all: every thread inside wait() is to try again. *)
Notified(at) == [t \in Threads |-> IF at[t] = "parked" THEN "woken" ELSE at[t]]

(* Mutant: main is not told. *)
Arrive_NoNotify(w) ==
    /\ Step(w, "arrive", "check")
    /\ ready' = ready + 1
    /\ UNCHANGED << mutex, start, fds, wire, result, report >>

Arrive(w) ==
    /\ pc[w] = "arrive"
    /\ ready' = ready + 1
    /\ pc' = [Notified(pc) EXCEPT ![w] = "check"]
    /\ UNCHANGED << mutex, start, fds, wire, result, report >>

(* Mutant: main is content with one worker. *)
MayPass_Any(t) == IF t = Main THEN ready > 0 ELSE start

(* The predicates of the two waits. *)
MayPass(t) == IF t = Main THEN ready = Cardinality(Workers) ELSE start

(* wait() holds the mutex while it evaluates the predicate. *)
Check(t) ==
    /\ Step(t, "check", IF ~ MayPass(t) THEN "park" ELSE IF t = Main THEN "open" ELSE "send")
    /\ mutex' = IF MayPass(t) THEN Free ELSE mutex
    /\ UNCHANGED << ready, start, fds, wire, result, report >>

(* wait() releases the mutex and blocks. *)
Park(t) ==
    /\ Step(t, "park", "parked")
    /\ mutex' = Free
    /\ UNCHANGED << ready, start, fds, wire, result, report >>

WakeSpuriously(t) ==
    /\ Step(t, "parked", "woken")
    /\ UNCHANGED << gate, fds, wire, result, report >>

(* Mutant: start is set without the mutex. *)
OpenGate_NoLock ==
    /\ Step(Main, "open", "notify")
    /\ start' = TRUE
    /\ UNCHANGED << mutex, ready, fds, wire, result, report >>

OpenGate ==
    /\ mutex = Free
    /\ Step(Main, "open", "notify")
    /\ start' = TRUE
    /\ UNCHANGED << mutex, ready, fds, wire, result, report >>

NotifyWorkers ==
    /\ pc[Main] = "notify"
    /\ pc' = [Notified(pc) EXCEPT ![Main] = "join"]
    /\ UNCHANGED << gate, fds, wire, result, report >>

-----------------------------------------------------------------------------
(* The request loop of a worker. *)

(* The worker leaves its loop and closes the descriptor. *)
Finish(w, outcome) ==
    /\ Goto(w, "done")
    /\ fds' = fds \ {w}
    /\ result' = [result EXCEPT ![w] = outcome]

Fail(w) == Finish(w, [result[w] EXCEPT !.errors = @ + 1])

(* Mutant: send_all does not count down what is left. *)
Send_NoCount(w, n) ==
    /\ Step(w, "send", IF n = left[w] THEN "receive" ELSE "send")
    /\ n \in 1 .. FrameLen
    /\ left' = [left EXCEPT ![w] = @ - n]
    /\ UNCHANGED << gate, fds, owed, socket, input, wrong, hungUp, result, report >>

(* One send of send_all takes n bytes; the last one makes the server owe an
   echo, if it still listens. *)
Send(w, n) ==
    /\ Step(w, "send", IF n = left[w] THEN "receive" ELSE "send")
    /\ n \in 1 .. left[w]
    /\ left' = [left EXCEPT ![w] = @ - n]
    /\ owed' = IF n = left[w] /\ w \notin hungUp THEN [owed EXCEPT ![w] = FrameLen] ELSE owed
    /\ UNCHANGED << gate, fds, socket, input, wrong, hungUp, result, report >>

SendFails(w) ==
    /\ pc[w] = "send" /\ w \in hungUp
    /\ Fail(w)
    /\ UNCHANGED << gate, wire, report >>

(* One recv of receive_message returns n bytes. *)
Receive(w, n) ==
    /\ pc[w] = "receive" /\ input[w] < FrameLen
    /\ n \in 1 .. socket[w]
    /\ socket' = [socket EXCEPT ![w] = @ - n]
    /\ input' = [input EXCEPT ![w] = @ + n]
    /\ UNCHANGED << pc, gate, fds, left, owed, wrong, hungUp, result, report >>

(* Mutant: an end of the stream is taken for an interrupted call. *)
ReceiveFails_Retry(w) ==
    /\ pc[w] = "receive" /\ input[w] < FrameLen /\ socket[w] = 0 /\ w \in hungUp
    /\ UNCHANGED vars

(* recv returns 0 or an error before the message is complete. *)
ReceiveFails(w) ==
    /\ pc[w] = "receive" /\ input[w] < FrameLen /\ socket[w] = 0 /\ w \in hungUp
    /\ Fail(w)
    /\ UNCHANGED << gate, wire, report >>

(* Mutant: the request is not counted. *)
Echoed_NotCounted(w, latency) ==
    [completed |-> result[w].completed,
     errors |-> result[w].errors,
     latency_us |-> Append(result[w].latency_us, latency)]

(* The result with one more request that was answered. *)
Echoed(w, latency) ==
    [completed |-> result[w].completed + 1,
     errors |-> result[w].errors,
     latency_us |-> Append(result[w].latency_us, latency)]

(* The decoder finds the echo complete: it is compared and counted, and the
   next round begins or the loop ends. *)
Complete(w) ==
    /\ pc[w] = "receive" /\ input[w] >= FrameLen
    /\ input' = [input EXCEPT ![w] = @ - FrameLen]
    /\ UNCHANGED << gate, owed, socket, wrong, hungUp, report >>
    /\ \/ /\ wrong[w]
          /\ Fail(w)
          /\ UNCHANGED left
       \/ /\ ~ wrong[w]
          /\ \E latency \in Latencies :
               IF result[w].completed + 1 < Requests
               THEN /\ Goto(w, "send")
                    /\ left' = [left EXCEPT ![w] = FrameLen]
                    /\ result' = [result EXCEPT ![w] = Echoed(w, latency)]
                    /\ UNCHANGED fds
               ELSE /\ Finish(w, Echoed(w, latency))
                    /\ UNCHANGED left

-----------------------------------------------------------------------------
(* The server on port 8080: it answers a complete request once, in pieces, or
   hangs up; Reactor's OutputMatchesInput and ClosedForCause promise no more. *)

Answer(w, n) ==
    /\ w \notin hungUp
    /\ n \in 1 .. owed[w]
    /\ owed' = [owed EXCEPT ![w] = @ - n]
    /\ socket' = [socket EXCEPT ![w] = @ + n]
    /\ wrong' \in {wrong, [wrong EXCEPT ![w] = TRUE]}
    /\ UNCHANGED << pc, gate, fds, left, input, hungUp, result, report >>

HangUp(w) ==
    /\ w \in fds \ hungUp
    /\ hungUp' = hungUp \cup {w}
    /\ owed' = [owed EXCEPT ![w] = 0]
    /\ UNCHANGED << pc, gate, fds, left, socket, input, wrong, result, report >>

-----------------------------------------------------------------------------
Total(field) == MapThenSumSet(LAMBDA w : result[w][field], Workers)

AllLatencies == FoldSet(LAMBDA w, all : all \o result[w].latency_us, << >>, Workers)

(* p puts the values in ascending order. *)
Sorts(p, values) ==
    /\ IsInjective(p)
    /\ \A i, j \in DOMAIN values : i < j => values[p[i]] <= values[p[j]]

(* std::sort. *)
Sorted(values) ==
    LET p == CHOOSE p \in [DOMAIN values -> DOMAIN values] : Sorts(p, values)
    IN  [i \in DOMAIN values |-> values[p[i]]]

(* Mutant: the index that counts from 1 is used from 0. *)
Percentile_NoDecrement(values, percent) ==
    LET index == (percent * Len(values)) \div 100 IN
    IF values = << >> THEN 0
    ELSE Sorted(values)[IF index < Len(values) THEN index + 1 ELSE Len(values)]

(* percentile: the element at position percent * size, rounded down, of the
   sorted values; the first one for a position of 0. *)
Percentile(values, percent) ==
    LET index == (percent * Len(values)) \div 100 IN
    IF values = << >> THEN 0
    ELSE Sorted(values)[IF index = 0 THEN 1 ELSE index]

(* join, and the summary. *)
Report ==
    /\ \A w \in Workers : pc[w] = "done"
    /\ Step(Main, "join", "exit")
    /\ report' = [code |-> IF Total("errors") = 0 THEN 0 ELSE 2,
                  completed |-> Total("completed"),
                  errors |-> Total("errors"),
                  p50 |-> Percentile(AllLatencies, 50)]
    /\ UNCHANGED << gate, fds, wire, result >>

-----------------------------------------------------------------------------
GateStep(t) == LockGate(t) \/ Check(t) \/ Park(t)

WorkerStep(w) ==
    \/ GateStep(w)
    \/ Arrive(w)
    \/ \E n \in 1 .. FrameLen : Send(w, n) \/ Receive(w, n)
    \/ SendFails(w)
    \/ ReceiveFails(w)
    \/ Complete(w)

MainStep ==
    \/ \E w \in Workers : Connect(w) \/ Spawn(w)
    \/ ConnectFails
    \/ GateStep(Main)
    \/ OpenGate
    \/ NotifyWorkers
    \/ Report

ServerStep(w) == HangUp(w) \/ \E n \in 1 .. FrameLen : Answer(w, n)

Next ==
    \/ \E w \in Workers : WorkerStep(w)
    \/ MainStep
    \/ \E t \in Threads : WakeSpuriously(t)
    \/ \E w \in Workers : ServerStep(w)

Spec == Init /\ [][Next]_vars

(* Threads are scheduled, and a mutex that becomes free again and again is
   given to each thread that waits for it; nobody wakes without a cause.  The
   server answers or hangs up, if only for idleness. *)
FairSpec ==
    /\ Spec
    /\ WF_vars(MainStep) /\ SF_vars(LockGate(Main)) /\ SF_vars(OpenGate)
    /\ \A w \in Workers :
         WF_vars(WorkerStep(w)) /\ SF_vars(LockGate(w)) /\ WF_vars(ServerStep(w))

-----------------------------------------------------------------------------
TypeOK ==
    /\ pc \in [Threads -> {"none", "connect", "spawn", "lock", "arrive", "check", "park",
                           "parked", "woken", "open", "notify", "send", "receive", "join",
                           "done", "exit"}]
    /\ mutex \in Threads \cup {Free}
    /\ ready \in 0 .. Cardinality(Workers)
    /\ start \in BOOLEAN
    /\ fds \subseteq Workers
    /\ \A f \in {left, owed, socket, input} : f \in [Workers -> 0 .. FrameLen]
    /\ wrong \in [Workers -> BOOLEAN]
    /\ hungUp \subseteq Workers
    /\ \A w \in Workers : result[w].completed \in 0 .. Requests

Past(t) == pc[t] \notin {"none", "connect", "spawn", "lock", "arrive", "check", "park",
                         "parked", "woken"}

(* No worker is through the gate before all of them have reached it, however
   threads start late or wake up for no reason: connections that are still
   being set up do not disturb the measurement (StartGate,
   tcp_benchmark.cpp:167-177 and 351-375). *)
GateHolds == \A w \in Workers : Past(w) => ready = Cardinality(Workers) /\ Past(Main)

(* No notification falls into the gap between a predicate that was false and the
   wait: a thread that waits or is about to has to, unless it is a worker that main
   is just about to wake (tcp_benchmark.cpp:173-177 and 361-375). *)
NoMissedNotify ==
    \A t \in Threads : pc[t] \in {"park", "parked"} /\ MayPass(t) =>
        t # Main /\ pc[t] = "parked" /\ pc[Main] = "notify"

(* The program ends, whatever the server answers and whenever it hangs up: the
   gate leaves nobody waiting, and join waits for workers that block in recv
   without a timeout. *)
BenchmarkEnds == <>(pc[Main] = "exit")

(* A worker's counts say what happened on its connection: each completed
   request has a latency, all are completed unless there is an error, and
   main's total and exit code 0 mean that every request was echoed. *)
ResultsAddUp ==
    /\ \A w \in Workers :
         /\ Len(result[w].latency_us) = result[w].completed
         /\ pc[w] = "done" =>
              result[w].errors = IF result[w].completed < Requests THEN 1 ELSE 0
    /\ pc[Main] = "exit" /\ report.code = 0 =>
         report.completed = Requests * Cardinality(Workers)

(* The P50 of the report is a latency that was measured, at least half of
   them rounded down are no greater and fewer than half are smaller. *)
MedianReported ==
    pc[Main] = "exit" /\ report.completed > 0 =>
        LET rank(p(_)) == Cardinality({i \in DOMAIN AllLatencies : p(AllLatencies[i])})
            atMost == rank(LAMBDA x : x <= report.p50)
            below == rank(LAMBDA x : x < report.p50)
        IN  /\ report.p50 \in ToSet(AllLatencies)
            /\ atMost >= report.completed \div 2
            /\ 2 * below < report.completed
=============================================================================
