-------------------------- MODULE TimerQueueProofs --------------------------
(***************************************************************************)
(* For any delays, intervals and timers, as long as an int can number      *)
(* every timer that was added (fewer than 2^32): a cancelled timer never   *)
(* fires, a one-shot timer fires once and none fires early.  Where delays  *)
(* lie in the future and callbacks take no time, the timerfd also covers   *)
(* every waiting timer whenever the loop can block.                        *)
(***************************************************************************)
EXTENDS TimerQueue, TLAPS

(* Sequence numbers are handed out once: no two timers share one, and the
   timer whose callback runs is not in the heap. *)
SeqInv ==
    /\ seq_counter_ > 0
    /\ \A t \in heap_ : t.seq \in 1 .. seq_counter_ - 1
    /\ \A t, u \in heap_ : t.seq = u.seq => t = u
    /\ pc = "callback" => /\ running.seq \in 1 .. seq_counter_ - 1
                          /\ \A t \in heap_ : t.seq # running.seq

(* A revoked timer that may come up again is still marked as cancelled: a
   mark goes away only together with the timer it is for. *)
RevokedInv ==
    /\ \A t \in heap_ : t.seq \in revoked => t.seq \in cancelled_timers_
    /\ pc = "callback" /\ running.interval > 0 /\ running.seq \in revoked
         => running.seq \in cancelled_timers_

(* What waits in the heap with interval 0 has not fired. *)
OneShotInv == \A t \in heap_ : t.interval = 0 => t.seq \notin fired

TimerQueueInv ==
    /\ TypeOK
    /\ now <= 0
    /\ SeqInv
    /\ RevokedInv
    /\ OneShotInv

-----------------------------------------------------------------------------
(* The passing of time changes the deadline of a timer and nothing else. *)
LEMMA LaterTimer ==
    ASSUME NEW t \in Timer
    PROVE  /\ Later(t) \in Timer
           /\ Later(t).seq = t.seq
           /\ Later(t).interval = t.interval
           /\ Later(t).when >= t.when - 1
BY TimerQueueAssumption DEF Later, Timer

(* A repeating timer that goes back keeps its number and interval. *)
LEMMA RescheduledTimer ==
    ASSUME NEW t \in Timer
    PROVE  LET u == [t EXCEPT !.when = @ + t.interval]
           IN  u \in Timer /\ u.seq = t.seq /\ u.interval = t.interval
BY DEF Timer

(* Before the counter outgrows an int, the copy of addTimer is the counter. *)
LEMMA SeqFits ==
    ASSUME seq_counter_ \in Nat, seq_counter_ <= MaxTimers
    PROVE  NextSeq = seq_counter_
BY TimerQueueAssumption DEF NextSeq

(* addTimer makes a timer. *)
LEMMA NewTimer ==
    ASSUME NEW s \in Nat, NEW delay \in Delays, NEW interval \in Intervals
    PROVE  LET u == [seq |-> s, when |-> delay, interval |-> interval]
           IN  u \in Timer /\ u.seq = s /\ u.when = delay /\ u.interval = interval
BY TimerQueueAssumption DEF Timer

(* The invariant holds with the idle check as the only timer. *)
LEMMA TimerQueueInit == Init => TimerQueueInv
<1> SUFFICES ASSUME Init PROVE TimerQueueInv
  OBVIOUS
<1>1. [seq |-> IdleCheck, when |-> IdlePeriod, interval |-> IdlePeriod] \in Timer
  BY TimerQueueAssumption DEF Timer, IdleCheck
<1>2. TypeOK
  <2>1. heap_ \subseteq Timer
    BY <1>1 DEF Init
  <2>2. armed \in Nat /\ seq_counter_ \in Nat /\ now \in Int
    BY TimerQueueAssumption DEF Init, IdleCheck
  <2>3. /\ cancelled_timers_ = {} /\ revoked = {} /\ fired = {}
        /\ pc = "elsewhere" /\ running = NoTimer
    BY DEF Init
  <2>4. expired \in BOOLEAN
    BY DEF Init
  <2> QED BY <2>1, <2>2, <2>3, <2>4 DEF TypeOK
<1> QED
  BY <1>1, <1>2, TimerQueueAssumption
     DEF Init, TimerQueueInv, SeqInv, RevokedInv, OneShotInv, IdleCheck

(* One step for each action of Next. *)
LEMMA TimerQueueNext == TimerQueueInv /\ [Next]_vars => TimerQueueInv'
<1> SUFFICES ASSUME TimerQueueInv, [Next]_vars PROVE TimerQueueInv'
  OBVIOUS
<1>0. TypeOK /\ now <= 0 /\ SeqInv /\ RevokedInv /\ OneShotInv
  BY DEF TimerQueueInv
<1>1. ASSUME NEW delay \in Delays, NEW interval \in Intervals, AddTimer(delay, interval)
      PROVE  TimerQueueInv'
  <2> DEFINE new == [seq |-> NextSeq, when |-> delay, interval |-> interval]
  <2>0. NextSeq = seq_counter_ /\ seq_counter_ \in Nat
    BY <1>0, <1>1, SeqFits DEF AddTimer, TypeOK
  <2>1. new \in Timer /\ new.seq = seq_counter_ /\ new.interval = interval
    BY <2>0, NewTimer
  <2>2. heap_' = heap_ \cup {new}
    BY <1>1 DEF AddTimer
  <2> HIDE DEF new
  <2>3. armed' \in Nat /\ expired' \in BOOLEAN
    <3>1. CASE ResetTimerfd(delay)
      <4>1. armed' \in Nat
        BY <3>1, TimerQueueAssumption DEF ResetTimerfd
      <4> QED BY <3>1, <4>1 DEF ResetTimerfd
    <3>2. CASE UNCHANGED << armed, expired >>
      BY <1>0, <3>2 DEF TypeOK
    <3> QED BY <1>1, <3>1, <3>2 DEF AddTimer
  <2>4. TypeOK'
    BY <1>0, <1>1, <2>1, <2>2, <2>3 DEF AddTimer, TypeOK
  <2>5. SeqInv'
    BY <1>0, <1>1, <2>1, <2>2 DEF AddTimer, TypeOK, SeqInv
  <2>6. seq_counter_ \notin revoked /\ seq_counter_ \notin fired
    BY <1>0 DEF TypeOK
  <2>7. RevokedInv' /\ OneShotInv'
    BY <1>0, <1>1, <2>1, <2>2, <2>6 DEF AddTimer, RevokedInv, OneShotInv
  <2> QED BY <1>0, <1>1, <2>4, <2>5, <2>7 DEF AddTimer, TimerQueueInv
<1>2. ASSUME NEW seq \in IdleCheck + 1 .. seq_counter_ - 1, Cancel(seq)
      PROVE  TimerQueueInv'
  <2>1. seq \in 1 .. seq_counter_ - 1
    BY <1>0 DEF IdleCheck, TypeOK
  <2>2. TypeOK'
    BY <1>0, <1>2, <2>1 DEF Cancel, TypeOK
  <2> QED BY <1>0, <1>2, <2>2 DEF Cancel, TimerQueueInv, SeqInv, RevokedInv, OneShotInv
<1>3. CASE ReportTimer
  BY <1>0, <1>3 DEF ReportTimer, TimerQueueInv, TypeOK, SeqInv, RevokedInv, OneShotInv
<1>4. CASE ReadTimerfd
  <2>1. now' = 0 /\ pc = "reported" /\ pc' = "firing" /\ expired' \in BOOLEAN
    BY <1>4 DEF ReadTimerfd
  <2>2. UNCHANGED << heap_, cancelled_timers_, seq_counter_, armed, running, revoked, fired >>
    BY <1>4 DEF ReadTimerfd
  <2>3. TypeOK'
    BY <1>0, <2>1, <2>2 DEF TypeOK
  <2> QED BY <1>0, <2>1, <2>2, <2>3 DEF TimerQueueInv, SeqInv, RevokedInv, OneShotInv
<1>5. CASE ReadFails
  BY <1>0, <1>5 DEF ReadFails, TimerQueueInv, TypeOK, SeqInv, RevokedInv, OneShotInv
<1>6. ASSUME NEW t \in heap_, SkipCancelled(t) PROVE TimerQueueInv'
  <2>1. \A u \in heap_' : u \in heap_ /\ u.seq # t.seq
    BY <1>0, <1>6 DEF SkipCancelled, SeqInv
  <2>2. pc = "firing" /\ pc' = "firing"
    BY <1>6 DEF SkipCancelled, Due
  <2>3. TypeOK'
    BY <1>0, <1>6 DEF SkipCancelled, TypeOK
  <2>4. SeqInv' /\ OneShotInv'
    BY <1>0, <1>6, <2>1, <2>2 DEF SkipCancelled, SeqInv, OneShotInv
  <2>5. RevokedInv'
    BY <1>0, <1>6, <2>1, <2>2 DEF SkipCancelled, RevokedInv
  <2> QED BY <1>0, <1>6, <2>3, <2>4, <2>5 DEF SkipCancelled, TimerQueueInv
<1>7. ASSUME NEW t \in heap_, RunCallback(t) PROVE TimerQueueInv'
  <2>1. \A u \in heap_' : u \in heap_ /\ u.seq # t.seq
    BY <1>0, <1>7 DEF RunCallback, SeqInv
  <2>2. t \in Timer /\ t # NoTimer /\ t.seq \in 1 .. seq_counter_ - 1
    BY <1>0, NoTimerAssumption DEF TypeOK, SeqInv
  <2>3. TypeOK'
    BY <1>0, <1>7, <2>2 DEF RunCallback, TypeOK
  <2>4. SeqInv'
    BY <1>0, <1>7, <2>1, <2>2 DEF RunCallback, SeqInv
  <2>5. RevokedInv' /\ OneShotInv'
    BY <1>0, <1>7, <2>1 DEF RunCallback, RevokedInv, OneShotInv
  <2> QED BY <1>0, <1>7, <2>3, <2>4, <2>5 DEF RunCallback, TimerQueueInv
<1>8. CASE ReturnCallback
  <2> DEFINE again == [running EXCEPT !.when = @ + running.interval]
  <2>1. running \in Timer
    BY <1>0, <1>8 DEF ReturnCallback, TypeOK
  <2>2. again \in Timer /\ again.seq = running.seq /\ again.interval = running.interval
    BY <2>1, RescheduledTimer
  <2>3. heap_' = IF running.interval > 0 THEN heap_ \cup {again} ELSE heap_
    BY <1>8 DEF ReturnCallback
  <2> HIDE DEF again
  <2>4. TypeOK'
    BY <1>0, <1>8, <2>2, <2>3 DEF ReturnCallback, TypeOK
  <2>5. SeqInv'
    BY <1>0, <1>8, <2>2, <2>3 DEF ReturnCallback, SeqInv
  <2>6. RevokedInv' /\ OneShotInv'
    BY <1>0, <1>8, <2>2, <2>3 DEF ReturnCallback, RevokedInv, OneShotInv
  <2> QED BY <1>0, <1>8, <2>4, <2>5, <2>6 DEF ReturnCallback, TimerQueueInv
<1>9. CASE EndHandleRead
  <2>1. armed' \in Nat /\ expired' \in BOOLEAN
    <3>1. ASSUME NEW t \in Tops, ResetTimerfd(t.when)
          PROVE  armed' \in Nat /\ expired' \in BOOLEAN
      <4>1. t.when \in Int
        BY <1>0 DEF Tops, TypeOK, Timer
      <4>2. armed' \in Nat
        BY <3>1, <4>1 DEF ResetTimerfd
      <4> QED BY <3>1, <4>2 DEF ResetTimerfd
    <3>2. CASE UNCHANGED << armed, expired >>
      BY <1>0, <3>2 DEF TypeOK
    <3> QED BY <1>9, <3>1, <3>2 DEF EndHandleRead
  <2>2. TypeOK'
    BY <1>0, <1>9, <2>1 DEF EndHandleRead, TypeOK
  <2> QED BY <1>0, <1>9, <2>2 DEF EndHandleRead, TimerQueueInv, SeqInv, RevokedInv, OneShotInv
<1>10. CASE Tick
  <2>1. heap_ \subseteq Timer
    BY <1>0 DEF TypeOK
  <2>2. \A u \in heap_' : \E t \in heap_ :
            u = Later(t) /\ u \in Timer /\ u.seq = t.seq /\ u.interval = t.interval
    BY <1>10, <2>1, LaterTimer DEF Tick
  <2>3. pc' = pc /\ pc = "callback" =>
            /\ running \in Timer /\ running' \in Timer
            /\ running'.seq = running.seq /\ running'.interval = running.interval
    BY <1>0, <1>10, LaterTimer DEF Tick, TypeOK
  <2>4. pc # "callback" => running' = running
    BY <1>10 DEF Tick
  <2>5. pc' = pc /\ seq_counter_' = seq_counter_ /\ cancelled_timers_' = cancelled_timers_
        /\ revoked' = revoked /\ fired' = fired
    BY <1>10 DEF Tick
  <2>6. TypeOK'
    <3>1. armed' \in Nat /\ expired' \in BOOLEAN /\ now' \in Int
      BY <1>0, <1>10 DEF Tick, TypeOK
    <3>2. running' \in Timer \cup {NoTimer} /\ (pc = "callback" <=> running' # NoTimer)
      BY <1>0, <2>3, <2>4, <2>5, NoTimerAssumption DEF TypeOK
    <3> QED BY <1>0, <2>2, <2>5, <3>1, <3>2 DEF TypeOK
  <2>7. SeqInv'
    <3>1. \A u, v \in heap_' : u.seq = v.seq => u = v
      BY <1>0, <2>2 DEF SeqInv
    <3> QED BY <1>0, <2>2, <2>3, <2>5, <3>1 DEF SeqInv
  <2>8. RevokedInv' /\ OneShotInv'
    BY <1>0, <2>2, <2>3, <2>5 DEF RevokedInv, OneShotInv
  <2>9. now' <= 0
    BY <1>0, <1>10 DEF Tick, TypeOK
  <2> QED BY <2>6, <2>7, <2>8, <2>9 DEF TimerQueueInv
<1>11. CASE UNCHANGED vars
  BY <1>0, <1>11 DEF vars, TimerQueueInv, TypeOK, SeqInv, RevokedInv, OneShotInv
<1> QED
  BY <1>1, <1>2, <1>3, <1>4, <1>5, <1>6, <1>7, <1>8, <1>9, <1>10, <1>11
     DEF Next, LoopStep

-----------------------------------------------------------------------------
(* The invariant holds in every behaviour. *)
LEMMA TimerQueueInvariant == Spec => []TimerQueueInv
<1> QED BY TimerQueueInit, TimerQueueNext, PTL DEF Spec

(* The variables keep their types, for every set of delays and intervals. *)
THEOREM TimerQueueTypeOK == Spec => []TypeOK
<1>1. TimerQueueInv => TypeOK
  BY DEF TimerQueueInv
<1> QED BY <1>1, TimerQueueInvariant, PTL

(* Only RunCallback starts a callback. *)
LEMMA StartIsRun ==
    ASSUME TypeOK, [Next]_vars, Starts
    PROVE  \E t \in heap_ : RunCallback(t)
BY DEF Next, LoopStep, vars, Starts, TypeOK, AddTimer, Cancel, ReportTimer, ReadTimerfd,
       ReadFails, SkipCancelled, ReturnCallback, EndHandleRead, Tick

(* A callback that starts belongs to a timer cancel was never called for:
   the mark cancel sets outlives every other event until the timer comes up. *)
THEOREM TimerQueueCancelled == Spec => CancelledNeverFires
<1>1. TimerQueueInv /\ [Next]_vars => [Starts => running'.seq \notin revoked]_vars
  <2> SUFFICES ASSUME TimerQueueInv, [Next]_vars, Starts PROVE running'.seq \notin revoked
    OBVIOUS
  <2>1. PICK t \in heap_ : RunCallback(t)
    BY StartIsRun DEF TimerQueueInv
  <2> QED BY <2>1 DEF RunCallback, TimerQueueInv, RevokedInv
<1> QED BY <1>1, TimerQueueInvariant, PTL DEF Spec, CancelledNeverFires

(* No callback starts before its deadline, and that of a one-shot timer
   starts once, whatever the callbacks before it added or cancelled. *)
THEOREM TimerQueueOnTime == Spec => FiresOnceAndOnTime
<1>1. TimerQueueInv /\ [Next]_vars
        => [Starts => /\ running'.when <= 0
                      /\ running'.interval = 0 => running'.seq \notin fired]_vars
  <2> SUFFICES ASSUME TimerQueueInv, [Next]_vars, Starts
               PROVE  /\ running'.when <= 0
                      /\ running'.interval = 0 => running'.seq \notin fired
    OBVIOUS
  <2>1. PICK t \in heap_ : RunCallback(t)
    BY StartIsRun DEF TimerQueueInv
  <2>2. running' = t /\ t.when <= now /\ now <= 0 /\ now \in Int /\ t.when \in Int
    BY <2>1 DEF RunCallback, Due, TimerQueueInv, TypeOK, Timer
  <2> QED BY <2>1, <2>2 DEF TimerQueueInv, OneShotInv
<1> QED BY <1>1, TimerQueueInvariant, PTL DEF Spec, FiresOnceAndOnTime

-----------------------------------------------------------------------------
(* Deadlines are added in the future, and callbacks take no time. *)
Punctual == SlowCallbacks = FALSE /\ \A delay \in Delays : delay > 0

CoverInv == TimerQueueInv /\ now = 0 /\ TimerfdCoversHeap

(* Every step keeps the waiting timers covered by the timerfd. *)
LEMMA CoverNext == Punctual /\ CoverInv /\ [Next]_vars => CoverInv'
<1> SUFFICES ASSUME Punctual, CoverInv, [Next]_vars PROVE CoverInv'
  OBVIOUS
<1>0. TimerQueueInv' /\ TypeOK /\ now = 0 /\ TimerfdCoversHeap /\ heap_ \subseteq Timer
      /\ armed \in Nat /\ expired \in BOOLEAN
  BY TimerQueueNext DEF CoverInv, TimerQueueInv, TypeOK
<1> SUFFICES now' = 0 /\ TimerfdCoversHeap'
  BY <1>0 DEF CoverInv
<1>1. ASSUME NEW delay \in Delays, NEW interval \in Intervals, AddTimer(delay, interval)
      PROVE  now' = 0 /\ TimerfdCoversHeap'
  <2> DEFINE new == [seq |-> NextSeq, when |-> delay, interval |-> interval]
  <2>1. new.when = delay /\ delay \in Int /\ delay > 0
    BY TimerQueueAssumption DEF Punctual
  <2>2. heap_' = heap_ \cup {new} /\ now' = now /\ pc' = pc
    BY <1>1 DEF AddTimer
  <2> HIDE DEF new
  <2>3. CASE \A t \in heap_ : delay < t.when
    <3>1. ResetTimerfd(delay)
      BY <1>1, <2>3 DEF AddTimer
    <3>2. armed' = delay
      BY <2>1, <3>1 DEF ResetTimerfd
    <3>3. \A t \in heap_' : armed' > 0 /\ armed' <= t.when
      BY <1>0, <2>1, <2>2, <2>3, <3>2 DEF Timer
    <3> QED BY <1>0, <2>2, <3>3 DEF TimerfdCoversHeap
  <2>4. CASE ~ \A t \in heap_ : delay < t.when
    <3>1. PICK t \in heap_ : t.when <= delay /\ t.when \in Int
      BY <1>0, <2>1, <2>4 DEF Timer
    <3>2. armed' = armed /\ expired' = expired
      BY <1>1, <2>4 DEF AddTimer
    <3> QED BY <1>0, <2>1, <2>2, <3>1, <3>2 DEF TimerfdCoversHeap
  <2> QED BY <2>3, <2>4
<1>2. ASSUME NEW t \in heap_, SkipCancelled(t) \/ RunCallback(t)
      PROVE  now' = 0 /\ TimerfdCoversHeap'
  BY <1>0, <1>2 DEF SkipCancelled, RunCallback, Due, TimerfdCoversHeap
<1>3. CASE EndHandleRead
  <2>1. \A t \in heap_ : t.when > 0
    BY <1>0, <1>3 DEF EndHandleRead
  <2>2. heap_' = heap_ /\ now' = 0
    BY <1>3 DEF EndHandleRead
  <2>3. ASSUME NEW t \in Tops, ResetTimerfd(t.when)
        PROVE  \A u \in heap_ : armed' > 0 /\ armed' <= u.when
    <3>1. t.when \in Int /\ t.when > 0 /\ \A u \in heap_ : t.when <= u.when
      BY <1>0, <2>1 DEF Tops, Timer
    <3>2. armed' = t.when
      BY <2>3, <3>1 DEF ResetTimerfd
    <3> QED BY <3>1, <3>2
  <2>4. \A u \in heap_ : armed' > 0 /\ armed' <= u.when
    BY <1>3, <2>3 DEF EndHandleRead
  <2> QED BY <2>2, <2>4 DEF TimerfdCoversHeap
<1>4. CASE Tick
  <2>1. pc \notin {"firing", "callback"} /\ now' = 0
    BY <1>0, <1>4 DEF Tick, Punctual
  <2>2. ASSUME NEW u \in heap_' PROVE expired' \/ (armed' > 0 /\ armed' <= u.when)
    <3>1. PICK t \in heap_ : u = Later(t)
      BY <1>4 DEF Tick
    <3>2. u.when \in Int /\ t.when \in Int /\ u.when >= t.when - 1
      BY <1>0, <3>1, LaterTimer DEF Timer
    <3>3. expired \/ (armed > 0 /\ armed <= t.when)
      BY <1>0, <2>1 DEF TimerfdCoversHeap, TypeOK
    <3>4. expired' <=> expired \/ armed = 1
      BY <1>4 DEF Tick
    <3>5. armed > 1 => armed' = armed - 1 /\ armed' > 0
      BY <1>0, <1>4 DEF Tick
    <3> QED BY <1>0, <3>2, <3>3, <3>4, <3>5
  <2> QED BY <2>1, <2>2 DEF TimerfdCoversHeap
<1>5. CASE \/ \E seq \in IdleCheck + 1 .. seq_counter_ - 1 : Cancel(seq)
           \/ ReportTimer \/ ReadTimerfd \/ ReadFails \/ ReturnCallback
           \/ UNCHANGED vars
  BY <1>0, <1>5 DEF Cancel, ReportTimer, ReadTimerfd, ReadFails, ReturnCallback, vars,
                    TimerfdCoversHeap
<1> QED BY <1>1, <1>2, <1>3, <1>4, <1>5 DEF Next, LoopStep

(* With deadlines in the future and callbacks that take no time the timerfd
   never goes off too late for a waiting timer, and is never left disarmed
   while one waits. *)
THEOREM TimerQueueCovered == Punctual => (Spec => []TimerfdCoversHeap)
<1>1. Init => CoverInv
  <2> SUFFICES ASSUME Init PROVE TimerfdCoversHeap /\ now = 0
    BY TimerQueueInit DEF CoverInv
  <2>1. \A t \in heap_ : t.when = IdlePeriod
    BY DEF Init
  <2>2. armed = IdlePeriod /\ IdlePeriod > 0 /\ IdlePeriod <= IdlePeriod /\ now = 0
    BY TimerQueueAssumption DEF Init
  <2> QED BY <2>1, <2>2 DEF TimerfdCoversHeap
<1>2. CoverInv => TimerfdCoversHeap
  BY DEF CoverInv
<1> SUFFICES ASSUME Punctual PROVE Spec => []TimerfdCoversHeap
  OBVIOUS
<1>3. CoverInv /\ [Next]_vars => CoverInv'
  BY CoverNext
<1> QED BY <1>1, <1>2, <1>3, PTL DEF Spec
=============================================================================
