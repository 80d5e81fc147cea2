----------------------------- MODULE TimerQueue -----------------------------
(***************************************************************************)
(* TimerQueue and its timerfd: timers added and cancelled by code on the   *)
(* loop's thread, a timerfd armed for one deadline, and handleRead, which  *)
(* runs the callbacks that are due and arms the timerfd again.             *)
(*                                                                         *)
(* Times are relative to the present: a timer is due when its "when" is 0  *)
(* or less, and the passing of time lowers every one of them.              *)
(***************************************************************************)
EXTENDS Integers

CONSTANTS
    Delays,         \* the delays timers are added with; 0 and less are legal
    Intervals,      \* the intervals: 0 for a one-shot timer
    IdlePeriod,     \* interval of the idle check every loop starts with
    SlowCallbacks,  \* TRUE if time passes while callbacks run
    NoTimer,
    SeqSpan,        \* 2^32, the number of values of an int
    MaxTimers,      \* bound of the model: timers ever added
    MaxLate         \* bound of the model: how late is told apart

ASSUME TimerQueueAssumption ==
    /\ Delays \subseteq Int
    /\ Intervals \subseteq Nat
    /\ IdlePeriod \in Nat \ {0}
    /\ SlowCallbacks \in BOOLEAN
    /\ SeqSpan \in Nat
    /\ MaxTimers \in 0 .. SeqSpan - 1
    /\ MaxLate \in Nat \ {0}

Timer == [seq: Nat, when: Int, interval: Nat]

ASSUME NoTimerAssumption == NoTimer \notin Timer

VARIABLES
    heap_,              \* the timers waiting
    cancelled_timers_,  \* sequence numbers to be skipped when they come up
    seq_counter_,
    armed,              \* it_value of the timerfd: 0 if disarmed
    expired,            \* the timerfd has expired and was not read or set since
    pc,                 \* where the loop's thread is
    now,                \* handleRead's reading of the clock
    running,            \* the timer whose callback runs
    revoked,            \* history: sequence numbers cancel was called with
    fired               \* history: sequence numbers whose callback has run

vars == << heap_, cancelled_timers_, seq_counter_, armed, expired, pc, now, running,
           revoked, fired >>

(* startIdleTimeout, in the constructor of the loop. *)
IdleCheck == 1

Init ==
    /\ heap_ = {[seq |-> IdleCheck, when |-> IdlePeriod, interval |-> IdlePeriod]}
    /\ cancelled_timers_ = {}
    /\ seq_counter_ = IdleCheck + 1
    /\ armed = IdlePeriod
    /\ expired = FALSE
    /\ pc = "elsewhere"
    /\ now = 0
    /\ running = NoTimer
    /\ revoked = {}
    /\ fired = {}

-----------------------------------------------------------------------------
Tops == {t \in heap_ : \A u \in heap_ : t.when <= u.when}

(* Mutant: the duration is not cut off at 0. *)
ResetTimerfd_Negative(when) ==
    /\ armed' = when
    /\ expired' = FALSE

(* resetTimerfd: a deadline that is not in the future becomes a duration of
   0, which timerfd_settime takes as an order to disarm; setting the timerfd
   also discards an expiration that was not read. *)
ResetTimerfd(when) ==
    /\ armed' = IF when > 0 THEN when ELSE 0
    /\ expired' = FALSE

(* User code runs in other handlers and tasks, some of them between the
   report of the timerfd's event and its dispatch, and in timer callbacks. *)
UserCode == pc \in {"elsewhere", "reported", "callback"}

(* addTimer copies the 64 bits of the counter to an int: numbers would come back
   after SeqSpan timers, more than the model adds.  They are compared and never
   ordered, so that the sign of the int does not matter. *)
NextSeq == seq_counter_ % SeqSpan

(* Mutant: the timerfd is set for every new timer, the earliest or not. *)
AddTimer_AlwaysReset(delay, interval) ==
    /\ UserCode
    /\ seq_counter_ <= MaxTimers
    /\ seq_counter_' = seq_counter_ + 1
    /\ heap_' = heap_ \cup {[seq |-> NextSeq, when |-> delay, interval |-> interval]}
    /\ ResetTimerfd(delay)
    /\ UNCHANGED << cancelled_timers_, pc, now, running, revoked, fired >>

AddTimer(delay, interval) ==
    /\ UserCode
    /\ seq_counter_ <= MaxTimers
    /\ seq_counter_' = seq_counter_ + 1
    /\ heap_' = heap_ \cup {[seq |-> NextSeq, when |-> delay, interval |-> interval]}
    /\ IF \A t \in heap_ : delay < t.when
       THEN ResetTimerfd(delay)
       ELSE UNCHANGED << armed, expired >>
    /\ UNCHANGED << cancelled_timers_, pc, now, running, revoked, fired >>

(* cancel accepts any identifier the user was given, also those of timers
   that have fired; nobody holds the idle check's. *)
Cancel(seq) ==
    /\ UserCode
    /\ cancelled_timers_' = cancelled_timers_ \cup {seq}
    /\ revoked' = revoked \cup {seq}
    /\ UNCHANGED << heap_, seq_counter_, armed, expired, pc, now, running, fired >>

-----------------------------------------------------------------------------
(* handleRead. *)

(* epoll_wait returns the timerfd's event. *)
ReportTimer ==
    /\ pc = "elsewhere"
    /\ expired
    /\ pc' = "reported"
    /\ UNCHANGED << heap_, cancelled_timers_, seq_counter_, armed, expired, now, running,
                    revoked, fired >>

ReadTimerfd ==
    /\ pc = "reported"
    /\ expired
    /\ expired' = FALSE
    /\ now' = 0
    /\ pc' = "firing"
    /\ UNCHANGED << heap_, cancelled_timers_, seq_counter_, armed, running, revoked, fired >>

(* An earlier handler of the batch has set the timerfd again: EAGAIN. *)
ReadFails ==
    /\ pc = "reported"
    /\ ~ expired
    /\ pc' = "elsewhere"
    /\ UNCHANGED << heap_, cancelled_timers_, seq_counter_, armed, expired, now, running,
                    revoked, fired >>

Due(t) == pc = "firing" /\ t \in Tops /\ t.when <= now

SkipCancelled(t) ==
    /\ Due(t)
    /\ t.seq \in cancelled_timers_
    /\ heap_' = heap_ \ {t}
    /\ cancelled_timers_' = cancelled_timers_ \ {t.seq}
    /\ UNCHANGED << seq_counter_, armed, expired, pc, now, running, revoked, fired >>

RunCallback(t) ==
    /\ Due(t)
    /\ t.seq \notin cancelled_timers_
    /\ heap_' = heap_ \ {t}
    /\ running' = t
    /\ fired' = fired \cup {t.seq}
    /\ pc' = "callback"
    /\ UNCHANGED << cancelled_timers_, seq_counter_, armed, expired, now, revoked >>

(* Mutants: the cancellation is forgotten with the callback's return; a
   one-shot timer goes back too. *)
ReturnCallback_Forget ==
    /\ pc = "callback"
    /\ heap_' = IF running.interval > 0
                THEN heap_ \cup {[running EXCEPT !.when = @ + running.interval]}
                ELSE heap_
    /\ cancelled_timers_' = cancelled_timers_ \ {running.seq}
    /\ running' = NoTimer
    /\ pc' = "firing"
    /\ UNCHANGED << seq_counter_, armed, expired, now, revoked, fired >>

ReturnCallback_Always ==
    /\ pc = "callback"
    /\ heap_' = heap_ \cup {[running EXCEPT !.when = @ + running.interval]}
    /\ running' = NoTimer
    /\ pc' = "firing"
    /\ UNCHANGED << cancelled_timers_, seq_counter_, armed, expired, now, revoked, fired >>

(* A periodic timer goes back with the next deadline of its schedule. *)
ReturnCallback ==
    /\ pc = "callback"
    /\ heap_' = IF running.interval > 0
                THEN heap_ \cup {[running EXCEPT !.when = @ + running.interval]}
                ELSE heap_
    /\ running' = NoTimer
    /\ pc' = "firing"
    /\ UNCHANGED << cancelled_timers_, seq_counter_, armed, expired, now, revoked, fired >>

(* Mutant: the timerfd is left alone. *)
EndHandleRead_NoReset ==
    /\ pc = "firing"
    /\ \A t \in heap_ : t.when > now
    /\ now' = 0
    /\ pc' = "elsewhere"
    /\ UNCHANGED << heap_, cancelled_timers_, seq_counter_, armed, expired, running,
                    revoked, fired >>

EndHandleRead ==
    /\ pc = "firing"
    /\ \A t \in heap_ : t.when > now
    /\ IF heap_ = {}
       THEN UNCHANGED << armed, expired >>
       ELSE \E t \in Tops : ResetTimerfd(t.when)
    /\ now' = 0
    /\ pc' = "elsewhere"
    /\ UNCHANGED << heap_, cancelled_timers_, seq_counter_, running, revoked, fired >>

LoopStep ==
    \/ ReportTimer
    \/ ReadTimerfd
    \/ ReadFails
    \/ \E t \in heap_ : SkipCancelled(t) \/ RunCallback(t)
    \/ ReturnCallback
    \/ EndHandleRead

-----------------------------------------------------------------------------
Later(t) == [t EXCEPT !.when = IF @ > - MaxLate THEN @ - 1 ELSE @]

(* Time goes by for every deadline.  Lateness saturates at MaxLate, and a
   handleRead lasts no longer than that. *)
Tick ==
    /\ pc \in {"firing", "callback"} => SlowCallbacks /\ now > - MaxLate
    /\ heap_' = {Later(t) : t \in heap_}
    /\ running' = IF pc = "callback" THEN Later(running) ELSE running
    /\ now' = IF pc \in {"firing", "callback"} THEN now - 1 ELSE now
    /\ armed' = IF armed > 0 THEN armed - 1 ELSE 0
    /\ expired' = (expired \/ armed = 1)
    /\ UNCHANGED << cancelled_timers_, seq_counter_, pc, revoked, fired >>

Next ==
    \/ \E delay \in Delays, interval \in Intervals : AddTimer(delay, interval)
    \/ \E seq \in IdleCheck + 1 .. seq_counter_ - 1 : Cancel(seq)
    \/ LoopStep
    \/ Tick

Spec == Init /\ [][Next]_vars

(* The loop's thread keeps running and time keeps passing. *)
FairSpec == Spec /\ WF_vars(LoopStep) /\ WF_vars(Tick)

-----------------------------------------------------------------------------
TypeOK ==
    /\ heap_ \subseteq Timer
    /\ cancelled_timers_ \subseteq 1 .. seq_counter_ - 1
    /\ seq_counter_ \in Nat
    /\ armed \in Nat
    /\ expired \in BOOLEAN
    /\ pc \in {"elsewhere", "reported", "firing", "callback"}
    /\ now \in Int
    /\ running \in Timer \cup {NoTimer}
    /\ pc = "callback" <=> running # NoTimer
    /\ revoked \subseteq 1 .. seq_counter_ - 1
    /\ fired \subseteq 1 .. seq_counter_ - 1

Starts == pc = "firing" /\ pc' = "callback"

(* Once cancel has returned the callback never starts again, also when the
   timer was cancelled by an earlier callback of the same handleRead, by its
   own callback, or twice. *)
CancelledNeverFires == [][Starts => running'.seq \notin revoked]_vars

(* A one-shot timer fires once, and no timer before its deadline, whatever
   callbacks add or cancel while handleRead walks the heap. *)
FiresOnceAndOnTime ==
    [][Starts => /\ running'.when <= 0
                 /\ running'.interval = 0 => running'.seq \notin fired]_vars

(* Whenever the loop can block, the timerfd has expired or goes off no later
   than the deadline of any waiting timer.  A timerfd armed for a deadline
   that is not the earliest, or disarmed by a deadline of the past, would
   leave timers waiting for ever. *)
TimerfdCoversHeap ==
    pc \in {"elsewhere", "reported"} =>
        \A t \in heap_ : expired \/ (armed > 0 /\ armed <= t.when)

Fires(seq) == pc = "callback" /\ running.seq = seq

(* Every timer added fires when its time has come unless it is cancelled,
   and a periodic one again and again. *)
TimersFire ==
    \A seq \in 1 .. MaxTimers :
        (\E t \in heap_ : t.seq = seq) ~> (Fires(seq) \/ seq \in revoked)

(* The idle check of the loop is periodic, as README.md 4.4 says. *)
IdleCheckRecurs == []<>Fires(IdleCheck)
=============================================================================
