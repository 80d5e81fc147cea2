------------------------------ MODULE TaskLoop ------------------------------
(***************************************************************************)
(* The task queue of an EventLoop and its eventfd: other threads push      *)
(* tasks and write the eventfd, in two steps that interleave with the      *)
(* steps of run().  Sockets and timers appear only as the other events     *)
(* that can wake epoll_wait (Reactor and TimerQueue model them).           *)
(***************************************************************************)
EXTENDS Integers, Sequences

CONSTANTS
    Posters,        \* threads that call queueInLoop or runInLoop
    Loop,           \* the thread that calls run()
    Main,           \* the thread that calls stop()
    NoThread,       \* a default-constructed std::thread::id
    MaxTasks,       \* bound of the model: how many tasks each thread submits
    EventfdMax      \* the counter at which a write of the eventfd gets EAGAIN

Threads == Posters \cup {Loop, Main}

ASSUME TaskLoopAssumption ==
    /\ Loop \notin Posters
    /\ Main \notin Posters
    /\ Loop # Main
    /\ NoThread \notin Threads
    /\ MaxTasks \in [Threads -> Nat]
    /\ EventfdMax \in Nat \ {0}

Task == UNION {{t} \X (1 .. MaxTasks[t]) : t \in Threads}

VARIABLES
    tasks_,             \* the queue that mutex_ protects
    local_tasks,        \* the tasks taken by the current round of run()
    eventfd,            \* counter of wakeup_fd_
    running_,
    loop_thread_id_,
    pc,                 \* where run() is
    wakeup,             \* the current batch still holds a WAKEUP event
    writing,            \* threads between their update and their write of wakeup_fd_
    submitted,          \* how many tasks each thread has submitted
    posted,             \* history: tasks in the order they entered tasks_
    done                \* history: tasks of the queue in the order they ran

vars == << tasks_, local_tasks, eventfd, running_, loop_thread_id_, pc, wakeup,
           writing, submitted, posted, done >>

Init ==
    /\ tasks_ = << >>
    /\ local_tasks = << >>
    /\ eventfd = 0
    /\ running_ = TRUE
    /\ loop_thread_id_ = NoThread
    /\ pc = "start"
    /\ wakeup = FALSE
    /\ writing = {}
    /\ submitted = [t \in Threads |-> 0]
    /\ posted = << >>
    /\ done = << >>

-----------------------------------------------------------------------------
(* A thread can call into the loop; the loop's own thread does so from its
   handlers and tasks only. *)
CanCall(t) ==
    /\ t \notin writing
    /\ t = Loop => pc \in {"dispatch", "task"}

Submit(t) ==
    /\ CanCall(t)
    /\ submitted[t] < MaxTasks[t]
    /\ submitted' = [submitted EXCEPT ![t] = @ + 1]

(* Mutant: the loop's own thread does not wake itself. *)
QueueInLoop_NoWakeOnLoop(t) ==
    LET task == << t, submitted[t] + 1 >>
    IN  /\ Submit(t)
        /\ tasks_' = Append(tasks_, task)
        /\ posted' = Append(posted, task)
        /\ writing' = IF t = loop_thread_id_ THEN writing ELSE writing \cup {t}
        /\ UNCHANGED << local_tasks, eventfd, running_, loop_thread_id_, pc, wakeup, done >>

(* queueInLoop up to the end of its critical section. *)
QueueInLoop(t) ==
    LET task == << t, submitted[t] + 1 >>
    IN  /\ Submit(t)
        /\ tasks_' = Append(tasks_, task)
        /\ posted' = Append(posted, task)
        /\ writing' = writing \cup {t}
        /\ UNCHANGED << local_tasks, eventfd, running_, loop_thread_id_, pc, wakeup, done >>

(* runInLoop: the task runs at once on the loop's thread and is queued on
   any other. *)
RunInLoop(t) ==
    \/ /\ t = loop_thread_id_
       /\ Submit(t)
       /\ UNCHANGED << tasks_, local_tasks, eventfd, running_, loop_thread_id_, pc,
                       wakeup, writing, posted, done >>
    \/ /\ t # loop_thread_id_
       /\ QueueInLoop(t)

(* Mutant: stop only sets the flag. *)
Stop_NoWake(t) ==
    /\ CanCall(t)
    /\ running_
    /\ running_' = FALSE
    /\ UNCHANGED << tasks_, local_tasks, eventfd, loop_thread_id_, pc, wakeup, writing,
                    submitted, posted, done >>

(* stop() up to its write.  Bound of the model: stop is called once. *)
Stop(t) ==
    /\ CanCall(t)
    /\ running_
    /\ running_' = FALSE
    /\ writing' = writing \cup {t}
    /\ UNCHANGED << tasks_, local_tasks, eventfd, loop_thread_id_, pc, wakeup,
                    submitted, posted, done >>

(* Mutant: the counter has no maximum. *)
WriteWakeup_NoLimit(t) ==
    /\ t \in writing
    /\ writing' = writing \ {t}
    /\ eventfd' = eventfd + 1
    /\ UNCHANGED << tasks_, local_tasks, running_, loop_thread_id_, pc, wakeup,
                    submitted, posted, done >>

(* The write that ends queueInLoop and stop; EAGAIN is ignored. *)
WriteWakeup(t) ==
    /\ t \in writing
    /\ writing' = writing \ {t}
    /\ eventfd' = IF eventfd < EventfdMax THEN eventfd + 1 ELSE eventfd
    /\ UNCHANGED << tasks_, local_tasks, running_, loop_thread_id_, pc, wakeup,
                    submitted, posted, done >>

-----------------------------------------------------------------------------
(* A step of run() from one program point to the next. *)
LoopAt(here, there) ==
    /\ pc = here
    /\ Loop \notin writing
    /\ pc' = there
    /\ UNCHANGED << running_, writing, submitted, posted >>

StartLoop ==
    /\ LoopAt("start", "check")
    /\ loop_thread_id_' = Loop
    /\ UNCHANGED << tasks_, local_tasks, eventfd, wakeup, done >>

CheckRunning ==
    /\ LoopAt("check", IF running_ THEN "wait" ELSE "exited")
    /\ UNCHANGED << tasks_, local_tasks, eventfd, loop_thread_id_, wakeup, done >>

(* epoll_wait returns 0: the round ends without a look at the tasks. *)
WaitTimeout ==
    /\ eventfd = 0
    /\ LoopAt("wait", "check")
    /\ UNCHANGED << tasks_, local_tasks, eventfd, loop_thread_id_, wakeup, done >>

(* epoll_wait returns because of the eventfd, which a batch already filled
   with max_events other events may leave for the next round. *)
WaitWakeup ==
    /\ eventfd > 0
    /\ LoopAt("wait", "dispatch")
    /\ wakeup' \in BOOLEAN
    /\ UNCHANGED << tasks_, local_tasks, eventfd, loop_thread_id_, done >>

(* epoll_wait returns sockets or timers while the eventfd is not readable. *)
WaitOther ==
    /\ eventfd = 0
    /\ LoopAt("wait", "dispatch")
    /\ UNCHANGED << tasks_, local_tasks, eventfd, loop_thread_id_, wakeup, done >>

ReadWakeup ==
    /\ wakeup
    /\ LoopAt("dispatch", "dispatch")
    /\ eventfd' = 0
    /\ wakeup' = FALSE
    /\ UNCHANGED << tasks_, local_tasks, loop_thread_id_, done >>

(* Mutant: the queue is copied instead of swapped. *)
SwapTasks_Copy ==
    /\ ~ wakeup
    /\ LoopAt("dispatch", "tasks")
    /\ local_tasks' = tasks_
    /\ UNCHANGED << tasks_, eventfd, loop_thread_id_, wakeup, done >>

SwapTasks ==
    /\ ~ wakeup
    /\ LoopAt("dispatch", "tasks")
    /\ local_tasks' = tasks_
    /\ tasks_' = << >>
    /\ UNCHANGED << eventfd, loop_thread_id_, wakeup, done >>

(* Mutant: the newest task of the round is run first. *)
RunTask_Newest ==
    /\ local_tasks # << >>
    /\ LoopAt("tasks", "task")
    /\ done' = Append(done, local_tasks[Len(local_tasks)])
    /\ local_tasks' = SubSeq(local_tasks, 1, Len(local_tasks) - 1)
    /\ UNCHANGED << tasks_, eventfd, loop_thread_id_, wakeup >>

RunTask ==
    /\ local_tasks # << >>
    /\ LoopAt("tasks", "task")
    /\ done' = Append(done, Head(local_tasks))
    /\ local_tasks' = Tail(local_tasks)
    /\ UNCHANGED << tasks_, eventfd, loop_thread_id_, wakeup >>

(* The task, which may itself have called into the loop, returns. *)
ReturnTask ==
    /\ LoopAt("task", "tasks")
    /\ UNCHANGED << tasks_, local_tasks, eventfd, loop_thread_id_, wakeup, done >>

EndTasks ==
    /\ local_tasks = << >>
    /\ LoopAt("tasks", "check")
    /\ UNCHANGED << tasks_, local_tasks, eventfd, loop_thread_id_, wakeup, done >>

(* What run() does without the help of a timeout or of another event. *)
LoopStep ==
    \/ StartLoop
    \/ CheckRunning
    \/ WaitWakeup
    \/ ReadWakeup
    \/ SwapTasks
    \/ RunTask
    \/ ReturnTask
    \/ EndTasks

Next ==
    \/ \E t \in Posters \cup {Loop} : QueueInLoop(t) \/ RunInLoop(t)
    \/ \E t \in {Main, Loop} : Stop(t)
    \/ \E t \in Threads : WriteWakeup(t)
    \/ LoopStep
    \/ WaitTimeout
    \/ WaitOther

(* The scheduler runs every thread; nothing is assumed of timeouts (the
   configured one may be -1) or of other events. *)
Fairness ==
    /\ WF_vars(LoopStep)
    /\ \A t \in Threads : WF_vars(WriteWakeup(t))

Spec == Init /\ [][Next]_vars

FairSpec == Spec /\ Fairness

-----------------------------------------------------------------------------
TypeOK ==
    /\ tasks_ \in Seq(Task)
    /\ local_tasks \in Seq(Task)
    /\ eventfd \in 0 .. EventfdMax
    /\ running_ \in BOOLEAN
    /\ loop_thread_id_ \in {NoThread, Loop}
    /\ pc \in {"start", "check", "wait", "dispatch", "tasks", "task", "exited"}
    /\ wakeup \in BOOLEAN
    /\ writing \subseteq Threads
    /\ submitted \in [Threads -> Nat]
    /\ \A t \in Threads : submitted[t] <= MaxTasks[t]
    /\ posted \in Seq(Task)
    /\ done \in Seq(Task)

(* Whatever the interleaving of pushes, swaps and runs, the tasks that ran,
   those taken for this round and those still queued are together exactly
   the tasks posted, in the order they were posted: none is lost, run twice
   or overtaken by a later one. *)
TasksInOrder == posted = done \o local_tasks \o tasks_

(* The loop never blocks in epoll_wait with work it was not told of: a task
   in the queue or a stop() comes with a readable eventfd or with a thread
   that is about to write it.  The write is not part of the critical section
   and the read comes before the swap, so the order of the two matters. *)
NoLostWakeup ==
    pc = "wait" /\ (tasks_ # << >> \/ ~ running_) => eventfd > 0 \/ writing # {}

(* A task is run or left behind by a loop that was stopped; seen from the
   callers the queue is a FIFO task service. *)
Service == INSTANCE TaskService WITH
    pending <- local_tasks \o tasks_,
    closed <- pc = "exited"
ImplementsTaskService == Service!Spec

(* stop() ends run(), from whatever thread and at whatever moment it is
   called, even before run() has started or while epoll_wait blocks; and
   nothing else ends it. *)
Life == INSTANCE LoopLife WITH
    running <- running_,
    phase <- IF pc = "start" THEN "fresh" ELSE IF pc = "exited" THEN "returned" ELSE "running"
ImplementsLoopLife == Life!Spec
=============================================================================
