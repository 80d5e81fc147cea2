--------------------------- MODULE TaskLoopProofs ---------------------------
(***************************************************************************)
(* For any number of posting threads and tasks and any eventfd maximum: no *)
(* task is lost, repeated or overtaken, no wakeup is lost, and every step  *)
(* of the loop is a step of the FIFO task service.                         *)
(***************************************************************************)
EXTENDS TaskLoop, SequenceTheorems, TLAPS

(* NoLostWakeup is not inductive: a queued task may also be ahead of a loop
   that has left epoll_wait and not yet swapped, or that has yet to wait. *)
WakeupInv ==
    /\ tasks_ # << >> /\ pc # "exited" => eventfd > 0 \/ writing # {} \/ pc = "dispatch"
    /\ ~ running_ /\ pc = "wait" => eventfd > 0 \/ writing # {}

(* The vector a round swaps into is a fresh one. *)
LocalInv == pc \notin {"tasks", "task"} => local_tasks = << >>

TaskLoopInv ==
    /\ TypeOK
    /\ TasksInOrder
    /\ WakeupInv
    /\ LocalInv

-----------------------------------------------------------------------------
(* A push at the end of the queue extends the whole history at its end. *)
LEMMA AppendLast ==
    ASSUME NEW s \in Seq(Task), NEW r \in Seq(Task), NEW e \in Task
    PROVE  s \o Append(r, e) = Append(s \o r, e)
<1>1. << e >> \in Seq(Task) /\ s \o r \in Seq(Task)
  BY ConcatProperties
<1>2. Append(r, e) = r \o << e >> /\ Append(s \o r, e) = (s \o r) \o << e >>
  BY <1>1, AppendIsConcat
<1> QED BY <1>1, <1>2, ConcatAssociative

(* Running the head of the queue leaves the whole history as it is. *)
LEMMA MoveHead ==
    ASSUME NEW s \in Seq(Task), NEW r \in Seq(Task), r # << >>
    PROVE  /\ Head(r) \in Task /\ Tail(r) \in Seq(Task)
           /\ Append(s, Head(r)) \o Tail(r) = s \o r
<1>1. Head(r) \in Task /\ Tail(r) \in Seq(Task) /\ << Head(r) >> \in Seq(Task)
  BY HeadTailProperties
<1>2. Append(s, Head(r)) = s \o << Head(r) >>
  BY <1>1, AppendIsConcat
<1>3. r = << Head(r) >> \o Tail(r)
  <2>1. Len(r) \in Nat \ {0}
    BY EmptySeq
  <2>2. 1 \in 1 .. Len(r) /\ Len(r) \in 1 .. Len(r) /\ Head(r) = r[1]
    BY <2>1
  <2>3. SubSeq(r, 1, Len(r)) = << r[1] >> \o SubSeq(r, 1 + 1, Len(r))
    BY <2>2, SubSeqRecursiveFirst
  <2>4. Tail(r) = SubSeq(r, 2, Len(r)) /\ SubSeq(r, 1, Len(r)) = r
    BY TailIsSubSeq, SubSeqFull
  <2> QED BY <2>2, <2>3, <2>4
<1> QED BY <1>1, <1>2, <1>3, ConcatAssociative

(* The head of the current round is the head of all that is pending. *)
LEMMA HeadTailOfConcat ==
    ASSUME NEW r \in Seq(Task), NEW s \in Seq(Task), r # << >>
    PROVE  /\ r \o s # << >> /\ Head(r \o s) = Head(r)
           /\ Tail(r \o s) = Tail(r) \o s
<1> DEFINE rs == r \o s
           l == Tail(rs)
           t == Tail(r) \o s
<1>0. Len(r) \in Nat \ {0} /\ Len(s) \in Nat
  BY EmptySeq, LenProperties
<1>1. /\ rs \in Seq(Task) /\ Len(rs) = Len(r) + Len(s)
      /\ \A i \in 1 .. Len(r) + Len(s) : rs[i] = IF i <= Len(r) THEN r[i] ELSE s[i - Len(r)]
  BY ConcatProperties
<1> HIDE DEF rs
<1>2. rs # << >> /\ Head(rs) = Head(r)
  <2>1. Len(rs) > 0 /\ Len(<< >>) = 0
    BY <1>0, <1>1, EmptySeq
  <2>2. rs # << >>
    BY <2>1
  <2>3. Head(rs) = rs[1] /\ Head(r) = r[1] /\ rs[1] = r[1]
    BY <1>0, <1>1
  <2> QED BY <2>2, <2>3
<1>3. /\ l \in Seq(Task) /\ Len(l) = Len(rs) - 1
      /\ \A i \in 1 .. Len(l) : l[i] = rs[i + 1]
  BY <1>1, <1>2, HeadTailProperties
<1>4. /\ Tail(r) \in Seq(Task) /\ Len(Tail(r)) = Len(r) - 1
      /\ \A i \in 1 .. Len(r) - 1 : Tail(r)[i] = r[i + 1]
  BY HeadTailProperties
<1>5. /\ t \in Seq(Task) /\ Len(t) = Len(r) - 1 + Len(s)
      /\ \A i \in 1 .. Len(r) - 1 + Len(s) :
             t[i] = IF i <= Len(r) - 1 THEN Tail(r)[i] ELSE s[i - (Len(r) - 1)]
  BY <1>4, ConcatProperties
<1> HIDE DEF l, t
<1>6. Len(l) = Len(t) /\ Len(l) = Len(r) - 1 + Len(s)
  BY <1>0, <1>1, <1>3, <1>5
<1>7. ASSUME NEW i \in 1 .. Len(l) PROVE l[i] = t[i]
  <2>1. i \in 1 .. Len(r) - 1 + Len(s) /\ i + 1 \in 1 .. Len(r) + Len(s)
    BY <1>0, <1>6
  <2>2. i + 1 - Len(r) = i - (Len(r) - 1)
    BY <1>0, <2>1
  <2>3. l[i] = IF i + 1 <= Len(r) THEN r[i + 1] ELSE s[i - (Len(r) - 1)]
    BY <1>1, <1>3, <2>1, <2>2
  <2> QED BY <1>0, <1>4, <1>5, <2>1, <2>3
<1>8. l = t
  BY <1>3, <1>5, <1>6, <1>7, SeqEqual
<1> QED BY <1>2, <1>8 DEF l, t, rs

-----------------------------------------------------------------------------
(* The invariant holds before anything is posted. *)
LEMMA TaskLoopInit == Init => TaskLoopInv
<1> SUFFICES ASSUME Init PROVE TaskLoopInv
  OBVIOUS
<1>1. << >> \in Seq(Task) /\ << >> \o << >> \o << >> = << >>
  <2>1. << >> \in Seq(Task)
    BY EmptySeq
  <2> QED BY <2>1, ConcatEmptySeq
<1>2. TypeOK
  <2>1. 0 \in 0 .. EventfdMax /\ \A t \in Threads : 0 <= MaxTasks[t]
    BY TaskLoopAssumption
  <2>2. submitted \in [Threads -> Nat] /\ \A t \in Threads : submitted[t] <= MaxTasks[t]
    BY <2>1 DEF Init
  <2> QED BY <1>1, <2>1, <2>2 DEF Init, TypeOK
<1> QED BY <1>1, <1>2 DEF Init, TaskLoopInv, TasksInOrder, WakeupInv, LocalInv

(* Every step keeps the invariant. *)
LEMMA TaskLoopNext == TaskLoopInv /\ [Next]_vars => TaskLoopInv'
<1> SUFFICES ASSUME TaskLoopInv, [Next]_vars PROVE TaskLoopInv'
  OBVIOUS
<1> USE TaskLoopAssumption
<1>0. /\ TypeOK /\ TasksInOrder /\ WakeupInv /\ LocalInv
      /\ tasks_ \in Seq(Task) /\ local_tasks \in Seq(Task) /\ done \in Seq(Task)
      /\ posted \in Seq(Task) /\ done \o local_tasks \in Seq(Task)
      /\ << >> \in Seq(Task)
  BY ConcatProperties, EmptySeq DEF TaskLoopInv, TypeOK
<1>1. ASSUME NEW t \in Posters \cup {Loop}, QueueInLoop(t) PROVE TaskLoopInv'
  <2> DEFINE task == << t, submitted[t] + 1 >>
  <2>1. t \in Threads /\ submitted[t] \in Nat /\ submitted[t] < MaxTasks[t] /\ MaxTasks[t] \in Nat
    BY <1>0, <1>1 DEF QueueInLoop, Submit, TypeOK, Threads
  <2>2. task \in Task
    BY <2>1 DEF Task
  <2>3. tasks_' = Append(tasks_, task) /\ posted' = Append(posted, task)
    BY <1>1 DEF QueueInLoop
  <2>4. tasks_' \in Seq(Task) /\ posted' \in Seq(Task)
    BY <1>0, <2>2, <2>3, AppendProperties
  <2>5. submitted' = [submitted EXCEPT ![t] = submitted[t] + 1]
    BY <1>1 DEF QueueInLoop, Submit
  <2>6. TypeOK'
    BY <1>0, <1>1, <2>1, <2>4, <2>5 DEF TypeOK, QueueInLoop
  <2>7. TasksInOrder'
    <3> HIDE DEF task
    <3>1. (done \o local_tasks) \o Append(tasks_, task)
            = Append((done \o local_tasks) \o tasks_, task)
      BY <1>0, <2>2, AppendLast
    <3> QED BY <1>0, <1>1, <2>3, <3>1 DEF TasksInOrder, QueueInLoop
  <2>8. WakeupInv' /\ LocalInv'
    BY <1>0, <1>1 DEF WakeupInv, LocalInv, QueueInLoop
  <2> QED BY <2>6, <2>7, <2>8 DEF TaskLoopInv
<1>2. ASSUME NEW t \in Posters \cup {Loop}, RunInLoop(t) PROVE TaskLoopInv'
  <2>1. CASE QueueInLoop(t)
    BY <1>1, <2>1
  <2>2. CASE ~ QueueInLoop(t)
    <3>1. /\ Submit(t)
          /\ UNCHANGED << tasks_, local_tasks, eventfd, running_, loop_thread_id_, pc,
                          wakeup, writing, posted, done >>
      BY <1>2, <2>2 DEF RunInLoop
    <3>2. t \in Threads /\ submitted[t] \in Nat /\ submitted[t] < MaxTasks[t] /\ MaxTasks[t] \in Nat
      BY <1>0, <3>1 DEF Submit, TypeOK, Threads
    <3>3. TypeOK'
      BY <1>0, <3>1, <3>2 DEF TypeOK, Submit
    <3> QED BY <1>0, <3>1, <3>3 DEF TaskLoopInv, TasksInOrder, WakeupInv, LocalInv
  <2> QED BY <2>1, <2>2
<1>3. ASSUME NEW t \in {Main, Loop}, Stop(t) PROVE TaskLoopInv'
  <2>1. TypeOK'
    BY <1>0, <1>3 DEF TypeOK, Stop, Threads
  <2> QED BY <1>0, <1>3, <2>1 DEF TaskLoopInv, TasksInOrder, WakeupInv, LocalInv, Stop
<1>4. ASSUME NEW t \in Threads, WriteWakeup(t) PROVE TaskLoopInv'
  <2>1. TypeOK' /\ eventfd' > 0
    BY <1>0, <1>4 DEF TypeOK, WriteWakeup
  <2> QED BY <1>0, <1>4, <2>1 DEF TaskLoopInv, TasksInOrder, WakeupInv, LocalInv, WriteWakeup
<1>5. CASE StartLoop
  BY <1>0, <1>5 DEF TaskLoopInv, TypeOK, TasksInOrder, WakeupInv, LocalInv, StartLoop, LoopAt
<1>6. CASE CheckRunning
  BY <1>0, <1>6 DEF TaskLoopInv, TypeOK, TasksInOrder, WakeupInv, LocalInv, CheckRunning, LoopAt
<1>7. CASE WaitWakeup
  BY <1>0, <1>7 DEF TaskLoopInv, TypeOK, TasksInOrder, WakeupInv, LocalInv, WaitWakeup, LoopAt
<1>8. CASE ReadWakeup
  <2>1. /\ UNCHANGED << tasks_, local_tasks, running_, loop_thread_id_, writing, submitted,
                        posted, done >>
        /\ pc = "dispatch" /\ pc' = "dispatch" /\ eventfd' = 0
    BY <1>8 DEF ReadWakeup, LoopAt
  <2>2. wakeup' \in BOOLEAN
    BY <1>8 DEF ReadWakeup
  <2>3. 0 \in 0 .. EventfdMax
    OBVIOUS
  <2>4. TypeOK'
    BY <1>0, <2>1, <2>2, <2>3 DEF TypeOK
  <2> QED BY <1>0, <2>1, <2>4 DEF TaskLoopInv, TasksInOrder, WakeupInv, LocalInv
<1>9. CASE SwapTasks
  <2>1. TypeOK'
    BY <1>0, <1>9 DEF TypeOK, SwapTasks, LoopAt
  <2>2. local_tasks' = tasks_ /\ tasks_' = << >> /\ done' = done /\ posted' = posted
    BY <1>9 DEF SwapTasks, LoopAt
  <2>3. local_tasks = << >>
    BY <1>0, <1>9 DEF LocalInv, SwapTasks, LoopAt
  <2>4. done \o tasks_ \in Seq(Task)
    BY <1>0, ConcatProperties
  <2>5. TasksInOrder'
    <3>1. posted = done \o tasks_
      BY <1>0, <2>3, ConcatEmptySeq DEF TasksInOrder
    <3>2. (done \o tasks_) \o << >> = done \o tasks_
      BY <2>4, ConcatEmptySeq
    <3> QED BY <2>2, <3>1, <3>2 DEF TasksInOrder
  <2> QED BY <1>0, <1>9, <2>1, <2>2, <2>5 DEF TaskLoopInv, WakeupInv, LocalInv, SwapTasks, LoopAt
<1>10. CASE RunTask
  <2>1. /\ local_tasks # << >> /\ done' = Append(done, Head(local_tasks))
        /\ local_tasks' = Tail(local_tasks) /\ tasks_' = tasks_ /\ posted' = posted
    BY <1>10 DEF RunTask, LoopAt
  <2>2. /\ Head(local_tasks) \in Task /\ Tail(local_tasks) \in Seq(Task)
        /\ Append(done, Head(local_tasks)) \o Tail(local_tasks) = done \o local_tasks
    BY <1>0, <2>1, MoveHead
  <2>3. Append(done, Head(local_tasks)) \in Seq(Task)
    BY <1>0, <2>2, AppendProperties
  <2>4. TypeOK'
    BY <1>0, <1>10, <2>1, <2>2, <2>3 DEF TypeOK, RunTask, LoopAt
  <2>5. TasksInOrder'
    BY <1>0, <2>1, <2>2 DEF TasksInOrder
  <2> QED BY <1>0, <1>10, <2>4, <2>5 DEF TaskLoopInv, WakeupInv, LocalInv, RunTask, LoopAt
<1>11. CASE ReturnTask
  BY <1>0, <1>11 DEF TaskLoopInv, TypeOK, TasksInOrder, WakeupInv, LocalInv, ReturnTask, LoopAt
<1>12. CASE EndTasks
  BY <1>0, <1>12 DEF TaskLoopInv, TypeOK, TasksInOrder, WakeupInv, LocalInv, EndTasks, LoopAt
<1>13. CASE WaitTimeout
  BY <1>0, <1>13 DEF TaskLoopInv, TypeOK, TasksInOrder, WakeupInv, LocalInv, WaitTimeout, LoopAt
<1>14. CASE WaitOther
  BY <1>0, <1>14 DEF TaskLoopInv, TypeOK, TasksInOrder, WakeupInv, LocalInv, WaitOther, LoopAt
<1>15. CASE UNCHANGED vars
  BY <1>0, <1>15 DEF TaskLoopInv, TypeOK, TasksInOrder, WakeupInv, LocalInv, vars
<1> QED
  BY <1>1, <1>2, <1>3, <1>4, <1>5, <1>6, <1>7, <1>8, <1>9, <1>10, <1>11, <1>12, <1>13,
     <1>14, <1>15
  DEF Next, LoopStep

-----------------------------------------------------------------------------
(* Every variable keeps its type, the eventfd counter its maximum. *)
THEOREM TaskLoopTypeOK == Spec => []TypeOK
<1>1. TaskLoopInv => TypeOK
  BY DEF TaskLoopInv
<1> QED BY <1>1, TaskLoopInit, TaskLoopNext, PTL DEF Spec

(* Tasks run in the order they were posted, each at most once, and none
   disappears between the queue and the round that runs it. *)
THEOREM TaskLoopOrder == Spec => []TasksInOrder
<1>1. TaskLoopInv => TasksInOrder
  BY DEF TaskLoopInv
<1> QED BY <1>1, TaskLoopInit, TaskLoopNext, PTL DEF Spec

(* The loop never blocks with a task queued or a stop requested unless a
   wakeup is there or on its way. *)
THEOREM TaskLoopWakeup == Spec => []NoLostWakeup
<1>1. TaskLoopInv => NoLostWakeup
  BY DEF TaskLoopInv, WakeupInv, NoLostWakeup
<1> QED BY <1>1, TaskLoopInit, TaskLoopNext, PTL DEF Spec

(* Every step of the threads and of the loop is a step of the FIFO task
   service or leaves it alone (the service's fairness is checked by TLC). *)
THEOREM TaskLoopRefinement == Spec => Service!Init /\ [][Service!Next]_(Service!vars)
<1> USE TaskLoopAssumption
<1>1. Init => Service!Init
  <2>1. << >> \o << >> = << >>
    BY EmptySeq, ConcatEmptySeq
  <2> QED BY <2>1 DEF Init, Service!Init
<1>2. TaskLoopInv /\ [Next]_vars => [Service!Next]_(Service!vars)
  <2> SUFFICES ASSUME TaskLoopInv, [Next]_vars PROVE [Service!Next]_(Service!vars)
    OBVIOUS
  <2> DEFINE pending == local_tasks \o tasks_
  <2>0. /\ TypeOK /\ LocalInv
        /\ tasks_ \in Seq(Task) /\ local_tasks \in Seq(Task) /\ << >> \in Seq(Task)
    BY EmptySeq DEF TaskLoopInv, TypeOK
  <2>1. ASSUME NEW t \in Posters \cup {Loop}, QueueInLoop(t) PROVE Service!Next
    <3> DEFINE task == << t, submitted[t] + 1 >>
    <3>1. t \in Threads /\ submitted[t] \in Nat /\ submitted[t] < MaxTasks[t] /\ MaxTasks[t] \in Nat
      BY <2>0, <2>1 DEF QueueInLoop, Submit, TypeOK, Threads
    <3>2. task \in Task
      BY <3>1 DEF Task
    <3>3. /\ tasks_' = Append(tasks_, task) /\ local_tasks' = local_tasks
          /\ done' = done /\ pc' = pc
      BY <2>1 DEF QueueInLoop
    <3> HIDE DEF task
    <3>4. pending' = Append(pending, task)
      BY <2>0, <3>2, <3>3, AppendLast
    <3> QED BY <3>2, <3>3, <3>4 DEF Service!Next, Service!Post
  <2>2. CASE UNCHANGED << local_tasks, tasks_, done, pc >>
    BY <2>2 DEF Service!vars
  <2>3. CASE SwapTasks
    <3>1. /\ local_tasks' = tasks_ /\ tasks_' = << >> /\ done' = done
          /\ pc = "dispatch" /\ pc' = "tasks" /\ local_tasks = << >>
      BY <2>0, <2>3 DEF SwapTasks, LoopAt, LocalInv
    <3>2. tasks_ \o << >> = << >> \o tasks_
      BY <2>0, ConcatEmptySeq
    <3>3. pending' = pending
      BY <3>1, <3>2
    <3> QED BY <3>1, <3>3 DEF Service!vars
  <2>4. CASE RunTask
    <3>1. /\ local_tasks # << >> /\ done' = Append(done, Head(local_tasks))
          /\ local_tasks' = Tail(local_tasks) /\ tasks_' = tasks_
          /\ pc = "tasks" /\ pc' = "task"
      BY <2>4 DEF RunTask, LoopAt
    <3>2. /\ pending # << >> /\ Head(pending) = Head(local_tasks)
          /\ Tail(pending) = Tail(local_tasks) \o tasks_
      BY <2>0, <3>1, HeadTailOfConcat
    <3> HIDE DEF pending
    <3>3. pending' = Tail(pending)
      BY <3>1, <3>2 DEF pending
    <3> QED BY <3>1, <3>2, <3>3 DEF Service!Next, Service!Run, pending
  <2>5. CASE CheckRunning
    <3>1. UNCHANGED << local_tasks, tasks_, done >> /\ pc = "check" /\ pc' \in {"wait", "exited"}
      BY <2>5 DEF CheckRunning, LoopAt
    <3> QED BY <3>1 DEF Service!vars, Service!Next, Service!Close
  <2>6. CASE StartLoop \/ WaitWakeup \/ ReadWakeup \/ ReturnTask \/ EndTasks
             \/ WaitTimeout \/ WaitOther
    <3>1. /\ UNCHANGED << local_tasks, tasks_, done >>
          /\ pc # "exited" /\ pc' # "exited"
      BY <2>6 DEF StartLoop, WaitWakeup, ReadWakeup, ReturnTask, EndTasks, WaitTimeout,
                  WaitOther, LoopAt
    <3> QED BY <3>1 DEF Service!vars
  <2>7. ASSUME NEW t \in Posters \cup {Loop}, RunInLoop(t), ~ QueueInLoop(t)
        PROVE  UNCHANGED << local_tasks, tasks_, done, pc >>
    BY <2>7 DEF RunInLoop
  <2>8. ASSUME NEW t \in Threads, Stop(t) \/ WriteWakeup(t)
        PROVE  UNCHANGED << local_tasks, tasks_, done, pc >>
    BY <2>8 DEF Stop, WriteWakeup
  <2>9. CASE UNCHANGED vars
    BY <2>2, <2>9 DEF vars
  <2> QED
    <3>1. {Main, Loop} \subseteq Threads
      BY DEF Threads
    <3> QED BY <2>1, <2>2, <2>3, <2>4, <2>5, <2>6, <2>7, <2>8, <2>9, <3>1 DEF Next, LoopStep
<1> QED BY <1>1, <1>2, TaskLoopInit, TaskLoopNext, PTL DEF Spec

(* Every step of the threads and of the loop is, for the flag and for where run()
   is, a step of LoopLife or none: stop() is final whenever it is called, and run()
   returns for no other reason (that it does return is checked by TLC). *)
THEOREM TaskLoopLife == Spec => Life!Init /\ [][Life!Next]_(Life!vars)
<1>1. Init => Life!Init
  BY DEF Init, Life!Init
<1>2. [Next]_vars => [Life!Next]_(Life!vars)
  <2> SUFFICES ASSUME [Next]_vars PROVE [Life!Next]_(Life!vars)
    OBVIOUS
  <2>1. CASE UNCHANGED << running_, pc >>
    BY <2>1 DEF Life!vars
  <2>2. ASSUME NEW t \in Threads, Stop(t) PROVE Life!Next
    BY <2>2 DEF Stop, Life!Next, Life!Stop
  <2>3. CASE StartLoop
    BY <2>3 DEF StartLoop, LoopAt, Life!Next, Life!Start
  <2>4. CASE CheckRunning
    BY <2>4 DEF CheckRunning, LoopAt, Life!Next, Life!Return, Life!vars
  <2>5. CASE WaitTimeout \/ WaitWakeup \/ WaitOther \/ ReadWakeup \/ SwapTasks \/ RunTask
             \/ ReturnTask \/ EndTasks
    <3>1. running_' = running_ /\ {pc, pc'} \cap {"start", "exited"} = {}
      BY <2>5 DEF WaitTimeout, WaitWakeup, WaitOther, ReadWakeup, SwapTasks, RunTask, ReturnTask,
                  EndTasks, LoopAt
    <3> QED BY <3>1 DEF Life!vars
  <2>6. ASSUME NEW t \in Threads, QueueInLoop(t) \/ RunInLoop(t) \/ WriteWakeup(t)
        PROVE  UNCHANGED << running_, pc >>
    BY <2>6 DEF QueueInLoop, RunInLoop, WriteWakeup
  <2> QED
    <3>1. {Main, Loop} \subseteq Threads /\ Posters \subseteq Threads
      BY DEF Threads
    <3> QED BY <2>1, <2>2, <2>3, <2>4, <2>5, <2>6, <3>1 DEF Next, LoopStep, vars
<1> QED BY <1>1, <1>2, PTL DEF Spec
=============================================================================
