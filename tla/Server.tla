------------------------------- MODULE Server -------------------------------
(***************************************************************************)
(* main.cpp: read the settings, build one EventLoop for each thread, start *)
(* the threads, wait for a signal, stop the loops, join the threads and    *)
(* destroy the loops.  A loop is what LoopLife says of it, plus the        *)
(* descriptors that its constructor opens.                                 *)
(***************************************************************************)
EXTENDS Config, FiniteSets

CONSTANTS
    FdLimit,        \* descriptors the process may have (RLIMIT_NOFILE)
    PortSpan,       \* 2^16, the number of values of a port
    OtherPorts      \* the ports that other processes may want

ASSUME ServerAssumption ==
    /\ {"port", "thread_count", "max_events"} \subseteq Fields
    /\ FdLimit \in Nat
    /\ PortSpan \in Nat \ {0}
    /\ OtherPorts \subseteq 1 .. PortSpan - 1

(* No more loops than this can have a listener at the same time. *)
Loops == 1 .. FdLimit + 1

Kinds == {"listener", "wakeup", "epoll", "timer"}

VARIABLES
    pc,             \* where main is
    step,           \* where the constructor of the next loop is
    loops,          \* number of loops that are built
    fds,            \* open descriptors: << loop, kind >>
    sharing,        \* listeners with SO_REUSEPORT set
    bound,          \* the ports of the listeners that are bound
    foreign,        \* ports that other processes hold for themselves
    thread,         \* state of the thread of each loop
    running_,       \* the flag of each loop
    stopping,       \* set by signal_handler
    failed,         \* the constructor's step that threw
    code            \* what main returns

serverVars == << pc, step, loops, fds, sharing, bound, foreign, thread, running_, stopping,
                 failed, code >>
vars == << configVars, serverVars >>

Init ==
    /\ ConfigInit
    /\ pc = "config"
    /\ step = "socket"
    /\ loops = 0
    /\ fds = {}
    /\ sharing = {}
    /\ bound = [l \in {} |-> 0]
    /\ foreign = {}
    /\ thread = [l \in Loops |-> "none"]
    /\ running_ = [l \in Loops |-> TRUE]
    /\ stopping = FALSE
    /\ failed = "nothing"
    /\ code = 0

-----------------------------------------------------------------------------
(* config.init, outside the try block: an exception ends the process. *)
ReadConfig ==
    /\ pc = "config"
    /\ ConfigStep
    /\ pc' = IF stage' = "thrown" THEN "terminated" ELSE pc
    /\ UNCHANGED << step, loops, fds, sharing, bound, foreign, thread, running_, stopping,
                    failed, code >>

(* --dump-config, or on to the handlers and the loops.  The arguments and files
   are not looked at again, so the model forgets them. *)
UseConfig ==
    /\ pc = "config" /\ stage = "done"
    /\ pc' = IF dump_config_ THEN "exit" ELSE "build"
    /\ argv' = << >> /\ files' = [p \in {} |-> 0] /\ stage' = "used" /\ i' = 1
    /\ config_path' = "config.json"
    /\ UNCHANGED << fields, dump_config_, step, loops, fds, sharing, bound, foreign, thread,
                    running_, stopping, failed, code >>

(* thread_count is assigned to an unsigned int. *)
ThreadCount == fields["thread_count"] % IntSpan

(* htons takes the low 16 bits. *)
Port == fields["port"] % PortSpan

-----------------------------------------------------------------------------
(* The constructor of an EventLoop, one system call after the other. *)

(* The number of the loop that is being built. *)
Coming == loops + 1

Of(l) == {<< l, kind >> : kind \in Kinds}

At(here) == pc = "build" /\ loops < ThreadCount /\ step = here

Reach(there) ==
    /\ step' = there
    /\ UNCHANGED << pc, loops, foreign, thread, running_, stopping, failed, code, configVars >>

(* A call that opens a descriptor. *)
Open(kind) ==
    /\ Cardinality(fds) < FdLimit
    /\ fds' = fds \cup {<< Coming, kind >>}

(* Descriptors kept in an int by an object whose constructor has not returned:
   no destructor closes wakeup_fd_, nor epoll_fd_ while EpollPoller is being made. *)
Unowned == {"wakeup"} \cup {kind \in {"epoll"} : step = "events"}

(* Mutant: initSocket throws without closing its socket. *)
Unwound_NoClose ==
    IF step \in {"options", "bind", "listen"}
    THEN {<< Coming, "listener" >>}
    ELSE fds \cap {<< Coming, kind >> : kind \in Unowned}

(* What stays open when a constructor throws and main catches it: initSocket
   closes its socket and members that are complete are destroyed, as are the
   loops built before. *)
Unwound == fds \cap {<< Coming, kind >> : kind \in Unowned}

BuildFails ==
    /\ pc = "build" /\ loops < ThreadCount
    /\ pc' = "exit"
    /\ code' = 1
    /\ failed' = step
    /\ fds' = Unwound
    /\ bound' = [l \in {} |-> 0]
    /\ UNCHANGED << step, loops, sharing, foreign, thread, running_, stopping, configVars >>

CreateSocket ==
    /\ At("socket")
    /\ \/ Open("listener") /\ Reach("options") /\ UNCHANGED << sharing, bound >>
       \/ BuildFails

(* Mutant: without SO_REUSEPORT. *)
SetOptions_NoReusePort ==
    /\ At("options")
    /\ \/ Reach("bind") /\ UNCHANGED << fds, sharing, bound >>
       \/ BuildFails

(* fcntl twice and setsockopt twice. *)
SetOptions ==
    /\ At("options")
    /\ \/ /\ sharing' = sharing \cup {Coming}
          /\ Reach("bind")
          /\ UNCHANGED << fds, bound >>
       \/ BuildFails

(* The kernel's rule: a port can be bound twice only if both sockets share it. *)
InUse(p) ==
    \/ p \in foreign
    \/ \E l \in DOMAIN bound : bound[l] = p /\ ~ {l, Coming} \subseteq sharing

(* Port 0 stands for a port of the kernel's choice that nobody has. *)
Bindable ==
    IF Port # 0
    THEN {p \in {Port} : ~ InUse(p)}
    ELSE {p \in 1 .. PortSpan - 1 : p \notin foreign /\ \A l \in DOMAIN bound : bound[l] # p}

(* bind also fails for reasons that have to do with no other socket: a port below
   1024, no memory, no port left. *)
Bind ==
    /\ At("bind")
    /\ \/ \E p \in Bindable :
             /\ bound' = [l \in DOMAIN bound \cup {Coming} |-> IF l = Coming THEN p ELSE bound[l]]
             /\ Reach("listen")
             /\ UNCHANGED << fds, sharing >>
       \/ BuildFails

(* SO_REUSEADDR lets another process bind the port that is only bound here; the
   one that listens first has it. *)
Listen ==
    /\ At("listen")
    /\ \/ bound[Coming] \notin foreign /\ Reach("eventfd") /\ UNCHANGED << fds, sharing, bound >>
       \/ BuildFails

(* The loops whose ports the kernel keeps from everybody who does not share. *)
Listening == DOMAIN bound \ {l \in {Coming} : step = "listen"}

(* eventfd and timerfd_create: -1 is kept for the time being. *)
TryOpen(kind, here, there) ==
    /\ At(here)
    /\ Reach(there)
    /\ Open(kind) \/ UNCHANGED fds
    /\ UNCHANGED << sharing, bound >>

CreateEpoll ==
    /\ At("epoll")
    /\ \/ Open("epoll") /\ Reach("events") /\ UNCHANGED << sharing, bound >>
       \/ BuildFails

(* resize(max_events): the int becomes a size, which a vector refuses if it was
   negative and memory may refuse if it is large. *)
ResizeEvents ==
    /\ At("events")
    /\ \/ fields["max_events"] >= 0 /\ Reach("timerfd") /\ UNCHANGED << fds, sharing, bound >>
       \/ BuildFails

CreateEventfd == TryOpen("wakeup", "eventfd", "epoll")
CreateTimerfd == TryOpen("timer", "timerfd", "body")

(* The body of the constructor: the check of wakeup_fd_ and three add_fd, of
   which that of a timerfd_ of -1 throws; main keeps the loop. *)
FinishLoop ==
    /\ At("body")
    /\ \/ /\ Of(Coming) \subseteq fds
          /\ loops' = loops + 1
          /\ step' = "socket"
          /\ UNCHANGED << pc, fds, sharing, bound, foreign, thread, running_, stopping, failed,
                          code, configVars >>
       \/ BuildFails

BuildLoop ==
    \/ CreateSocket \/ SetOptions \/ Bind \/ Listen
    \/ CreateEventfd \/ CreateEpoll \/ ResizeEvents \/ CreateTimerfd \/ FinishLoop

-----------------------------------------------------------------------------
Move(there) ==
    /\ pc' = there
    /\ UNCHANGED << step, loops, sharing, foreign, stopping, failed, configVars >>

EndBuild ==
    /\ pc = "build" /\ loops = ThreadCount
    /\ Move("start")
    /\ UNCHANGED << fds, bound, thread, running_, code >>

Started == {l \in Loops : thread[l] # "none"}

(* The thread of the next loop is created.  If it cannot be, the exception finds
   a vector of joinable threads, whose destruction terminates the process, unless
   it is empty. *)
StartThread ==
    /\ pc = "start"
    /\ UNCHANGED running_
    /\ LET next == Cardinality(Started) + 1 IN
       IF next > loops
       THEN Move("serve") /\ UNCHANGED << fds, bound, thread, code >>
       ELSE \/ /\ thread' = [thread EXCEPT ![next] = "created"]
               /\ Move("start")
               /\ UNCHANGED << fds, bound, code >>
            \/ /\ next = 1
               /\ fds' = {} /\ bound' = [l \in {} |-> 0]
               /\ code' = 1
               /\ Move("exit")
               /\ UNCHANGED thread
            \/ /\ next > 1
               /\ Move("terminated")
               /\ UNCHANGED << fds, bound, thread, code >>

(* The poll of the flag every 100 ms; a turn that finds it unset changes
   nothing. *)
SeeSignal ==
    /\ pc = "serve" /\ stopping
    /\ Move("stop")
    /\ UNCHANGED << fds, bound, thread, running_, code >>

(* stop() of each loop in turn. *)
StopLoops ==
    /\ pc = "stop"
    /\ LET going == {l \in 1 .. loops : running_[l]} IN
       IF going = {}
       THEN Move("join") /\ UNCHANGED running_
       ELSE running_' = [running_ EXCEPT ![Min(going)] = FALSE] /\ Move("stop")
    /\ UNCHANGED << fds, bound, thread, code >>

(* Mutant: the threads are not waited for. *)
JoinThreads_NoWait ==
    /\ pc = "join"
    /\ Move("destroy")
    /\ UNCHANGED << fds, bound, thread, running_, code >>

(* The last join returns. *)
JoinThreads ==
    /\ pc = "join"
    /\ \A l \in Started : thread[l] = "returned"
    /\ Move("destroy")
    /\ UNCHANGED << fds, bound, thread, running_, code >>

(* The end of the try block destroys the loops, one after the other. *)
DestroyLoop ==
    /\ pc = "destroy"
    /\ LET left == {l \in Loops : Of(l) \cap fds # {}} IN
       IF left = {}
       THEN Move("exit") /\ UNCHANGED << fds, bound >>
       ELSE /\ fds' = fds \ Of(Min(left))
            /\ bound' = [l \in DOMAIN bound \ {Min(left)} |-> bound[l]]
            /\ Move("destroy")
    /\ UNCHANGED << thread, running_, code >>

-----------------------------------------------------------------------------
Up == pc \notin {"exit", "terminated"}

SetThread(l, here, there) ==
    /\ Up
    /\ thread[l] = here
    /\ thread' = [thread EXCEPT ![l] = there]

(* Mutant: run() begins with running_ = true. *)
EnterRun_Reset(l) ==
    /\ SetThread(l, "created", "running")
    /\ running_' = [running_ EXCEPT ![l] = TRUE]
    /\ UNCHANGED << pc, step, loops, fds, sharing, bound, foreign, stopping, failed, code,
                    configVars >>

(* A thread comes to its call of run(), perhaps after stop(). *)
EnterRun(l) ==
    /\ SetThread(l, "created", "running")
    /\ UNCHANGED << pc, step, loops, fds, sharing, bound, foreign, running_, stopping, failed,
                    code, configVars >>

(* run() returns, and the thread with it (LoopLife's Return). *)
LeaveRun(l) ==
    /\ ~ running_[l]
    /\ SetThread(l, "running", "returned")
    /\ UNCHANGED << pc, step, loops, fds, sharing, bound, foreign, running_, stopping, failed,
                    code, configVars >>

(* An exception leaves run(): accept or epoll_ctl failed, or a callback threw. *)
RunThrows(l) ==
    /\ Up
    /\ thread[l] = "running"
    /\ pc' = "terminated"
    /\ UNCHANGED << step, loops, fds, sharing, bound, foreign, thread, running_, stopping, failed,
                    code, configVars >>

(* SIGINT or SIGTERM; before the handlers are installed it kills the process. *)
Signal ==
    /\ Up /\ ~ stopping
    /\ IF pc = "config"
       THEN pc' = "terminated" /\ UNCHANGED stopping
       ELSE stopping' = TRUE /\ UNCHANGED pc
    /\ UNCHANGED << step, loops, fds, sharing, bound, foreign, thread, running_, failed, code,
                    configVars >>

(* Other processes take ports for themselves and give them back at any time; only
   while main binds its own does it matter. *)
Others(ports) ==
    /\ pc = "build"
    /\ foreign' = ports
    /\ UNCHANGED << pc, step, loops, fds, sharing, bound, thread, running_, stopping, failed,
                    code, configVars >>

OthersBind ==
    \E p \in OtherPorts \ foreign :
        (\A l \in Listening : bound[l] # p) /\ Others(foreign \cup {p})

OthersClose == \E p \in foreign : Others(foreign \ {p})

MainStep ==
    \/ ReadConfig \/ UseConfig
    \/ BuildLoop \/ EndBuild \/ StartThread
    \/ SeeSignal \/ StopLoops \/ JoinThreads \/ DestroyLoop

ThreadStep(l) == EnterRun(l) \/ LeaveRun(l)

Next ==
    \/ MainStep
    \/ \E l \in Loops : ThreadStep(l) \/ RunThrows(l)
    \/ Signal
    \/ OthersBind
    \/ OthersClose

Spec == Init /\ [][Next]_vars

(* main and the threads are scheduled; nothing is assumed of signals or
   of other processes.  That a loop that was stopped lets run() return is what
   TaskLoop is shown to implement. *)
FairSpec ==
    /\ Spec
    /\ WF_vars(MainStep)
    /\ \A l \in Loops : WF_vars(ThreadStep(l))

-----------------------------------------------------------------------------
TypeOK ==
    /\ pc \in {"config", "build", "start", "serve", "stop", "join", "destroy", "exit",
               "terminated"}
    /\ fields \in [Fields -> Int32]
    /\ loops \in 0 .. FdLimit
    /\ fds \subseteq (1 .. FdLimit + 1) \X Kinds
    /\ Cardinality(fds) <= FdLimit
    /\ DOMAIN bound \subseteq Loops
    /\ foreign \subseteq OtherPorts
    /\ thread \in [Loops -> {"none", "created", "running", "returned"}]
    /\ running_ \in [Loops -> BOOLEAN]
    /\ code \in {0, 1}

(* A thread that has not left run() finds its loop whole: loops are destroyed
   after every thread has returned, also one that gets to run() only after
   stop(), and no failure destroys them under a thread (main.cpp:37-38: threads
   is declared after loops). *)
LoopsOutliveThreads ==
    \A l \in Loops : Up /\ thread[l] \in {"created", "running"} => Of(l) \subseteq fds

(* However main returns, no thread runs, and with code 1 none was ever started, so
   that no client was served by half a server.  All descriptors are closed unless a
   constructor threw, and then all but the ints of the objects that it left half
   made: wakeup_fd_ of that one loop, and epoll_fd_ if it was the table of events
   that could not be made.  No listener is left, and nothing of the other loops. *)
ReturnsClean ==
    pc = "exit" =>
        /\ \A l \in Loops : thread[l] \in {"none", "returned"}
        /\ code = 1 => Started = {}
        /\ failed = "nothing" => fds = {}
        /\ fds \subseteq {<< loops + 1, kind >> : kind \in {"wakeup", "epoll"}}
        /\ << loops + 1, "epoll" >> \in fds => failed = "events"

(* The loops of one server do not keep each other from the port that the settings
   name, and the first that listens there holds it for the others: none of them
   finds it in use, whatever other processes bind and close in the meantime.  bind
   may fail them for other reasons. *)
LoopsShareThePort ==
    pc = "build" /\ step = "bind" /\ Port # 0 /\ loops > 0 => ~ InUse(Port)

(* After the first signal the process ends, wherever main is and whether or not
   the threads have come to run() yet (main.cpp:77-87). *)
ShutdownCompletes == stopping ~> ~ Up
=============================================================================
