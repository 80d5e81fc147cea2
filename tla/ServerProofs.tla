---------------------------- MODULE ServerProofs ----------------------------
(***************************************************************************)
(* For any number of loops, any descriptor limit, any settings and any     *)
(* failure: the threads never lose their loops, main leaves nothing open,  *)
(* each loop lives as LoopLife says, and the last setting wins.            *)
(***************************************************************************)
EXTENDS Server, FiniteSetTheorems, SequenceTheorems, NaturalsInduction,
        WellFoundedInduction, TLAPS

Steps == {"socket", "options", "bind", "listen", "eventfd", "epoll", "events", "timerfd",
          "body"}

NoLoop == loops = 0 /\ fds = {} /\ DOMAIN bound = {} /\ step = "socket"

(* What TypeOK leaves out. *)
ServerTyped ==
    /\ TypeOK
    /\ IsFiniteSet(fds)
    /\ step \in Steps
    /\ sharing \subseteq Loops
    /\ stopping \in BOOLEAN
    /\ pc = "config" => files \in FileSystems /\ NoLoop

(* A failure is the end, and comes before the first thread. *)
FailuresEnd ==
    /\ failed # "nothing" => pc = "exit"
    /\ code = 1 => pc = "exit" /\ Started = {}
    /\ pc \in {"config", "build"} => Started = {}

(* Until their destruction begins, the loops that were built are whole; what
   main leaves behind when it returns are the ints of one object half made. *)
LoopsWhole ==
    /\ pc \notin {"destroy", "exit", "terminated"} => \A l \in 1 .. loops : Of(l) \subseteq fds
    /\ pc = "exit" =>
         /\ failed = "nothing" => fds = {}
         /\ fds \subseteq {<< loops + 1, kind >> : kind \in {"wakeup", "epoll"}}
         /\ << loops + 1, "epoll" >> \in fds => failed = "events"

(* A thread that has not returned runs a loop that was built and is not being
   destroyed. *)
ThreadsHaveLoops ==
    \A l \in Loops :
        thread[l] \in {"created", "running"} => l \in 1 .. loops /\ pc \notin {"destroy", "exit"}

(* Every listener that is bound shares its port, and so does the next one. *)
ListenersShare ==
    /\ DOMAIN bound \subseteq sharing
    /\ pc = "build" /\ step = "bind" => Coming \in sharing

(* The loops that are built, and the next one after bind, have the port of the
   settings if that is one, and no other process has it once a loop listens. *)
PortsHeld ==
    pc = "build" =>
        /\ 1 .. loops \subseteq DOMAIN bound
        /\ step \notin {"socket", "options", "bind"} => Coming \in DOMAIN bound
        /\ Port # 0 => \A l \in DOMAIN bound : bound[l] = Port
        /\ \A l \in Listening : bound[l] \notin foreign

ServerInv ==
    /\ ServerTyped
    /\ FailuresEnd
    /\ LoopsWhole
    /\ ThreadsHaveLoops
    /\ ListenersShare
    /\ PortsHeld

-----------------------------------------------------------------------------
(* There are settings, so that the assumptions leave no room for an empty int. *)
LEMMA SpansArePositive == IntSpan \in Nat \ {0} /\ Fields # {}
<1>1. "port" \in Fields
  BY ServerAssumption
<1>2. Default["port"] \in Int32
  BY <1>1, ConfigAssumption
<1>3. IntSpan # 0
  BY <1>2, ConfigAssumption DEF Int32
<1> QED BY <1>1, <1>3, ConfigAssumption

(* The two halves of the range of an int are equal. *)
LEMMA HalfOfEven ==
    ASSUME NEW n \in Nat \ {0}, n % 2 = 0
    PROVE  n \div 2 \in Nat /\ n = 2 * (n \div 2)
OBVIOUS

(* An int holds every number after the conversion that an assignment does. *)
LEMMA ToIntFits == ASSUME NEW n \in Int PROVE ToInt(n) \in Int32
<1> DEFINE h == IntSpan \div 2
           r == (n + h) % IntSpan
<1>1. h \in Nat /\ IntSpan = 2 * h /\ IntSpan \in Nat \ {0}
  BY SpansArePositive, HalfOfEven, ConfigAssumption
<1>2. n + h \in Int
  BY <1>1
<1> HIDE DEF h
<1>3. r \in 0 .. IntSpan - 1
  BY <1>1, <1>2
<1> HIDE DEF r
<1>4. r - h \in -h .. h - 1
  BY <1>1, <1>3
<1> QED BY <1>4 DEF ToInt, Int32, r, h

(* As many descriptors as loops: the loops that are whole fit the limit. *)
LEMMA LoopsFit ==
    ASSUME IsFiniteSet(fds), Cardinality(fds) <= FdLimit, NEW n \in Nat,
           \A l \in 1 .. n : Of(l) \subseteq fds
    PROVE  n <= FdLimit
<1> DEFINE f == [l \in 1 .. n |-> << l, "listener" >>]
<1>1. \A l \in 1 .. n : << l, "listener" >> \in fds
  BY DEF Of, Kinds
<1>2. f \in Injection(1 .. n, fds)
  BY <1>1 DEF Injection, IsInjective
<1>3. Cardinality(1 .. n) <= Cardinality(fds)
  BY <1>2, FS_Injection
<1>4. Cardinality(1 .. n) = n
  BY FS_Interval
<1>5. Cardinality(fds) \in Nat
  BY FS_CardinalityType
<1> QED BY <1>3, <1>4, <1>5, ServerAssumption

-----------------------------------------------------------------------------
(* Before config.init nothing is open and no thread is there. *)
LEMMA ServerInit == Init => ServerInv
<1> SUFFICES ASSUME Init PROVE ServerInv
  OBVIOUS
<1>1. fields \in [Fields -> Int32] /\ files \in FileSystems
  BY ConfigAssumption DEF Init, ConfigInit
<1>2. NoLoop
  BY DEF Init, NoLoop
<1>3. IsFiniteSet(fds) /\ Cardinality(fds) = 0
  BY FS_EmptySet DEF Init
<1>4. TypeOK
  BY <1>1, <1>3, ServerAssumption DEF Init, TypeOK
<1>5. ServerTyped
  BY <1>1, <1>2, <1>3, <1>4 DEF Init, ServerTyped, Steps
<1>6. Started = {}
  BY DEF Init, Started
<1> QED
  BY <1>5, <1>6, ServerAssumption
  DEF Init, ServerInv, FailuresEnd, LoopsWhole, ThreadsHaveLoops, ListenersShare, PortsHeld

(* No part of init leaves a setting that is not an int. *)
LEMMA SettingsStayInts ==
    ASSUME fields \in [Fields -> Int32], files \in FileSystems, ConfigStep
    PROVE  fields' \in [Fields -> Int32] /\ files' = files
<1>1. CASE FindPath
  BY <1>1 DEF FindPath
<1>2. CASE LoadFromFile
  <2>1. files' = files
    BY <1>2 DEF LoadFromFile
  <2>2. CASE fields' = fields
    BY <2>1, <2>2
  <2>3. CASE fields' # fields
    <3> DEFINE content == files[config_path]
    <3>1. config_path \in DOMAIN files
      BY <1>2, <2>3 DEF LoadFromFile
    <3>2. fields' = [f \in Fields |-> IF Says(content, f) THEN ToInt(content.items[f].n)
                                      ELSE fields[f]]
      BY <1>2, <2>3 DEF LoadFromFile, Throw
    <3>3. \A f \in Fields : Says(content, f) => ToInt(content.items[f].n) \in Int32
      BY <3>1, ConfigAssumption, ToIntFits DEF Says
    <3> QED BY <2>1, <3>2, <3>3
  <2> QED BY <2>2, <2>3
<1>3. CASE ParseArgument
  <2>1. CASE ParseOther
    BY <2>1 DEF ParseOther, Advance
  <2>2. ASSUME NEW f \in Fields, ParseField(f)
        PROVE  fields' \in [Fields -> Int32] /\ files' = files
    BY <2>2, ConfigAssumption DEF ParseField, Throw, Advance
  <2> QED BY <1>3, <2>1, <2>2 DEF ParseArgument
<1>4. CASE EndParse
  BY <1>4 DEF EndParse
<1> QED BY <1>1, <1>2, <1>3, <1>4 DEF ConfigStep

(* Nothing is built while the settings are read. *)
LEMMA ConfigurationStep ==
    ASSUME ServerInv, ReadConfig \/ UseConfig
    PROVE  ServerInv'
<1> USE DEF ServerInv
<1>1. CASE ReadConfig
  <2>1. /\ pc = "config" /\ pc' \in {"config", "terminated"} /\ ConfigStep
        /\ UNCHANGED << step, loops, fds, sharing, bound, foreign, thread, running_, stopping,
                        failed, code >>
    BY <1>1 DEF ReadConfig
  <2>2. NoLoop /\ files \in FileSystems /\ fields \in [Fields -> Int32]
    BY <2>1 DEF ServerTyped, TypeOK
  <2>3. fields' \in [Fields -> Int32] /\ files' = files
    BY <2>1, <2>2, SettingsStayInts
  <2>4. NoLoop'
    BY <2>1, <2>2 DEF NoLoop
  <2>5. ServerTyped'
    BY <2>1, <2>2, <2>3, <2>4 DEF ServerTyped, TypeOK
  <2>6. FailuresEnd' /\ failed = "nothing"
    BY <2>1 DEF FailuresEnd, Started
  <2>7. LoopsWhole' /\ ThreadsHaveLoops'
    BY <2>1, <2>2 DEF LoopsWhole, ThreadsHaveLoops, Of, NoLoop
  <2>8. ListenersShare' /\ PortsHeld'
    BY <2>1, <2>2 DEF ListenersShare, PortsHeld, NoLoop
  <2> QED BY <2>5, <2>6, <2>7, <2>8
<1>2. CASE UseConfig
  <2>1. /\ pc = "config" /\ pc' \in {"exit", "build"}
        /\ UNCHANGED << fields, step, loops, fds, sharing, bound, foreign, thread, running_,
                        stopping, failed, code >>
    BY <1>2 DEF UseConfig
  <2>2. NoLoop
    BY <2>1 DEF ServerTyped
  <2>3. ServerTyped'
    BY <2>1, <2>2 DEF ServerTyped, TypeOK
  <2>4. FailuresEnd' /\ failed = "nothing" /\ Started = {}
    BY <2>1 DEF FailuresEnd, Started
  <2>5. LoopsWhole'
    BY <2>1, <2>2, <2>4 DEF LoopsWhole, Of, NoLoop
  <2>6. ThreadsHaveLoops'
    BY <2>1, <2>4 DEF ThreadsHaveLoops, Started
  <2>7. ListenersShare' /\ PortsHeld'
    BY <2>1, <2>2 DEF ListenersShare, PortsHeld, Listening, NoLoop
  <2> QED BY <2>3, <2>4, <2>5, <2>6, <2>7
<1> QED BY <1>1, <1>2

-----------------------------------------------------------------------------
(* While a loop is being built, the whole loops and the next one are loops. *)
LEMMA BuildFacts ==
    ASSUME ServerInv, pc = "build"
    PROVE  /\ loops \in Nat /\ loops <= FdLimit /\ Coming \in Loops
           /\ failed = "nothing" /\ code = 0
           /\ \A l \in Loops : thread[l] = "none"
           /\ Cardinality(fds) \in Nat
<1>1. \A l \in 1 .. loops : Of(l) \subseteq fds
  BY DEF ServerInv, LoopsWhole
<1>2. loops \in Nat /\ loops <= FdLimit
  BY ServerAssumption DEF ServerInv, ServerTyped, TypeOK
<1>3. Coming \in Loops
  BY <1>2, ServerAssumption DEF Coming, Loops
<1>4. failed = "nothing" /\ code = 0 /\ Started = {}
  BY DEF ServerInv, FailuresEnd, ServerTyped, TypeOK
<1>5. \A l \in Loops : thread[l] = "none"
  BY <1>4 DEF Started
<1>6. Cardinality(fds) \in Nat
  BY FS_CardinalityType DEF ServerInv, ServerTyped
<1> QED BY <1>2, <1>3, <1>4, <1>5, <1>6

(* A constructor throws: of its descriptors only unowned ints stay open. *)
LEMMA BuildFailsKeeps == ASSUME ServerInv, BuildFails PROVE ServerInv'
<1>1. /\ pc = "build" /\ pc' = "exit" /\ code' = 1 /\ failed' = step /\ fds' = Unwound
      /\ DOMAIN bound' = {}
      /\ UNCHANGED << fields, step, loops, sharing, foreign, thread, running_, stopping >>
  BY DEF BuildFails, configVars
<1>2. /\ loops \in Nat /\ loops <= FdLimit /\ Coming \in Loops
      /\ \A l \in Loops : thread[l] = "none"
      /\ Cardinality(fds) \in Nat
  BY <1>1, BuildFacts
<1>3. /\ fds' \subseteq fds
      /\ fds' \subseteq {<< loops + 1, kind >> : kind \in {"wakeup", "epoll"}}
      /\ << loops + 1, "epoll" >> \in fds' => step = "events"
  BY <1>1 DEF Unwound, Unowned, Coming
<1>4. IsFiniteSet(fds') /\ Cardinality(fds') <= Cardinality(fds) /\ Cardinality(fds') \in Nat
  BY <1>3, FS_Subset, FS_CardinalityType DEF ServerInv, ServerTyped
<1>5. ServerTyped'
  BY <1>1, <1>2, <1>3, <1>4, ServerAssumption DEF ServerInv, ServerTyped, TypeOK
<1>6. FailuresEnd'
  BY <1>1, <1>2 DEF FailuresEnd, Started
<1>7. failed' # "nothing"
  BY <1>1 DEF ServerInv, ServerTyped, Steps
<1>8. LoopsWhole' /\ ThreadsHaveLoops'
  BY <1>1, <1>2, <1>3, <1>7 DEF LoopsWhole, ThreadsHaveLoops
<1>9. ListenersShare'
  BY <1>1 DEF ListenersShare
<1>10. PortsHeld'
  BY <1>1 DEF PortsHeld
<1> QED BY <1>5, <1>6, <1>8, <1>9, <1>10 DEF ServerInv

(* The constructor goes one call further; Reach leaves main, the loops and the
   threads alone. *)
LEMMA ReachKeeps ==
    ASSUME ServerInv, NEW there \in Steps, pc = "build", Reach(there),
           fds' = fds \/ \E kind \in Kinds : Open(kind),
           sharing \subseteq sharing', sharing' \subseteq sharing \cup {Coming},
           DOMAIN bound' \subseteq sharing',
           there = "bind" => Coming \in sharing',
           PortsHeld'
    PROVE  ServerInv'
<1>1. /\ pc' = "build" /\ step' = there
      /\ UNCHANGED << fields, loops, foreign, thread, running_, stopping, failed, code, pc >>
  BY DEF Reach, configVars
<1>2. /\ loops \in Nat /\ loops <= FdLimit /\ Coming \in Loops
      /\ failed = "nothing" /\ code = 0
      /\ \A l \in Loops : thread[l] = "none"
      /\ Cardinality(fds) \in Nat
  BY BuildFacts
<1>3. /\ IsFiniteSet(fds') /\ Cardinality(fds') <= FdLimit
      /\ fds \subseteq fds' /\ fds' \subseteq (1 .. FdLimit + 1) \X Kinds
  <2>1. CASE fds' = fds
    BY <2>1 DEF ServerInv, ServerTyped, TypeOK
  <2>2. ASSUME NEW kind \in Kinds, Open(kind)
        PROVE  <1>3
    <3>1. Cardinality(fds) < FdLimit /\ fds' = fds \cup {<< Coming, kind >>}
      BY <2>2 DEF Open
    <3>2. IsFiniteSet(fds') /\ Cardinality(fds') <= Cardinality(fds) + 1
      <4>1. IsFiniteSet(fds)
        BY DEF ServerInv, ServerTyped
      <4>2. /\ IsFiniteSet(fds')
            /\ Cardinality(fds') = IF << Coming, kind >> \in fds
                                   THEN Cardinality(fds) ELSE Cardinality(fds) + 1
        BY <3>1, <4>1, FS_AddElement
      <4> QED BY <1>2, <4>2
    <3>3. Cardinality(fds') \in Nat
      BY <3>2, FS_CardinalityType
    <3>4. << Coming, kind >> \in (1 .. FdLimit + 1) \X Kinds
      BY <1>2 DEF Loops
    <3> QED BY <1>2, <3>1, <3>2, <3>3, <3>4, ServerAssumption DEF ServerInv, ServerTyped, TypeOK
  <2> QED BY <2>1, <2>2
<1>4. sharing' \subseteq Loops
  BY <1>2 DEF ServerInv, ServerTyped
<1>5. ServerTyped'
  BY <1>1, <1>2, <1>3, <1>4 DEF ServerInv, ServerTyped, TypeOK
<1>6. FailuresEnd'
  BY <1>1, <1>2 DEF FailuresEnd, Started
<1>7. LoopsWhole' /\ ThreadsHaveLoops'
  BY <1>1, <1>2, <1>3 DEF ServerInv, LoopsWhole, ThreadsHaveLoops, Of
<1>8. ListenersShare'
  BY <1>1 DEF ListenersShare, Coming
<1> QED BY <1>5, <1>6, <1>7, <1>8 DEF ServerInv

(* Each call of the constructor, and its end: a loop more that is whole. *)
LEMMA BuildStep == ASSUME ServerInv, BuildLoop PROVE ServerInv'
<1>0. pc = "build"
  BY DEF BuildLoop, CreateSocket, SetOptions, Bind, Listen, CreateEventfd, CreateEpoll,
         ResizeEvents, CreateTimerfd, TryOpen, FinishLoop, At
<1>f. ASSUME BuildFails PROVE ServerInv'
  BY <1>f, BuildFailsKeeps
(* A call that does not touch the ports. *)
<1>r. ASSUME NEW there \in Steps \ {"bind"}, Reach(there), UNCHANGED << sharing, bound >>,
             fds' = fds \/ \E kind \in Kinds : Open(kind),
             there \notin {"socket", "options"} => Coming \in DOMAIN bound,
             step # "listen" \/ bound[Coming] \notin foreign
      PROVE  ServerInv'
  <2>1. PortsHeld'
    <3>1. /\ step' = there /\ Coming' = Coming /\ Port' = Port
          /\ UNCHANGED << pc, loops, bound, foreign >>
      BY <1>r DEF Coming, Port, Reach, configVars
    <3>2. ASSUME NEW l \in DOMAIN bound PROVE l \in Listening \/ bound[l] \notin foreign
      BY <1>r, <3>2 DEF Listening
    <3>3. \A l \in DOMAIN bound : bound[l] \notin foreign
      BY <1>0, <3>2 DEF ServerInv, PortsHeld
    <3> QED BY <1>0, <1>r, <3>1, <3>3 DEF ServerInv, PortsHeld, Listening
  <2>2. DOMAIN bound' \subseteq sharing'
    BY <1>r DEF ServerInv, ListenersShare
  <2> QED BY <1>0, <1>r, <2>1, <2>2, ReachKeeps
<1>b. step \notin {"socket", "options", "bind"} => Coming \in DOMAIN bound
  BY <1>0 DEF ServerInv, PortsHeld
<1>1. CASE CreateSocket
  BY <1>1, <1>f, <1>r DEF CreateSocket, At, Steps, Kinds
<1>2. CASE SetOptions
  <2>1. step = "options"
    BY <1>2 DEF SetOptions, At
  <2>2. CASE sharing' = sharing \cup {Coming} /\ Reach("bind") /\ UNCHANGED << fds, bound >>
    <3>1. PortsHeld'
      BY <1>0, <2>1, <2>2 DEF ServerInv, PortsHeld, Listening, Coming, Port, Reach, configVars
    <3>2. DOMAIN bound' \subseteq sharing'
      BY <2>2 DEF ServerInv, ListenersShare
    <3> QED BY <1>0, <2>2, <3>1, <3>2, ReachKeeps DEF Steps
  <2> QED BY <1>2, <1>f, <2>1, <2>2 DEF SetOptions
<1>3. CASE Bind
  <2>0. step = "bind"
    BY <1>3 DEF Bind, At
  <2>1. Coming \in sharing /\ DOMAIN bound \subseteq sharing
    BY <1>0, <2>0 DEF ServerInv, ListenersShare
  <2>2. ASSUME NEW p \in Bindable,
               bound' = [l \in DOMAIN bound \cup {Coming} |-> IF l = Coming THEN p ELSE bound[l]],
               Reach("listen"), UNCHANGED << fds, sharing >>
        PROVE  ServerInv'
    <3>1. DOMAIN bound' = DOMAIN bound \cup {Coming}
      BY <2>2
    <3>2. /\ step' = "listen" /\ Coming' = Coming /\ Port' = Port
          /\ UNCHANGED << pc, loops, foreign >>
      BY <2>2 DEF Coming, Port, Reach, configVars
    <3>3. Port # 0 => \A l \in DOMAIN bound' : bound'[l] = Port
      <4>1. Port # 0 => p = Port
        BY <2>2 DEF Bindable
      <4>2. Port # 0 => \A l \in DOMAIN bound : bound[l] = Port
        BY <1>0 DEF ServerInv, PortsHeld
      <4> QED BY <2>2, <3>1, <4>1, <4>2
    <3>4. ASSUME NEW l \in Listening' PROVE bound'[l] \notin foreign
      <4>1. l \in DOMAIN bound /\ l # Coming
        BY <3>1, <3>2, <3>4 DEF Listening
      <4>2. l \in Listening
        BY <2>0, <4>1 DEF Listening
      <4>3. bound'[l] = bound[l]
        BY <2>2, <4>1
      <4> QED BY <1>0, <4>2, <4>3 DEF ServerInv, PortsHeld
    <3>5. PortsHeld'
      BY <1>0, <3>1, <3>2, <3>3, <3>4 DEF ServerInv, PortsHeld
    <3> QED BY <1>0, <2>1, <2>2, <3>1, <3>5, ReachKeeps DEF Steps
  <2> QED BY <1>3, <1>f, <2>2 DEF Bind
<1>4. CASE Listen
  BY <1>4, <1>b, <1>f, <1>r DEF Listen, At, Steps
<1>5. CASE CreateEventfd
  BY <1>5, <1>b, <1>r DEF CreateEventfd, TryOpen, At, Steps, Kinds
<1>6. CASE CreateEpoll
  BY <1>6, <1>b, <1>f, <1>r DEF CreateEpoll, At, Steps, Kinds
<1>7. CASE ResizeEvents
  BY <1>7, <1>b, <1>f, <1>r DEF ResizeEvents, At, Steps
<1>8. CASE CreateTimerfd
  BY <1>8, <1>b, <1>r DEF CreateTimerfd, TryOpen, At, Steps, Kinds
<1>9. CASE FinishLoop
  <2>1. CASE BuildFails
    BY <1>9, <1>f, <2>1 DEF FinishLoop, At
  <2>2. CASE ~ BuildFails
    <3>1. /\ Of(Coming) \subseteq fds
          /\ loops' = loops + 1 /\ step' = "socket"
          /\ UNCHANGED << fields, pc, fds, sharing, bound, foreign, thread, running_, stopping,
                          failed, code >>
      BY <1>9, <2>2 DEF FinishLoop, configVars
    <3>2. /\ loops \in Nat /\ failed = "nothing" /\ code = 0
          /\ \A l \in Loops : thread[l] = "none"
      BY <1>0, BuildFacts
    <3>3. \A l \in 1 .. loops + 1 : Of(l) \subseteq fds
      <4>1. \A l \in 1 .. loops : Of(l) \subseteq fds
        BY <1>0 DEF ServerInv, LoopsWhole
      <4> QED BY <3>1, <3>2, <4>1 DEF Coming
    <3>4. loops' \in 0 .. FdLimit
      BY <3>1, <3>2, <3>3, LoopsFit, ServerAssumption DEF ServerInv, ServerTyped, TypeOK
    <3>5. ServerTyped'
      BY <1>0, <3>1, <3>4 DEF ServerInv, ServerTyped, TypeOK, Steps
    <3>6. FailuresEnd'
      BY <1>0, <3>1, <3>2 DEF FailuresEnd, Started
    <3>7. LoopsWhole' /\ ThreadsHaveLoops'
      BY <1>0, <3>1, <3>2, <3>3 DEF LoopsWhole, ThreadsHaveLoops, Of
    <3>8. ListenersShare'
      BY <3>1 DEF ServerInv, ListenersShare
    <3>9. PortsHeld'
      <4>1. step = "body" /\ Coming \in DOMAIN bound /\ 1 .. loops \subseteq DOMAIN bound
        BY <1>0, <1>9, <1>b DEF FinishLoop, At, ServerInv, PortsHeld
      <4>2. 1 .. loops' \subseteq DOMAIN bound'
        BY <3>1, <3>2, <4>1 DEF Coming
      <4>3. Listening' = DOMAIN bound /\ Listening = DOMAIN bound
        BY <3>1, <4>1 DEF Listening
      <4>4. Port' = Port
        BY <3>1 DEF Port
      <4> QED BY <1>0, <3>1, <4>2, <4>3, <4>4 DEF ServerInv, PortsHeld
    <3> QED BY <3>5, <3>6, <3>7, <3>8, <3>9 DEF ServerInv
  <2> QED BY <2>1, <2>2
<1> QED BY <1>1, <1>2, <1>3, <1>4, <1>5, <1>6, <1>7, <1>8, <1>9 DEF BuildLoop

-----------------------------------------------------------------------------
(* Where main is when it moves on without an effect on loops or threads. *)
LEMMA MoveKeeps ==
    ASSUME ServerInv, NEW there \in {"start", "serve", "stop", "join", "terminated"},
           pc \in {"build", "start", "serve", "stop"}, Move(there),
           UNCHANGED << fds, bound, thread, code >>, running_' \in [Loops -> BOOLEAN]
    PROVE  ServerInv'
<1>1. /\ pc' = there
      /\ UNCHANGED << fields, step, loops, sharing, foreign, stopping, failed >>
  BY DEF Move, configVars
<1>2. ServerTyped'
  BY <1>1 DEF ServerInv, ServerTyped, TypeOK
<1>3. FailuresEnd'
  BY <1>1 DEF ServerInv, FailuresEnd, Started
<1>4. LoopsWhole' /\ ThreadsHaveLoops'
  BY <1>1 DEF ServerInv, LoopsWhole, ThreadsHaveLoops, Of
<1>5. ListenersShare' /\ PortsHeld'
  BY <1>1 DEF ServerInv, ListenersShare, PortsHeld
<1> QED BY <1>2, <1>3, <1>4, <1>5 DEF ServerInv

(* A thread is created for a loop that is there, or its creation fails: for the
   first one before there is any thread, later with the end of the process. *)
LEMMA StartThreadKeeps == ASSUME ServerInv, StartThread PROVE ServerInv'
<1> DEFINE next == Cardinality(Started) + 1
<1>0. pc = "start" /\ UNCHANGED running_
  BY DEF StartThread
<1>1. Cardinality(Started) \in Nat /\ (Cardinality(Started) = 0 <=> Started = {})
  <2>1. IsFiniteSet(Loops)
    BY FS_Interval, ServerAssumption DEF Loops
  <2>2. IsFiniteSet(Started)
    BY <2>1, FS_Subset DEF Started
  <2> QED BY <2>2, FS_CardinalityType, FS_EmptySet
<1>2. /\ running_ \in [Loops -> BOOLEAN] /\ loops \in 0 .. FdLimit
      /\ thread \in [Loops -> {"none", "created", "running", "returned"}]
      /\ failed = "nothing" /\ code = 0
  BY <1>0 DEF ServerInv, ServerTyped, TypeOK, FailuresEnd
<1>3. CASE next > loops
  BY <1>0, <1>2, <1>3, MoveKeeps DEF StartThread
<1>4. CASE ~ (next > loops)
  <2>1. CASE thread' = [thread EXCEPT ![next] = "created"] /\ Move("start")
             /\ UNCHANGED << fds, bound, code >>
    <3>1. next \in 1 .. loops /\ next \in Loops
      BY <1>1, <1>2, <1>4, ServerAssumption DEF Loops
    <3>2. /\ pc' = "start"
          /\ UNCHANGED << fields, step, loops, sharing, foreign, stopping, failed >>
      BY <2>1 DEF Move, configVars
    <3> HIDE DEF next
    <3>3. ServerTyped'
      BY <1>0, <2>1, <3>2 DEF ServerInv, ServerTyped, TypeOK
    <3>4. FailuresEnd'
      BY <1>2, <2>1, <3>2 DEF FailuresEnd
    <3>5. LoopsWhole'
      BY <1>0, <2>1, <3>2 DEF ServerInv, LoopsWhole, Of
    <3>6. ThreadsHaveLoops'
      BY <1>2, <2>1, <3>1, <3>2 DEF ServerInv, ThreadsHaveLoops
    <3>7. ListenersShare' /\ PortsHeld'
      BY <2>1, <3>2 DEF ServerInv, ListenersShare, PortsHeld
    <3> QED BY <3>3, <3>4, <3>5, <3>6, <3>7 DEF ServerInv
  <2>2. CASE /\ next = 1
             /\ fds' = {} /\ bound' = [l \in {} |-> 0]
             /\ code' = 1
             /\ Move("exit")
             /\ UNCHANGED thread
    <3>1. /\ pc' = "exit" /\ fds' = {} /\ DOMAIN bound' = {} /\ code' = 1
          /\ UNCHANGED << fields, step, loops, sharing, foreign, thread, stopping, failed >>
      BY <2>2 DEF Move, configVars
    <3>2. Started = {} /\ Started' = {}
      BY <1>1, <2>2, <3>1 DEF Started
    <3>3. IsFiniteSet(fds') /\ Cardinality(fds') = 0
      BY <3>1, FS_EmptySet
    <3>4. ServerTyped'
      BY <1>0, <1>2, <3>1, <3>3, ServerAssumption DEF ServerInv, ServerTyped, TypeOK
    <3>5. FailuresEnd' /\ ThreadsHaveLoops'
      BY <3>1, <3>2 DEF FailuresEnd, ThreadsHaveLoops, Started
    <3>6. LoopsWhole'
      BY <3>1 DEF LoopsWhole
    <3>7. ListenersShare' /\ PortsHeld'
      BY <3>1 DEF ServerInv, ListenersShare, PortsHeld
    <3> QED BY <3>4, <3>5, <3>6, <3>7 DEF ServerInv
  <2>3. CASE Move("terminated") /\ UNCHANGED << fds, bound, thread, code >>
    BY <1>0, <1>2, <2>3, MoveKeeps
  <2> QED BY <1>4, <2>1, <2>2, <2>3 DEF StartThread
<1> QED BY <1>1, <1>2, <1>3, <1>4

(* Loops are destroyed when no thread is left. *)
LEMMA JoinAndDestroyKeep == ASSUME ServerInv, JoinThreads \/ DestroyLoop PROVE ServerInv'
<1> DEFINE left == {l \in Loops : Of(l) \cap fds # {}}
<1>1. /\ pc \in {"join", "destroy"} /\ pc' \in {"destroy", "exit"}
      /\ fds' \subseteq fds /\ DOMAIN bound' \subseteq DOMAIN bound
      /\ \A l \in DOMAIN bound' : bound'[l] = bound[l]
      /\ UNCHANGED << fields, step, loops, sharing, foreign, thread, running_, stopping, failed,
                      code >>
  BY DEF JoinThreads, DestroyLoop, Move, configVars
<1>2. \A l \in Loops : thread[l] \in {"none", "returned"}
  <2>1. thread \in [Loops -> {"none", "created", "running", "returned"}]
    BY DEF ServerInv, ServerTyped, TypeOK
  <2>2. CASE JoinThreads
    BY <2>1, <2>2 DEF JoinThreads, Started
  <2>3. CASE DestroyLoop
    BY <2>1, <2>3 DEF DestroyLoop, ServerInv, ThreadsHaveLoops
  <2> QED BY <2>2, <2>3
<1>3. pc' = "exit" => fds' = {}
  <2>1. ASSUME pc' = "exit" PROVE left = {} /\ fds' = fds
    BY <2>1 DEF JoinThreads, DestroyLoop, Move
  <2>2. ASSUME NEW d \in fds PROVE \E l \in Loops : d \in Of(l)
    <3>1. d \in (1 .. FdLimit + 1) \X Kinds
      BY DEF ServerInv, ServerTyped, TypeOK
    <3> QED BY <3>1 DEF Of, Loops
  <2> QED BY <2>1, <2>2
<1>4. IsFiniteSet(fds') /\ Cardinality(fds') <= FdLimit
  <2>1. IsFiniteSet(fds) /\ Cardinality(fds) <= FdLimit
    BY DEF ServerInv, ServerTyped, TypeOK
  <2>2. IsFiniteSet(fds') /\ Cardinality(fds') <= Cardinality(fds)
    BY <1>1, <2>1, FS_Subset
  <2>3. Cardinality(fds) \in Nat /\ Cardinality(fds') \in Nat
    BY <2>1, <2>2, FS_CardinalityType
  <2> QED BY <2>1, <2>2, <2>3, ServerAssumption
<1>5. ServerTyped'
  BY <1>1, <1>4 DEF ServerInv, ServerTyped, TypeOK
<1>6. FailuresEnd'
  BY <1>1 DEF ServerInv, FailuresEnd, Started, ServerTyped, TypeOK
<1>7. LoopsWhole'
  BY <1>1, <1>3 DEF LoopsWhole
<1>8. ThreadsHaveLoops'
  BY <1>1, <1>2 DEF ThreadsHaveLoops
<1>9. ListenersShare' /\ PortsHeld'
  BY <1>1 DEF ServerInv, ListenersShare, PortsHeld
<1> QED BY <1>5, <1>6, <1>7, <1>8, <1>9 DEF ServerInv

(* Threads only go on to run() and out of it; a signal only sets its flag. *)
LEMMA ThreadOrSignalKeeps ==
    ASSUME ServerInv, Signal \/ \E l \in Loops : ThreadStep(l) \/ RunThrows(l)
    PROVE  ServerInv'
<1>1. /\ UNCHANGED << files, fields, step, loops, fds, sharing, bound, foreign, running_, failed,
                      code >>
      /\ pc # "exit" /\ pc' \in {pc, "terminated"}
  BY DEF Signal, ThreadStep, EnterRun, LeaveRun, RunThrows, SetThread, Up, configVars
<1>2. stopping' \in BOOLEAN
  BY DEF ServerInv, ServerTyped, Signal, ThreadStep, EnterRun, LeaveRun, RunThrows
<1>3. /\ thread' \in [Loops -> {"none", "created", "running", "returned"}]
      /\ \A l \in Loops : /\ thread'[l] = "none" <=> thread[l] = "none"
                          /\ thread'[l] \in {"created", "running"} =>
                               thread[l] \in {"created", "running"}
  <2>1. thread \in [Loops -> {"none", "created", "running", "returned"}]
    BY DEF ServerInv, ServerTyped, TypeOK
  <2>2. CASE UNCHANGED thread
    BY <2>1, <2>2
  <2>3. ASSUME NEW l \in Loops, ThreadStep(l) PROVE <1>3
    BY <2>1, <2>3 DEF ThreadStep, EnterRun, LeaveRun, SetThread
  <2> QED BY <2>2, <2>3 DEF Signal, RunThrows
<1>4. ServerTyped'
  BY <1>1, <1>2, <1>3 DEF ServerInv, ServerTyped, TypeOK, NoLoop
<1>5. FailuresEnd'
  <2>1. Started' = Started
    BY <1>3 DEF Started
  <2> QED BY <1>1, <2>1 DEF ServerInv, FailuresEnd
<1>6. LoopsWhole'
  BY <1>1 DEF ServerInv, LoopsWhole, Of
<1>7. ThreadsHaveLoops'
  BY <1>1, <1>3 DEF ServerInv, ThreadsHaveLoops
<1>8. ListenersShare' /\ PortsHeld'
  BY <1>1 DEF ServerInv, ListenersShare, PortsHeld, Listening, Port, Coming
<1> QED BY <1>4, <1>5, <1>6, <1>7, <1>8 DEF ServerInv

(* No other process takes a port at which one of the loops listens. *)
LEMMA OthersKeep == ASSUME ServerInv, OthersBind \/ OthersClose PROVE ServerInv'
<1>1. PICK ports : Others(ports)
  BY DEF OthersBind, OthersClose
<1>2. /\ pc = "build"
      /\ UNCHANGED << files, fields, pc, step, loops, fds, sharing, bound, thread, running_,
                      stopping, failed, code >>
  BY <1>1 DEF Others, configVars
<1>3. foreign' \subseteq OtherPorts /\ \A l \in Listening : bound[l] \notin foreign'
  <2>1. foreign \subseteq OtherPorts /\ \A l \in Listening : bound[l] \notin foreign
    BY <1>2 DEF ServerInv, ServerTyped, TypeOK, PortsHeld
  <2>2. CASE OthersBind
    <3>1. PICK p \in OtherPorts : (\A l \in Listening : bound[l] # p) /\ foreign' = foreign \cup {p}
      BY <2>2 DEF OthersBind, Others
    <3> QED BY <2>1, <3>1
  <2>3. CASE OthersClose
    BY <2>1, <2>3 DEF OthersClose, Others
  <2> QED BY <2>2, <2>3
<1>4. ServerTyped'
  BY <1>3, <1>2 DEF ServerInv, ServerTyped, TypeOK, NoLoop
<1>5. FailuresEnd' /\ LoopsWhole' /\ ThreadsHaveLoops' /\ ListenersShare'
  BY <1>2 DEF ServerInv, FailuresEnd, Started, LoopsWhole, Of, ThreadsHaveLoops, ListenersShare,
              Coming
<1>6. PortsHeld'
  <2>1. Listening' = Listening /\ Coming' = Coming /\ Port' = Port
    BY <1>2 DEF Listening, Coming, Port
  <2> QED BY <1>3, <1>2, <2>1 DEF ServerInv, PortsHeld
<1> QED BY <1>4, <1>5, <1>6 DEF ServerInv

(* The invariant is inductive: one step for each group of actions of Next. *)
LEMMA ServerNext == ServerInv /\ [Next]_vars => ServerInv'
<1> SUFFICES ASSUME ServerInv, [Next]_vars PROVE ServerInv'
  OBVIOUS
<1>1. CASE ReadConfig \/ UseConfig
  BY <1>1, ConfigurationStep
<1>2. CASE BuildLoop
  BY <1>2, BuildStep
<1>3. running_ \in [Loops -> BOOLEAN]
  BY DEF ServerInv, ServerTyped, TypeOK
<1>4. CASE EndBuild \/ SeeSignal \/ StopLoops
  <2>1. running_' \in [Loops -> BOOLEAN]
    BY <1>3, <1>4 DEF EndBuild, SeeSignal, StopLoops
  <2>2. UNCHANGED << fds, bound, thread, code >>
    BY <1>4 DEF EndBuild, SeeSignal, StopLoops
  <2>3. \E there \in {"start", "stop", "join"} : Move(there)
    BY <1>4 DEF EndBuild, SeeSignal, StopLoops
  <2>4. pc \in {"build", "serve", "stop"}
    BY <1>4 DEF EndBuild, SeeSignal, StopLoops
  <2> QED BY <2>1, <2>2, <2>3, <2>4, MoveKeeps
<1>5. CASE StartThread
  BY <1>5, StartThreadKeeps
<1>6. CASE JoinThreads \/ DestroyLoop
  BY <1>6, JoinAndDestroyKeep
<1>7. CASE Signal \/ \E l \in Loops : ThreadStep(l) \/ RunThrows(l)
  BY <1>7, ThreadOrSignalKeeps
<1>8. CASE UNCHANGED vars
  <2>1. UNCHANGED vars
    BY <1>8
  <2> QED
    BY <2>1
    DEF vars, serverVars, configVars, ServerInv, ServerTyped, TypeOK, NoLoop, FailuresEnd, Started,
        LoopsWhole, Of, ThreadsHaveLoops, ListenersShare, PortsHeld, Listening, Port, Coming
<1>9. CASE OthersBind \/ OthersClose
  BY <1>9, OthersKeep
<1> QED BY <1>1, <1>2, <1>4, <1>5, <1>6, <1>7, <1>8, <1>9 DEF Next, MainStep

(* It holds of every state that main can be in. *)
LEMMA ServerInvariant == Spec => []ServerInv
<1> QED BY ServerInit, ServerNext, PTL DEF Spec

-----------------------------------------------------------------------------
(* Every variable of main keeps its type, and neither the loops nor the open
   descriptors exceed the limit of the process. *)
THEOREM ServerTypeOK == Spec => []TypeOK
<1>1. ServerInv => TypeOK
  BY DEF ServerInv, ServerTyped
<1> QED BY <1>1, ServerInvariant, PTL

(* No thread is left running on a loop that is destroyed or was never completed:
   main destroys the loops after the last join, and every failure on the way comes
   before the first thread or ends the process (main.cpp:37-38 and 85-94). *)
THEOREM ServerLoopsOutliveThreads == Spec => []LoopsOutliveThreads
<1>1. ServerInv => LoopsOutliveThreads
  BY DEF ServerInv, LoopsWhole, ThreadsHaveLoops, LoopsOutliveThreads, Up
<1> QED BY <1>1, ServerInvariant, PTL

(* When main returns, no thread runs, and an exit code of 1 means that no thread was
   started.  If no constructor threw, no descriptor is open; if one did, none but the
   eventfd of its loop and, if it was the poller's table of events that could not be
   made (EpollerPoller.cpp:12), the epoll descriptor. *)
THEOREM ServerReturnsClean == Spec => []ReturnsClean
<1>1. ServerInv => ReturnsClean
  BY DEF ServerInv, ServerTyped, TypeOK, FailuresEnd, LoopsWhole, ThreadsHaveLoops, ReturnsClean
<1> QED BY <1>1, ServerInvariant, PTL

(* Once one loop listens at the port of the settings, no other finds it in use when
   it comes to bind, for any number of loops and whatever ports other processes take
   and give back on the way: each listener has SO_REUSEPORT set before it is bound,
   and the kernel keeps from others a port at which one listens. *)
THEOREM ServerLoopsShareThePort == Spec => []LoopsShareThePort
<1>1. ASSUME ServerInv, pc = "build", step = "bind", Port # 0, loops > 0 PROVE ~ InUse(Port)
  <2>1. 1 \in DOMAIN bound /\ bound[1] = Port
    BY <1>1 DEF ServerInv, ServerTyped, TypeOK, PortsHeld
  <2>2. 1 \in Listening
    BY <1>1, <2>1 DEF Listening
  <2>3. Port \notin foreign
    BY <1>1, <2>1, <2>2 DEF ServerInv, PortsHeld
  <2>4. \A l \in DOMAIN bound : {l, Coming} \subseteq sharing
    BY <1>1 DEF ServerInv, ListenersShare
  <2> QED BY <2>3, <2>4 DEF InUse
<1>2. ServerInv => LoopsShareThePort
  BY <1>1 DEF LoopsShareThePort
<1> QED BY <1>2, ServerInvariant, PTL

-----------------------------------------------------------------------------
PhaseOf == [none |-> "fresh", created |-> "fresh", running |-> "running",
            returned |-> "returned"]

Life(l) == INSTANCE LoopLife WITH running <- running_[l], phase <- PhaseOf[thread[l]]

(* main and its threads see in each loop what LoopLife promises, and TaskLoop is
   shown to keep: one thread runs it, once, run() returns only after stop(), and
   stop() is final, also for a thread that comes to run() after it. *)
EachLoopLives ==
    /\ \A l \in Loops : Life(l)!Init
    /\ [][\A l \in Loops : [Life(l)!Next]_(Life(l)!vars)]_<< running_, thread >>

(* Threads are started in the order of their loops, so that none is started
   twice. *)
StartedInOrder == Started = 1 .. Cardinality(Started)

(* There are as many threads at most as loops. *)
LEMMA StartedIsFinite == IsFiniteSet(Started) /\ Cardinality(Started) \in Nat
<1>1. IsFiniteSet(Loops)
  BY FS_Interval, ServerAssumption DEF Loops
<1>2. IsFiniteSet(Started)
  BY <1>1, FS_Subset DEF Started
<1> QED BY <1>2, FS_CardinalityType

(* The only step that changes which threads are started starts the next one. *)
LEMMA OnlyTheNextStarts ==
    ASSUME ServerInv, StartedInOrder, [Next]_vars, Started' # Started
    PROVE  LET next == Cardinality(Started) + 1 IN
           next \in Loops /\ next \notin Started
           /\ thread' = [thread EXCEPT ![next] = "created"] /\ UNCHANGED running_
<1> DEFINE next == Cardinality(Started) + 1
<1>1. thread \in [Loops -> {"none", "created", "running", "returned"}] /\ loops \in 0 .. FdLimit
  BY DEF ServerInv, ServerTyped, TypeOK
<1>2. thread' # thread
  BY DEF Started
<1>3. ~ (\E l \in Loops : ThreadStep(l))
  <2>1. ASSUME NEW l \in Loops, ThreadStep(l) PROVE Started' = Started
    BY <1>1, <2>1 DEF ThreadStep, EnterRun, LeaveRun, SetThread, Started
  <2> QED BY <2>1
<1>4. ~ (ReadConfig \/ UseConfig) /\ ~ BuildLoop
  BY <1>2 DEF ReadConfig, UseConfig, BuildLoop, CreateSocket, SetOptions, Bind, Listen,
              CreateEventfd, CreateEpoll, ResizeEvents, CreateTimerfd, TryOpen, FinishLoop, Reach,
              BuildFails
<1>5. ~ (EndBuild \/ SeeSignal \/ StopLoops \/ JoinThreads \/ DestroyLoop)
  BY <1>2 DEF EndBuild, SeeSignal, StopLoops, JoinThreads, DestroyLoop
<1>6. /\ ~ Signal /\ ~ (OthersBind \/ OthersClose)
      /\ ~ (\E l \in Loops : RunThrows(l)) /\ ~ UNCHANGED vars
  BY <1>2 DEF Signal, OthersBind, OthersClose, Others, RunThrows, vars, serverVars
<1>7. StartThread
  BY <1>3, <1>4, <1>5, <1>6 DEF Next, MainStep
<1>8. next <= loops /\ thread' = [thread EXCEPT ![next] = "created"] /\ UNCHANGED running_
  BY <1>1, <1>2, <1>7, StartedIsFinite DEF StartThread
<1>9. next \in Loops
  BY <1>1, <1>8, StartedIsFinite, ServerAssumption DEF Loops
<1>10. next \notin Started
  BY StartedIsFinite DEF StartedInOrder
<1> QED BY <1>8, <1>9, <1>10

(* The threads that are there stay those of the first loops. *)
LEMMA OrderStays == ASSUME ServerInv, StartedInOrder, [Next]_vars PROVE StartedInOrder'
<1> DEFINE n == Cardinality(Started)
<1>1. CASE Started' = Started
  BY <1>1 DEF StartedInOrder
<1>2. CASE Started' # Started
  <2>1. n + 1 \in Loops /\ thread' = [thread EXCEPT ![n + 1] = "created"]
    BY <1>2, OnlyTheNextStarts
  <2>2. /\ n \in Nat /\ Started = 1 .. n
        /\ thread \in [Loops -> {"none", "created", "running", "returned"}]
    BY StartedIsFinite DEF StartedInOrder, ServerInv, ServerTyped, TypeOK
  <2> HIDE DEF n
  <2>3. Started' = Started \cup {n + 1}
    BY <2>1, <2>2 DEF Started
  <2>4. Started' = 1 .. n + 1
    BY <2>2, <2>3
  <2>5. Cardinality(1 .. n + 1) = n + 1
    BY <2>2, FS_Interval
  <2> QED BY <2>4, <2>5 DEF StartedInOrder
<1> QED BY <1>1, <1>2

(* Each step of main and the threads is, for each loop, a step of LoopLife or
   none: EnterRun starts it, LeaveRun returns, StopLoops stops it. *)
LEMMA EachStepLives ==
    ASSUME ServerInv, StartedInOrder, [Next]_vars, NEW l \in Loops
    PROVE  [Life(l)!Next]_(Life(l)!vars)
<1> DEFINE phase == PhaseOf[thread[l]]
<1> USE DEF Life!Next, Life!vars
<1>1. /\ thread \in [Loops -> {"none", "created", "running", "returned"}]
      /\ running_ \in [Loops -> BOOLEAN]
  BY DEF ServerInv, ServerTyped, TypeOK
<1>2. CASE UNCHANGED << running_, thread >>
  BY <1>2
<1>3. CASE Started' # Started
  <2> DEFINE next == Cardinality(Started) + 1
  <2>1. /\ next \in Loops /\ next \notin Started
        /\ thread' = [thread EXCEPT ![next] = "created"] /\ UNCHANGED running_
    BY <1>3, OnlyTheNextStarts
  <2>2. thread[next] = "none"
    BY <2>1 DEF Started
  <2> HIDE DEF next
  <2>3. PhaseOf[thread'[l]] = PhaseOf[thread[l]]
    BY <1>1, <2>1, <2>2 DEF PhaseOf
  <2> QED BY <2>1, <2>3
<1>4. ASSUME NEW m \in Loops, ThreadStep(m) PROVE [Life(l)!Next]_(Life(l)!vars)
  <2>1. CASE m # l
    BY <1>1, <1>4, <2>1 DEF ThreadStep, EnterRun, LeaveRun, SetThread
  <2>2. CASE m = l /\ EnterRun(l)
    BY <1>1, <2>2 DEF EnterRun, SetThread, PhaseOf, Life!Start
  <2>3. CASE m = l /\ LeaveRun(l)
    BY <1>1, <2>3 DEF LeaveRun, SetThread, PhaseOf, Life!Return
  <2> QED BY <1>4, <2>1, <2>2, <2>3 DEF ThreadStep
<1>5. CASE StopLoops
  <2>1. UNCHANGED thread
    BY <1>5 DEF StopLoops
  <2>2. running_'[l] \in {running_[l], FALSE}
    BY <1>1, <1>5 DEF StopLoops
  <2> QED BY <2>1, <2>2 DEF Life!Stop
<1>6. CASE Started' = Started /\ StartThread
  <2>1. thread' = thread
    <3>1. ASSUME thread' = [thread EXCEPT ![Cardinality(Started) + 1] = "created"],
                 Cardinality(Started) + 1 <= loops
          PROVE  FALSE
      <4> DEFINE n == Cardinality(Started)
      <4>1. n \in Nat /\ n + 1 \in Loops
        BY <1>6, <3>1, StartedIsFinite, ServerAssumption
        DEF Loops, ServerInv, ServerTyped, TypeOK
      <4>2. n + 1 \notin Started
        BY <4>1 DEF StartedInOrder
      <4>3. n + 1 \in Started'
        BY <1>1, <3>1, <4>1 DEF Started
      <4> QED BY <1>6, <4>2, <4>3
    <3>2. Cardinality(Started) + 1 > loops \/ Cardinality(Started) + 1 <= loops
      BY StartedIsFinite DEF ServerInv, ServerTyped, TypeOK
    <3> QED BY <1>6, <3>1, <3>2 DEF StartThread
  <2> QED BY <1>2, <1>6, <2>1 DEF StartThread
<1>7. CASE ReadConfig \/ UseConfig \/ BuildLoop
  BY <1>2, <1>7
  DEF ReadConfig, UseConfig, BuildLoop, CreateSocket, SetOptions, Bind, Listen,
      CreateEventfd, CreateEpoll, ResizeEvents, CreateTimerfd, TryOpen, FinishLoop, Reach,
      BuildFails
<1>8. CASE EndBuild \/ SeeSignal \/ JoinThreads \/ DestroyLoop
  BY <1>2, <1>8 DEF EndBuild, SeeSignal, JoinThreads, DestroyLoop
<1>9. CASE Signal \/ OthersBind \/ OthersClose \/ (\E m \in Loops : RunThrows(m)) \/ UNCHANGED vars
  BY <1>2, <1>9 DEF Signal, OthersBind, OthersClose, Others, RunThrows, vars, serverVars
<1> QED BY <1>3, <1>4, <1>5, <1>6, <1>7, <1>8, <1>9 DEF Next, MainStep

(* What main and the threads do to each loop is what LoopLife describes, so that
   the threads may rely on the promise that TaskLoop keeps. *)
THEOREM ServerEachLoopLives == Spec => EachLoopLives
<1>1. Init => StartedInOrder
  <2>1. Init => Started = {}
    BY DEF Init, Started
  <2>2. Cardinality({}) = 0
    BY FS_EmptySet
  <2> QED BY <2>1, <2>2 DEF StartedInOrder
<1>2. ServerInv /\ StartedInOrder /\ [Next]_vars => StartedInOrder'
  BY OrderStays
<1>3. Init => \A l \in Loops : Life(l)!Init
  BY DEF Init, Life!Init, PhaseOf
<1>4. ServerInv /\ StartedInOrder /\ [Next]_vars =>
        [\A l \in Loops : [Life(l)!Next]_(Life(l)!vars)]_<< running_, thread >>
  BY EachStepLives
<1> QED BY <1>1, <1>2, <1>3, <1>4, ServerInvariant, PTL DEF Spec, EachLoopLives

-----------------------------------------------------------------------------
(* The settings.  What is a value on the command line is defined by recursion over
   the positions; that a function satisfies the recursion is shown by induction. *)

(* Every set of naturals has a least element: induction by least counterexample. *)
LEMMA LeastElement ==
    ASSUME NEW T \in SUBSET Nat, T # {}
    PROVE  \E x \in T : \A y \in T : x <= y
<1>1. IsWellFoundedOn(OpToRel(<, Nat), Nat)
  BY NatLessThanWellFounded
<1>2. PICK x \in T : \A y \in T : ~ (<< y, x >> \in OpToRel(<, Nat))
  BY <1>1, WFMin
<1>3. \A y \in T : << y, x >> \in OpToRel(<, Nat) <=> y < x
  BY DEF OpToRel
<1>4. \A y \in T : ~ (y < x)
  BY <1>2, <1>3
<1>5. x \in T /\ T \subseteq Nat
  OBVIOUS
<1>6. \A y \in T : x <= y
  BY <1>4, <1>5, SMT
<1> QED BY <1>5, <1>6

(* The words that take the argument after them as their value. *)
Options == {"--config"} \cup {Flag[f] : f \in Fields}

(* A command line is a sequence. *)
LEMMA CommandLine ==
    ASSUME argv \in Arguments
    PROVE  Len(argv) \in Nat /\ DOMAIN argv = 1 .. Len(argv)
<1>1. argv \in Seq({argv[n] : n \in DOMAIN argv})
  BY ConfigAssumption
<1> QED BY <1>1, LenProperties

(* Positions can be told apart, one after the other, into values and others. *)
LEMMA ValuesExist ==
    ASSUME NEW N \in Nat
    PROVE  \E V \in SUBSET (1 .. N) : \A n \in 1 .. N :
             n \in V <=> n > 1 /\ n - 1 \notin V /\ argv[n - 1] \in Options
<1> DEFINE Alternate(m, V) ==
             \A n \in 1 .. m : n \in V <=> n > 1 /\ n - 1 \notin V /\ argv[n - 1] \in Options
           missing == {m \in Nat : ~ \E V \in SUBSET (1 .. m) : Alternate(m, V)}
<1>1. ASSUME missing # {} PROVE FALSE
  <2>1. missing \in SUBSET Nat
    OBVIOUS
  <2>2. PICK m \in missing : \A k \in missing : m <= k
    <3> HIDE DEF missing
    <3> QED BY <1>1, <2>1, LeastElement
  <2>3. m # 0
    <3>1. Alternate(0, {}) /\ {} \in SUBSET (1 .. 0)
      OBVIOUS
    <3> HIDE DEF Alternate
    <3>2. 0 \notin missing
      BY <3>1
    <3> QED BY <3>2
  <2>4. m - 1 \in Nat /\ m - 1 \notin missing
    <3>1. m \in Nat /\ ~ (m <= m - 1)
      BY <2>1, SMT
    <3> HIDE DEF missing
    <3> QED BY <2>2, <2>3, <3>1
  <2>5. PICK V \in SUBSET (1 .. m - 1) : Alternate(m - 1, V)
    BY <2>4
  <2> DEFINE W == V \cup {n \in {m} : m > 1 /\ m - 1 \notin V /\ argv[m - 1] \in Options}
  <2>6. m \in Nat /\ m >= 1
    BY <2>3
  <2>7. W \in SUBSET (1 .. m)
    <3>1. \A n \in W : n \in V \/ n = m
      OBVIOUS
    <3>2. \A n \in V : n \in 1 .. m
      BY <2>6
    <3>3. m \in 1 .. m
      BY <2>6
    <3> HIDE DEF W
    <3> QED BY <3>1, <3>2, <3>3
  <2>8. ASSUME NEW n \in 1 .. m
        PROVE  n \in W <=> n > 1 /\ n - 1 \notin W /\ argv[n - 1] \in Options
    <3>1. n - 1 \in W <=> n - 1 \in V
      BY <2>6
    <3>2. CASE n = m
      BY <2>5, <2>6, <3>1, <3>2
    <3>3. CASE n # m
      <4>1. n \in 1 .. m - 1
        BY <2>6, <3>3
      <4>2. n \in W <=> n \in V
        BY <3>3
      <4>3. n \in V <=> n > 1 /\ n - 1 \notin V /\ argv[n - 1] \in Options
        BY <2>5, <4>1
      <4> HIDE DEF W
      <4> QED BY <3>1, <4>2, <4>3
    <3> QED BY <3>2, <3>3
  <2>9. Alternate(m, W)
    BY <2>8
  <2> QED BY <2>2, <2>7, <2>9
<1> QED BY <1>1

(* Predicates on the same set that agree are equal. *)
LEMMA SamePredicate ==
    ASSUME NEW S, NEW g \in [S -> BOOLEAN], NEW h \in [S -> BOOLEAN],
           \A n \in S : g[n] <=> h[n]
    PROVE  g = h
OBVIOUS

(* IsValue is what its recursive definition says. *)
LEMMA IsValueUnfolds ==
    ASSUME argv \in Arguments
    PROVE  IsValue = [n \in 1 .. Len(argv) |->
                         n > 1 /\ ~ IsValue[n - 1] /\ argv[n - 1] \in Options]
<1> DEFINE N == Len(argv)
           Unfolds(g) ==
             g = [n \in 1 .. N |-> n > 1 /\ ~ g[n - 1] /\ argv[n - 1] \in Options]
<1>1. N \in Nat
  BY CommandLine
<1> HIDE DEF N
<1>2. PICK V \in SUBSET (1 .. N) : \A n \in 1 .. N :
        n \in V <=> n > 1 /\ n - 1 \notin V /\ argv[n - 1] \in Options
  BY <1>1, ValuesExist
<1> DEFINE g == [n \in 1 .. N |-> n \in V]
<1>3. Unfolds(g)
  <2> DEFINE h == [n \in 1 .. N |-> n > 1 /\ ~ g[n - 1] /\ argv[n - 1] \in Options]
  <2>1. g \in [1 .. N -> BOOLEAN] /\ h \in [1 .. N -> BOOLEAN]
    OBVIOUS
  <2>2. ASSUME NEW n \in 1 .. N PROVE g[n] <=> h[n]
    <3>1. g[n] <=> n \in V
      OBVIOUS
    <3>2. ASSUME n > 1 PROVE g[n - 1] <=> n - 1 \in V
      <4>1. n - 1 \in 1 .. N
        BY <1>1, <3>2
      <4> QED BY <4>1
    <3>3. h[n] <=> n > 1 /\ ~ g[n - 1] /\ argv[n - 1] \in Options
      OBVIOUS
    <3> HIDE DEF g, h
    <3> QED BY <1>2, <3>1, <3>2, <3>3
  <2> HIDE DEF g, h
  <2>3. g = h
    BY <2>1, <2>2, SamePredicate
  <2> QED BY <2>3 DEF h
<1>4. IsValue = CHOOSE v : Unfolds(v)
  BY Zenon DEF IsValue, Options, N
<1> HIDE DEF g
<1>5. Unfolds(IsValue)
  BY <1>3, <1>4, Zenon
<1> QED BY <1>5 DEF N

(* A value is an argument whose predecessor is an option and not itself a value. *)
LEMMA ValueAt ==
    ASSUME argv \in Arguments, NEW n \in 1 .. Len(argv)
    PROVE  IsValue[n] <=> n > 1 /\ ~ IsValue[n - 1] /\ argv[n - 1] \in Options
<1> DEFINE h == [m \in 1 .. Len(argv) |-> m > 1 /\ ~ IsValue[m - 1] /\ argv[m - 1] \in Options]
<1>1. h[n] <=> n > 1 /\ ~ IsValue[n - 1] /\ argv[n - 1] \in Options
  OBVIOUS
<1>2. IsValue = h
  BY IsValueUnfolds
<1> HIDE DEF h
<1> QED BY <1>1, <1>2

(* The path that the scan for --config finds, and what its file sets. *)
Found == {n \in 1 .. Len(argv) - 1 : argv[n] = "--config"}

FoundPath == IF Found = {} THEN "config.json" ELSE argv[Min(Found) + 1]

FromFile(f) ==
    IF FoundPath \in DOMAIN files /\ f \in DOMAIN files[FoundPath].items
    THEN ToInt(files[FoundPath].items[f].n)
    ELSE Default[f]

GivenBefore(k, f) == {n \in Given(Flag[f]) : n < k}

(* What the parse has done when it comes to position k: it is not at the value of an
   option, has converted all values before, and each setting is the last of them. *)
Parsed(k, values) ==
    /\ k \in 1 .. Len(argv) + 1
    /\ k <= Len(argv) => ~ IsValue[k]
    /\ \A n \in 2 .. Len(argv) :
         n < k /\ IsValue[n] /\ argv[n - 1] # "--config" => argv[n] \in DOMAIN Stoi
    /\ \A f \in Fields :
         values[f] = IF GivenBefore(k, f) = {} THEN FromFile(f)
                     ELSE Stoi[argv[Max(GivenBefore(k, f))]]

(* Scan, file and parse, one after the other. *)
SettingsInv ==
    /\ stage \in {"scan", "load", "parse", "done"} => argv \in Arguments
    /\ stage \in {"scan", "load"} => i = 1 /\ fields = Default
    /\ stage = "scan" => config_path = "config.json"
    /\ stage = "load" => config_path = FoundPath
    /\ stage \in {"parse", "done"} =>
         Parsed(i, fields) /\ (FoundPath \in DOMAIN files => files[FoundPath].json)
    /\ stage = "done" => i > Len(argv)

(* What the parse has done depends on the command line and the files alone. *)
LEMMA ParsedStays ==
    ASSUME UNCHANGED << argv, files >>
    PROVE  /\ Parsed(i, fields)' <=> Parsed(i', fields')
           /\ FoundPath' = FoundPath
<1>1. argv' = argv /\ files' = files
  OBVIOUS
<1>2. IsValue' = IsValue
  BY <1>1 DEF IsValue
<1>3. \A o : Given(o)' = Given(o)
  BY <1>1, <1>2 DEF Given
<1>4. FoundPath' = FoundPath
  BY <1>1 DEF FoundPath, Found
<1> QED BY <1>1, <1>2, <1>3, <1>4 DEF Parsed, GivenBefore, FromFile, ToInt

(* The parse goes past an argument that has no value. *)
LEMMA PassWord ==
    ASSUME argv \in Arguments, NEW k, NEW values, Parsed(k, values), k <= Len(argv),
           k < Len(argv) => argv[k] \notin Options
    PROVE  Parsed(k + 1, values)
<1>1. Len(argv) \in Nat /\ k \in 1 .. Len(argv) /\ ~ IsValue[k]
  BY CommandLine DEF Parsed
<1>2. k + 1 <= Len(argv) => ~ IsValue[k + 1]
  <2>1. ASSUME k + 1 <= Len(argv) PROVE ~ IsValue[k + 1]
    <3>1. k + 1 \in 1 .. Len(argv) /\ k + 1 - 1 = k /\ argv[k] \notin Options
      BY <1>1, <2>1
    <3> QED BY <1>1, <3>1, ValueAt
  <2> QED BY <2>1
<1>3. ASSUME NEW n \in 2 .. Len(argv), n < k + 1, IsValue[n] PROVE n < k
  BY <1>1, <1>3
<1>4. ASSUME NEW f \in Fields PROVE GivenBefore(k + 1, f) = GivenBefore(k, f)
  BY <1>1, <1>3 DEF GivenBefore, Given
<1> QED BY <1>1, <1>2, <1>3, <1>4 DEF Parsed

(* The parse goes past an option and its value. *)
LEMMA PassOption ==
    ASSUME argv \in Arguments, NEW k, NEW values, Parsed(k, values), k < Len(argv),
           argv[k] \in Options, argv[k] # "--config" => argv[k + 1] \in DOMAIN Stoi
    PROVE  /\ k + 2 \in 1 .. Len(argv) + 1
           /\ k + 2 <= Len(argv) => ~ IsValue[k + 2]
           /\ \A n \in 2 .. Len(argv) :
                n < k + 2 /\ IsValue[n] /\ argv[n - 1] # "--config" => argv[n] \in DOMAIN Stoi
           /\ \A f \in Fields :
                GivenBefore(k + 2, f) =
                    GivenBefore(k, f) \cup (IF argv[k] = Flag[f] THEN {k + 1} ELSE {})
<1>1. Len(argv) \in Nat /\ k \in 1 .. Len(argv) /\ ~ IsValue[k]
  BY CommandLine DEF Parsed
<1>2. k + 1 \in 2 .. Len(argv) /\ k + 1 - 1 = k /\ k + 2 \in 1 .. Len(argv) + 1
  BY <1>1
<1>3. IsValue[k + 1]
  BY <1>1, <1>2, ValueAt
<1>4. ASSUME k + 2 <= Len(argv) PROVE ~ IsValue[k + 2]
  <2>1. k + 2 \in 1 .. Len(argv) /\ k + 2 - 1 = k + 1
    BY <1>1, <1>4
  <2> QED BY <1>1, <1>3, <2>1, ValueAt
<1>5. ASSUME NEW n \in 2 .. Len(argv), n < k + 2, IsValue[n] PROVE n < k \/ n = k + 1
  BY <1>1, <1>5
<1>6. ASSUME NEW n \in 2 .. Len(argv), n < k + 2, IsValue[n], argv[n - 1] # "--config"
      PROVE  argv[n] \in DOMAIN Stoi
  <2>1. CASE n < k
    BY <1>6, <2>1 DEF Parsed
  <2>2. CASE n = k + 1
    BY <1>1, <1>6, <2>2
  <2> QED BY <1>5, <1>6, <2>1, <2>2
<1>7. ASSUME NEW f \in Fields
      PROVE  GivenBefore(k + 2, f) =
                 GivenBefore(k, f) \cup (IF argv[k] = Flag[f] THEN {k + 1} ELSE {})
  <2>1. k + 1 \in GivenBefore(k + 2, f) <=> argv[k] = Flag[f]
    BY <1>1, <1>2, <1>3 DEF GivenBefore, Given
  <2>2. ASSUME NEW n \in GivenBefore(k + 2, f) PROVE n \in GivenBefore(k, f) \/ n = k + 1
    BY <1>5 DEF GivenBefore, Given
  <2>3. \A n \in GivenBefore(k, f) : n \in GivenBefore(k + 2, f) /\ n # k + 1
    BY <1>1 DEF GivenBefore, Given
  <2> QED BY <2>1, <2>2, <2>3
<1> QED BY <1>2, <1>4, <1>6, <1>7

(* --config and its value change no setting. *)
LEMMA PassConfig ==
    ASSUME argv \in Arguments, NEW k, NEW values, Parsed(k, values), k < Len(argv),
           argv[k] = "--config"
    PROVE  Parsed(k + 2, values)
<1>1. \A f \in Fields : GivenBefore(k + 2, f) = GivenBefore(k, f)
  <2>1. \A f \in Fields : argv[k] # Flag[f]
    BY ConfigAssumption
  <2>2. \A f \in Fields :
          GivenBefore(k + 2, f) =
              GivenBefore(k, f) \cup (IF argv[k] = Flag[f] THEN {k + 1} ELSE {})
    BY PassOption DEF Options
  <2> QED BY <2>1, <2>2
<1> QED BY <1>1, PassOption DEF Parsed, Options

(* A flag and its value set one setting, to the last value given so far. *)
LEMMA PassField ==
    ASSUME argv \in Arguments, NEW k, NEW values \in [Fields -> Int32], Parsed(k, values),
           k < Len(argv), NEW f \in Fields, argv[k] = Flag[f], argv[k + 1] \in DOMAIN Stoi
    PROVE  Parsed(k + 2, [values EXCEPT ![f] = Stoi[argv[k + 1]]])
<1> DEFINE next == [values EXCEPT ![f] = Stoi[argv[k + 1]]]
<1>1. argv[k] \in Options /\ k \in Nat
  BY DEF Options, Parsed
<1>2. \A g \in Fields : GivenBefore(k + 2, g) =
                           GivenBefore(k, g) \cup (IF g = f THEN {k + 1} ELSE {})
  <2>1. \A g \in Fields : argv[k] = Flag[g] <=> g = f
    BY ConfigAssumption
  <2> QED BY <1>1, <2>1, PassOption
<1>3. Max(GivenBefore(k + 2, f)) = k + 1
  <2> DEFINE S == GivenBefore(k + 2, f)
  <2>1. k + 1 \in S
    BY <1>2
  <2>2. \A n \in S : n \in Int /\ n <= k + 1
    BY <1>1 DEF GivenBefore, Given
  <2> HIDE DEF S
  <2>3. \A n \in S : (\A m \in S : n >= m) <=> n = k + 1
    BY <1>1, <2>1, <2>2
  <2>4. Max(S) = CHOOSE n \in S : \A m \in S : n >= m
    BY DEF Max
  <2> QED BY <2>1, <2>3, <2>4 DEF S
<1>4. ASSUME NEW g \in Fields
      PROVE  next[g] = IF GivenBefore(k + 2, g) = {} THEN FromFile(g)
                       ELSE Stoi[argv[Max(GivenBefore(k + 2, g))]]
  <2>1. CASE g = f
    BY <1>2, <1>3, <2>1
  <2>2. CASE g # f
    <3>1. next[g] = values[g] /\ GivenBefore(k + 2, g) = GivenBefore(k, g)
      BY <1>2, <2>2
    <3> QED BY <3>1 DEF Parsed
  <2> QED BY <2>1, <2>2
<1> HIDE DEF next
<1>5. /\ k + 2 \in 1 .. Len(argv) + 1
      /\ k + 2 <= Len(argv) => ~ IsValue[k + 2]
      /\ \A n \in 2 .. Len(argv) :
           n < k + 2 /\ IsValue[n] /\ argv[n - 1] # "--config" => argv[n] \in DOMAIN Stoi
  BY <1>1, PassOption
<1>6. Parsed(k + 2, next)
  BY <1>4, <1>5 DEF Parsed
<1> QED BY <1>6 DEF next

(* One turn of the loop of parseCommandLine. *)
LEMMA ParseKeeps ==
    ASSUME SettingsInv, fields \in [Fields -> Int32], ParseArgument
    PROVE  SettingsInv'
<1>1. /\ stage = "parse" /\ argv \in Arguments /\ i <= Len(argv) /\ Parsed(i, fields)
      /\ FoundPath \in DOMAIN files => files[FoundPath].json
  BY DEF ParseArgument, SettingsInv
<1>2. i \in Nat /\ Len(argv) \in Nat
  BY <1>1, CommandLine DEF Parsed
<1>3. UNCHANGED << argv, files >>
  BY DEF ParseArgument, ParseOther, ParseField, Advance
<1>4. ASSUME UNCHANGED stage, Parsed(i', fields') PROVE SettingsInv'
  BY <1>1, <1>3, <1>4, ParsedStays DEF SettingsInv
<1>5. ASSUME Throw PROVE SettingsInv'
  BY <1>5 DEF SettingsInv, Throw
<1>6. ASSUME NEW f \in Fields, ParseField(f) PROVE SettingsInv'
  <2>1. argv[i] = Flag[f] /\ i < Len(argv)
    BY <1>6 DEF ParseField, HasValue
  <2>2. CASE argv[i + 1] \in DOMAIN Stoi
    <3>1. /\ fields' = [fields EXCEPT ![f] = Stoi[argv[i + 1]]]
          /\ i' = i + 2 /\ UNCHANGED stage
      BY <1>6, <2>2 DEF ParseField, Advance
    <3>2. Parsed(i', fields')
      BY <1>1, <2>1, <2>2, <3>1, PassField
    <3> QED BY <1>4, <3>1, <3>2
  <2>3. CASE argv[i + 1] \notin DOMAIN Stoi
    BY <1>5, <1>6, <2>3 DEF ParseField
  <2> QED BY <2>2, <2>3
<1>7. CASE ParseOther
  <2>1. UNCHANGED << stage, fields >>
    BY <1>7 DEF ParseOther, Advance
  <2>2. \A f \in Fields : i < Len(argv) => argv[i] # Flag[f]
    BY <1>7 DEF ParseOther, HasValue
  <2>3. CASE argv[i] = "--config" /\ i < Len(argv)
    <3>1. i' = i + 2
      BY <1>7, <2>3 DEF ParseOther, Advance, HasValue
    <3> QED BY <1>1, <1>4, <2>1, <2>3, <3>1, PassConfig
  <2>4. CASE ~ (argv[i] = "--config" /\ i < Len(argv))
    <3>1. i' = i + 1
      BY <1>7, <2>4 DEF ParseOther, Advance, HasValue
    <3>2. i < Len(argv) => argv[i] \notin Options
      BY <2>2, <2>4 DEF Options
    <3> QED BY <1>1, <1>4, <2>1, <3>1, <3>2, PassWord
  <2> QED BY <2>3, <2>4
<1> QED BY <1>6, <1>7 DEF ParseArgument

(* The scan and the file leave the parse with the file's settings. *)
LEMMA LoadKeeps ==
    ASSUME SettingsInv, FindPath \/ LoadFromFile
    PROVE  SettingsInv'
<1>1. CASE FindPath
  <2>1. /\ stage = "scan" /\ stage' = "load" /\ config_path = "config.json"
        /\ config_path' = FoundPath /\ UNCHANGED << argv, files, fields, i >>
    BY <1>1 DEF FindPath, FoundPath, Found, SettingsInv
  <2> QED BY <2>1, ParsedStays DEF SettingsInv
<1>2. CASE LoadFromFile
  <2>1. /\ stage = "load" /\ argv \in Arguments /\ config_path = FoundPath
        /\ i = 1 /\ fields = Default /\ UNCHANGED << argv, files >>
    BY <1>2 DEF LoadFromFile, SettingsInv
  <2>2. Len(argv) \in Nat
    BY <2>1, CommandLine
  <2>3. \A f \in Fields : GivenBefore(1, f) = {}
    BY <2>2 DEF GivenBefore, Given
  <2>4. 1 <= Len(argv) => ~ IsValue[1]
    BY <2>1, <2>2, ValueAt
  <2>5. ASSUME UNCHANGED i, stage' = "parse", \A f \in Fields : fields'[f] = FromFile(f),
               FoundPath \in DOMAIN files => files[FoundPath].json
        PROVE  SettingsInv'
    <3>1. Parsed(i', fields')
      BY <2>1, <2>2, <2>3, <2>4, <2>5 DEF Parsed
    <3> QED BY <2>1, <2>5, <3>1, ParsedStays DEF SettingsInv
  <2>6. CASE config_path \notin DOMAIN files
    BY <1>2, <2>1, <2>5, <2>6 DEF LoadFromFile, FromFile
  <2>7. CASE Throw
    BY <2>7 DEF Throw, SettingsInv
  <2>8. CASE config_path \in DOMAIN files /\ ~ Throw
    <3>1. /\ files[FoundPath].json /\ UNCHANGED i /\ stage' = "parse"
          /\ fields' = [f \in Fields |-> IF Says(files[FoundPath], f)
                                         THEN ToInt(files[FoundPath].items[f].n)
                                         ELSE fields[f]]
      BY <1>2, <2>1, <2>8 DEF LoadFromFile
    <3>2. \A f \in Fields : fields'[f] = FromFile(f)
      BY <2>1, <2>8, <3>1 DEF FromFile, Says
    <3> QED BY <2>5, <3>1, <3>2
  <2> QED BY <2>6, <2>7, <2>8
<1> QED BY <1>1, <1>2

(* The scan, which does not know what is a value, finds the same file as the parse,
   which does: an argument --config that is another option's value is refused. *)
LEMMA ScanAgrees ==
    ASSUME argv \in Arguments, NEW k, NEW values, Parsed(k, values), k > Len(argv)
    PROVE  FoundPath = ConfigFile
<1> DEFINE G == Given("--config")
<1>0. Len(argv) \in Nat /\ \A n \in 2 .. Len(argv) : n < k
  BY CommandLine DEF Parsed
<1>1. \A n \in G : n \in 2 .. Len(argv) /\ n - 1 \in Found
  BY <1>0 DEF Given, Found
<1>2. CASE Found = {}
  BY <1>1, <1>2 DEF FoundPath, ConfigFile
<1>3. CASE Found # {}
  <2>1. Found \in SUBSET Nat
    BY <1>0 DEF Found
  <2>2. PICK m \in Found : \A n \in Found : m <= n
    BY <1>3, <2>1, LeastElement
  <2>3. m \in 1 .. Len(argv) - 1 /\ argv[m] = "--config"
    BY DEF Found
  <2>4. ~ IsValue[m]
    <3>1. ASSUME IsValue[m] PROVE FALSE
      <4>1. m > 1 /\ argv[m - 1] \in Options
        BY <1>0, <2>3, <3>1, ValueAt
      <4>2. CASE argv[m - 1] = "--config"
        <5>1. m - 1 \in Found
          BY <1>0, <2>3, <4>1, <4>2 DEF Found
        <5> QED BY <1>0, <2>2, <2>3, <5>1
      <4>3. CASE argv[m - 1] # "--config"
        <5>1. "--config" \in DOMAIN Stoi
          BY <1>0, <2>3, <3>1, <4>1, <4>3 DEF Parsed
        <5> QED BY <5>1, ConfigAssumption
      <4> QED BY <4>2, <4>3
    <3> QED BY <3>1
  <2>5. m + 1 \in G
    <3>1. m + 1 \in 2 .. Len(argv) /\ m + 1 - 1 = m /\ argv[m] \in Options
      BY <1>0, <2>3 DEF Options
    <3>2. IsValue[m + 1]
      BY <1>0, <2>3, <2>4, <3>1, ValueAt
    <3> QED BY <2>3, <3>1, <3>2 DEF Given
  <2>6. \A n \in G : n \in Int /\ m + 1 <= n
    BY <1>0, <1>1, <2>2, <2>3
  <2> HIDE DEF G
  <2>7. Min(G) = m + 1
    <3>1. \A n \in G : (\A o \in G : n <= o) <=> n = m + 1
      BY <2>3, <2>5, <2>6
    <3>2. Min(G) = CHOOSE n \in G : \A o \in G : n <= o
      BY DEF Min
    <3> QED BY <2>5, <3>1, <3>2
  <2>8. Min(Found) = m
    <3>1. \A n \in Found : (\A o \in Found : n <= o) <=> n = m
      BY <2>1, <2>2
    <3>2. Min(Found) = CHOOSE n \in Found : \A o \in Found : n <= o
      BY DEF Min
    <3> QED BY <2>2, <3>1, <3>2
  <2> QED BY <1>3, <2>5, <2>7, <2>8 DEF FoundPath, ConfigFile, G
<1> QED BY <1>2, <1>3

(* When init returns, every setting has the last value that was given for it. *)
LEMMA SettingsAreLast ==
    ASSUME SettingsInv
    PROVE  LastSettingWins
<1> SUFFICES ASSUME stage = "done", NEW f \in Fields
             PROVE  fields[f] =
                        IF Given(Flag[f]) # {}
                        THEN Stoi[argv[Max(Given(Flag[f]))]]
                        ELSE IF ConfigFile \in DOMAIN files /\ f \in DOMAIN files[ConfigFile].items
                             THEN ToInt(files[ConfigFile].items[f].n)
                             ELSE Default[f]
  BY DEF LastSettingWins
<1>1. argv \in Arguments /\ Parsed(i, fields) /\ i > Len(argv)
  BY DEF SettingsInv
<1>2. FoundPath = ConfigFile
  BY <1>1, ScanAgrees
<1>3. GivenBefore(i, f) = Given(Flag[f])
  <2>1. Len(argv) \in Nat /\ i \in Nat
    BY <1>1, CommandLine DEF Parsed
  <2> QED BY <1>1, <2>1 DEF GivenBefore, Given
<1> QED BY <1>1, <1>2, <1>3 DEF Parsed, FromFile

(* Only the steps of init change settings, and none comes after UseConfig. *)
LEMMA ServerSettings == ServerInv /\ SettingsInv /\ [Next]_vars => SettingsInv'
<1> SUFFICES ASSUME ServerInv, SettingsInv, [Next]_vars PROVE SettingsInv'
  OBVIOUS
<1>1. CASE ReadConfig
  <2>1. ConfigStep /\ fields \in [Fields -> Int32]
    BY <1>1 DEF ReadConfig, ServerInv, ServerTyped, TypeOK
  <2>2. CASE EndParse
    <3>1. /\ stage = "parse" /\ stage' = "done" /\ i > Len(argv)
          /\ UNCHANGED << argv, files, fields, config_path, i >>
      BY <2>2 DEF EndParse
    <3>2. i' > Len(argv')
      BY <3>1
    <3> QED BY <3>1, <3>2, ParsedStays DEF SettingsInv
  <2> QED BY <2>1, <2>2, LoadKeeps, ParseKeeps DEF ConfigStep
<1>2. CASE UseConfig
  BY <1>2 DEF UseConfig, SettingsInv
<1>3. CASE UNCHANGED configVars
  <2>1. UNCHANGED << argv, files, fields, config_path, i, stage >>
    BY <1>3 DEF configVars
  <2> QED BY <2>1, ParsedStays DEF SettingsInv
<1>4. ASSUME ~ ReadConfig, ~ UseConfig PROVE UNCHANGED configVars
  BY <1>4
  DEF Next, MainStep, BuildLoop, CreateSocket, SetOptions, Bind, Listen, CreateEventfd,
      CreateEpoll, ResizeEvents, CreateTimerfd, TryOpen, FinishLoop, Reach, BuildFails, EndBuild,
      SeeSignal, StopLoops, StartThread, JoinThreads, DestroyLoop, Move, ThreadStep, EnterRun,
      LeaveRun, SetThread, RunThrows, Signal, OthersBind, OthersClose, Others, vars
<1> QED BY <1>1, <1>2, <1>3, <1>4

(* When init returns, each setting is the last one of the command line, else the
   file's, else the default, and the file is the one the command line names, for any
   flags, command lines and files (Config.cpp:10-68). *)
THEOREM ServerLastSettingWins == Spec => []LastSettingWins
<1>1. Init => SettingsInv
  BY DEF Init, ConfigInit, SettingsInv
<1>2. ServerInv /\ SettingsInv /\ [Next]_vars => SettingsInv'
  BY ServerSettings
<1>3. SettingsInv => LastSettingWins
  BY SettingsAreLast
<1> QED BY <1>1, <1>2, <1>3, ServerInvariant, PTL DEF Spec
=============================================================================
