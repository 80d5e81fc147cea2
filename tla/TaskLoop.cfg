CONSTANTS
    p1 = p1
    p2 = p2
    Posters <- MCPosters
    Loop = Loop
    Main = Main
    NoThread = NoThread
    MaxTasks <- MCMaxTasks
    EventfdMax = 2
SPECIFICATION FairSpec
INVARIANTS
    TypeOK
    TasksInOrder
    NoLostWakeup
PROPERTIES
    ImplementsTaskService
    ImplementsLoopLife
CHECK_DEADLOCK FALSE
