SPECIFICATION Spec
CONSTANTS
    main_task = main_task
    idle = idle
    Task = {main_task, idle}
    Main = main_task
    Writer = {main_task}
    MaxPutc = 1
    MaxEvents <- MCEvents
    MaxDepth = 2
INVARIANTS
    TypeOK
    EveryBitIsServed
    TickReschedules
    FaultsOnlyBeforeScheduler
    KeyAnnounced
    SleepersHaveAnOwner
CHECK_DEADLOCK FALSE
