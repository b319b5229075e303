SPECIFICATION Spec
CONSTANTS
    main = main
    a = a
    Task = {main, a}
    Main = main
    NULL = NULL
    Sectors <- MCSectors
    Capacity <- MCCapacity
    Requests <- MCRequests
INVARIANTS
    WriteCompletes
CHECK_DEADLOCK FALSE
