SPECIFICATION FairSpec
CONSTANTS
    main = main
    a = a
    Task = {main, a}
    Main = main
    NULL = NULL
    Sectors <- MCSectors
    Capacity <- MCCapacity
    Requests <- MCRequests
INVARIANTS
    TypeOK
    OneUser
    TransfersOwnSector
    FindsDrives
    ErrorsReal
PROPERTIES
    RequestsReturn
CHECK_DEADLOCK FALSE
