SPECIFICATION Spec
CONSTANTS
    main_task = main_task
    idle = idle
    kbd = kbd
    Task = {main_task, idle}
    Main = main_task
    Handler = kbd
    COL_CNT = 3
    ROW_CNT = 4
    TAB = 2
    BiosRow = {0, 1}
    BufSize = 4
    Message <- MCMessage
    Key = {"two", "backspace", "tab", "rbracket", "enter", "a", "l", "lctrl", "lshift", "rshift", "lalt", "caps", "rctrl", "ralt", "kpenter"}
    Workload <- MCWorkload
    MaxQueue = 2
INVARIANTS
    TypeOK
    
    TextOfSomeMessage
    ScreenShowsText
    TypedIsMeant
CHECK_DEADLOCK FALSE
