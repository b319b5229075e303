SPECIFICATION Spec
CONSTANTS
    Size = 6
    Mems <- MCMems
    Devices <- MCDevices
    Infos <- MCInfos
    Width = 8
    Formats <- MCFormats
    Frequencies <- MCFrequencies
    PAGE_SIZE = 64
    PoolStart = 4
    KBase = 192
    Text = {2, 3}
    BootTables = 4
    Rams <- MCRams
    Pages <- MCPages
    Cap = 4
    Room = 6
    BX = 8
    Machines <- MCMachines
    Memories <- MCMemories
INVARIANT LineIs8N1
CHECK_DEADLOCK FALSE
