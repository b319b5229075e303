SPECIFICATION FairSpec
CONSTANTS
    Task = {a, b}
    N = 3
    Size = 8
    Counts <- MCCounts
    NULL = NULL
INVARIANTS
    TypeOK
    NoSharedPage
    BitsMatch
PROPERTIES
    AllocatorSpec
    CallsReturn
