CONSTANTS
    Threads <- MCThreads
    LIST_LEN = 2
    NoOwner = NoOwner
    NULL = NULL

SPECIFICATION SpecBreakMacro

INVARIANT
    TraversalHoldsLock
