CONSTANTS
    Threads <- MCThreads
    LIST_LEN = 2
    NoOwner = NoOwner
    NULL = NULL

SPECIFICATION Spec

INVARIANT
    TypeOK
    TraversalHoldsLock
PROPERTY
    LockReleased
