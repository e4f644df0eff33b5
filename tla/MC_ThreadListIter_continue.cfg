CONSTANTS
    Threads <- MCThreads
    LIST_LEN = 2
    NoOwner = NoOwner
    NULL = NULL

SPECIFICATION SpecContinue

PROPERTY
    LockReleased
