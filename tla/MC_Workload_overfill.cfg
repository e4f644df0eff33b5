CONSTANTS
    Threads <- MCThreads
    KEY_RANGE = 2
    INITIAL_SIZE = 3
    KEY_BOUND = 2
    MaxOps = 3
    NULL = NULL

SPECIFICATION Spec

\* the benchmark exits after pthread_join of every worker
CHECK_DEADLOCK FALSE


PROPERTY
    PrefillTerminates
