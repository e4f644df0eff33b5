CONSTANTS
    Threads <- MCThreads
    KEY_RANGE = 2
    INITIAL_SIZE = 2
    KEY_BOUND = 2
    MaxOps = 3
    NULL = NULL

SPECIFICATION Spec

\* the benchmark exits after pthread_join of every worker
CHECK_DEADLOCK FALSE

INVARIANT
    Ownership
    RemoverFindsUncollected

PROPERTY
    PrefillTerminates
    WorkersJoin
    AtomicSetSpec
