CONSTANTS
    Addrs <- MCAddrs
    Nil = Nil
    NoKey = NoKey
    INITIAL_SIZE = 2
    NEW_POINTERS = 3
    ITERATIONS = 3

SPECIFICATION Spec

\* test_avl_scenario returns after avl_destroy
CHECK_DEADLOCK FALSE

PROPERTY
    MarksFindBatch
