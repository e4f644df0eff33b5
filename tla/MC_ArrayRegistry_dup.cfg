CONSTANTS
    SORT_THRESHOLD = 16
    Addrs <- MCAddrs
    INITIAL_SIZE = 2
    NEW_POINTERS = 2
    ITERATIONS = 3

SPECIFICATION Spec

\* test_quicksort_scenario returns after ITERATIONS cycles
CHECK_DEADLOCK FALSE

INVARIANT
    EveryOtherMarked
