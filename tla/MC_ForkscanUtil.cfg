CONSTANTS
    SIZE_BITS = 10
    INT_BITS = 6
    PAGE_BITS = 4

SPECIFICATION Spec

INVARIANTS
    MasksRoundDown
    TimestampSplits
