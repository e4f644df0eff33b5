CONSTANTS
    SORT_THRESHOLD = 1
    Vals <- MCVals
    MaxLen <- MCMaxLen

SPECIFICATION Spec

\* a sort call returns: the final state has no successor
CHECK_DEADLOCK FALSE

INVARIANTS
    SortOrders
    SortPermutes
