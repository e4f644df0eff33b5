----------------------------- MODULE QuickSort -----------------------------
(***************************************************************************)
(* forkscan_util_sort of src/sort_test.c: quicksort with a middle pivot    *)
(* (Lomuto partition) that hands every range of at most SORT_THRESHOLD + 1 *)
(* elements to an adjacent-swap insertion sort.  A buffer is a function    *)
(* from C indices 0 .. n-1 to addresses, and every loop of the code is a   *)
(* recursive operator over its loop variables, swap by swap.               *)
(***************************************************************************)
EXTENDS Integers, FiniteSets

CONSTANT SORT_THRESHOLD

\* Fault variant of swap() that forgets the temporary: both slots get addrs[m]
SwapNoTemp(addrs, n, m) == [addrs EXCEPT ![n] = addrs[m]]

\* swap()
Swap(addrs, n, m) == [addrs EXCEPT ![n] = addrs[m], ![m] = addrs[n]]

\* the for loop of partition(): i runs from min to max-1, mid is the next slot
\* for a key <= pivot_val
RECURSIVE PartitionLoop(_, _, _, _, _)
PartitionLoop(addrs, i, max, mid, pivotVal) ==
    IF i >= max THEN [addrs |-> addrs, mid |-> mid]
    ELSE IF addrs[i] <= pivotVal
         THEN PartitionLoop(Swap(addrs, i, mid), i + 1, max, mid + 1, pivotVal)
         ELSE PartitionLoop(addrs, i + 1, max, mid, pivotVal)

\* Fault variant of partition() without the final swap(addrs, mid, max)
PartitionNoFinalSwap(addrs, min, max) ==
    LET pivot == (min + max) \div 2
    IN  PartitionLoop(Swap(addrs, pivot, max), min, max, min, addrs[pivot])

\* partition(): the pivot is parked at max, then moved to its final slot mid
Partition(addrs, min, max) ==
    LET pivot == (min + max) \div 2
        r     == PartitionLoop(Swap(addrs, pivot, max), min, max, min, addrs[pivot])
    IN  [addrs |-> Swap(r.addrs, r.mid, max), mid |-> r.mid]

\* inner loop of insertion_sort(): for (j = i; j > min && a[j-1] > a[j]; j--)
RECURSIVE SinkLoop(_, _, _)
SinkLoop(addrs, j, min) ==
    IF j > min /\ addrs[j - 1] > addrs[j]
    THEN SinkLoop(Swap(addrs, j, j - 1), j - 1, min)
    ELSE addrs

\* outer loop of insertion_sort(): for (i = min + 1; i <= max; i++)
RECURSIVE InsertionLoop(_, _, _, _)
InsertionLoop(addrs, i, min, max) ==
    IF i > max THEN addrs
    ELSE InsertionLoop(SinkLoop(addrs, i, min), i + 1, min, max)

\* Fault variant of insertion_sort() whose loop stops one short (i < max)
InsertionSortShort(addrs, min, max) == InsertionLoop(addrs, min + 1, min, max - 1)

\* insertion_sort()
InsertionSort(addrs, min, max) == InsertionLoop(addrs, min + 1, min, max)

\* quicksort()
RECURSIVE QuickSortRange(_, _, _)
QuickSortRange(addrs, min, max) ==
    IF max - min > SORT_THRESHOLD
    THEN LET p == Partition(addrs, min, max)
         IN  QuickSortRange(QuickSortRange(p.addrs, min, p.mid - 1), p.mid + 1, max)
    ELSE InsertionSort(addrs, min, max)

\* forkscan_util_sort(a, length): sorts a[0 .. length-1], leaves the rest
ForkscanUtilSort(a, length) == QuickSortRange(a, 0, length - 1)

-----------------------------------------------------------------------------
(* Reference definitions the sort is checked against                       *)

\* a[0 .. n-1] is in non-decreasing order
IsSortedPrefix(a, n) == \A i \in 0 .. n - 2 : a[i] <= a[i + 1]

\* how many times v occurs in a[0 .. n-1]
Occurrences(a, n, v) == Cardinality({i \in 0 .. n - 1 : a[i] = v})

\* b[0 .. n-1] holds the same multiset of addresses as a[0 .. n-1]
IsPermutationPrefix(a, b, n) ==
    \A v \in {a[i] : i \in 0 .. n - 1} \cup {b[i] : i \in 0 .. n - 1} :
        Occurrences(a, n, v) = Occurrences(b, n, v)
=============================================================================
