--------------------------- MODULE ArrayRegistry ---------------------------
(***************************************************************************)
(* The sorted-array registry and its benchmark, test_quicksort_scenario of *)
(* src/sort_test.c.  The address buffer and the parallel flags buffer are  *)
(* functions over the whole capacity 0 .. Capacity-1, as allocated, so a   *)
(* flag left behind past curr_n is still there when the next batch is      *)
(* appended over it.  One action per step of the scenario's loop body:     *)
(* append a batch of rand() addresses (resetting their flags), sort, one   *)
(* binary_search_mark per even index, filter_marked_array.                 *)
(* hits is the set of indices the binary searches of the current cycle    *)
(* returned.                                                               *)
(***************************************************************************)
EXTENDS QuickSort, Bags

CONSTANTS
    Addrs,          \* values rand() may return (a small set of Nat)
    INITIAL_SIZE,
    NEW_POINTERS,
    ITERATIONS

\* total_capacity
Capacity == INITIAL_SIZE + ITERATIONS * NEW_POINTERS

VARIABLES
    array, flags,   \* the two buffers of the scenario
    curr_n,         \* logical length of the buffers
    iter,           \* loop counter of the scenario
    i,              \* loop counter of the marking loop
    pc,             \* which step of the loop body comes next
    found,          \* return value of the last binary_search_mark
    hits            \* indices marked by the searches of this cycle

vars == <<array, flags, curr_n, iter, i, pc, found, hits>>

\* The addresses held in the slots S of buffer a, as a bag
SlotsBag(a, S) == [v \in {a[j] : j \in S} |-> Cardinality({j \in S : a[j] = v})]

-----------------------------------------------------------------------------

\* Fault variant of the loop test, while (low < high), which stops while one
\* candidate is left
SearchGoesOnNarrow(low, high) == low < high

\* while (low <= high) of binary_search_mark()
SearchGoesOn(low, high) == low <= high

\* the loop of binary_search_mark(): -1 when target is not in arr[low..high]
RECURSIVE BinarySearch(_, _, _, _)
BinarySearch(arr, low, high, target) ==
    IF ~SearchGoesOn(low, high) THEN -1
    ELSE LET mid == low + (high - low) \div 2
         IN  IF arr[mid] = target THEN mid
             ELSE IF target < arr[mid] THEN BinarySearch(arr, low, mid - 1, target)
             ELSE BinarySearch(arr, mid + 1, high, target)

\* Fault variant of the mark that counts marks, flags[mid]++
MarkFlagCount(fl, idx) == [fl EXCEPT ![idx] = @ + 1]

\* if (flags[mid] == 0) flags[mid] = 1
MarkFlag(fl, idx) == [fl EXCEPT ![idx] = 1]

\* binary_search_mark(arr, n, target, flags): the index found and the flags
BinarySearchMark(arr, n, target, fl) ==
    LET idx == BinarySearch(arr, 0, n - 1, target)
    IN  [idx |-> idx, flags |-> IF idx = -1 THEN fl ELSE MarkFlag(fl, idx)]

\* Fault variant of the flag test of filter_marked_array, inverted
KeptInverted(fl, j) == fl[j] # 0

\* if (flags[i] == 0): the entry survives the filter
Kept(fl, j) == fl[j] = 0

\* Fault variant of the copy of an entry without flags[new_n] = 0
ResetFlagNone(fl, j) == fl

\* flags[new_n] = 0; reset flag for the new array
ResetFlag(fl, j) == [fl EXCEPT ![j] = 0]

\* the loop of filter_marked_array(): i reads, new_n writes
RECURSIVE FilterLoop(_, _, _, _, _)
FilterLoop(arr, fl, j, n, new_n) ==
    IF j >= n THEN [array |-> arr, flags |-> fl, n |-> new_n]
    ELSE IF Kept(fl, j)
         THEN FilterLoop([arr EXCEPT ![new_n] = arr[j]], ResetFlag(fl, new_n),
                         j + 1, n, new_n + 1)
         ELSE FilterLoop(arr, fl, j + 1, n, new_n)

\* filter_marked_array(arr, &n, flags)
FilterMarkedArray(arr, n, fl) == FilterLoop(arr, fl, 0, n, 0)

-----------------------------------------------------------------------------

\* malloc/calloc of the buffers, then generate_random_array(array, curr_n)
Init ==
    \E init \in [0 .. INITIAL_SIZE - 1 -> Addrs], rest \in Addrs :
        /\ array = [j \in 0 .. Capacity - 1 |-> IF j < INITIAL_SIZE THEN init[j] ELSE rest]
        /\ flags = [j \in 0 .. Capacity - 1 |-> 0]
        /\ curr_n = INITIAL_SIZE
        /\ iter = 0
        /\ i = 0
        /\ pc = "append"
        /\ found = -1
        /\ hits = {}

\* generate_random_array(&array[curr_n], NEW_POINTERS), the loop clearing
\* flags[curr_n .. curr_n+NEW_POINTERS-1], and curr_n += NEW_POINTERS
AppendBatch(batch) ==
    /\ pc = "append"
    /\ iter < ITERATIONS
    /\ array' = [j \in DOMAIN array |->
                    IF j \in curr_n .. curr_n + NEW_POINTERS - 1
                    THEN batch[j - curr_n] ELSE array[j]]
    /\ flags' = [j \in DOMAIN flags |->
                    IF j \in curr_n .. curr_n + NEW_POINTERS - 1 THEN 0 ELSE flags[j]]
    /\ curr_n' = curr_n + NEW_POINTERS
    /\ pc' = "sort"
    /\ UNCHANGED <<iter, i, found, hits>>

\* forkscan_util_sort(array, curr_n)
SortBuffer ==
    /\ pc = "sort"
    /\ array' = ForkscanUtilSort(array, curr_n)
    /\ pc' = "mark"
    /\ i' = 0
    /\ hits' = {}
    /\ UNCHANGED <<flags, curr_n, iter, found>>

\* one turn of the marking loop: binary_search_mark(array, curr_n, array[i], flags)
MarkStep ==
    /\ pc = "mark"
    /\ i < curr_n
    /\ LET r == BinarySearchMark(array, curr_n, array[i], flags)
       IN  /\ flags' = r.flags
           /\ found' = r.idx
           /\ hits' = IF r.idx = -1 THEN hits ELSE hits \cup {r.idx}
    /\ i' = i + 2
    /\ UNCHANGED <<array, curr_n, iter, pc>>

\* the marking loop exits, filter_marked_array(array, &curr_n, flags), iter++
Filter ==
    /\ pc = "mark"
    /\ i >= curr_n
    /\ LET r == FilterMarkedArray(array, curr_n, flags)
       IN  /\ array' = r.array
           /\ flags' = r.flags
           /\ curr_n' = r.n
    /\ iter' = iter + 1
    /\ pc' = "append"
    /\ UNCHANGED <<i, found, hits>>

Next ==
    \/ \E batch \in [0 .. NEW_POINTERS - 1 -> Addrs] : AppendBatch(batch)
    \/ SortBuffer
    \/ MarkStep
    \/ Filter

Spec == Init /\ [][Next]_vars

-----------------------------------------------------------------------------

(* Type invariant: flags hold 0 or 1 only, and curr_n stays within        *)
(* total_capacity.                                                         *)
TypeOK ==
    /\ array \in [0 .. Capacity - 1 -> Addrs]
    /\ flags \in [0 .. Capacity - 1 -> {0, 1}]
    /\ curr_n \in 0 .. Capacity
    /\ iter \in 0 .. ITERATIONS
    /\ pc \in {"append", "sort", "mark"}
    /\ found \in -1 .. Capacity - 1
    /\ hits \subseteq 0 .. Capacity - 1

(* The precondition of binary_search_mark: whenever the marking loop runs, *)
(* the live prefix is in non-decreasing order, although survivors of the   *)
(* last cycle and the freshly appended batch were merged unsorted.         *)
SortedWhileMarking == pc = "mark" => IsSortedPrefix(array, curr_n)

(* Flags mean this cycle's marks only: while the marking loop runs, the    *)
(* set flags of the live prefix are exactly the indices returned by this   *)
(* cycle's binary searches.  sort moves addresses but not flags, so a flag *)
(* left set by filter_marked_array or by a dropped entry past curr_n would *)
(* silently condemn whichever address the sort puts under it.              *)
FlagsOnlyFromSearches ==
    pc = "mark" => {j \in 0 .. curr_n - 1 : flags[j] = 1} = hits

\* The registry as the abstract one: the live prefix is the bag of held
\* addresses, the flagged part of it the bag observed in this cycle.
Abstract == INSTANCE ReclaimRegistry WITH
    held     <- SlotsBag(array, 0 .. curr_n - 1),
    observed <- SlotsBag(array, {j \in 0 .. curr_n - 1 : flags[j] = 1})

(* The array registry implements ReclaimRegistry: appending a batch only   *)
(* adds to the bag, the sort and the flag resets change nothing abstract,  *)
(* each binary_search_mark observes at most one more copy of a held        *)
(* address, and filter_marked_array drops exactly the flagged copies,      *)
(* duplicates counted, and starts the next cycle with no flag set.  A flag *)
(* left set, or a copy dropped or kept wrongly, breaks the refinement.     *)
ReclaimRegistrySpec == Abstract!Spec

(* The sorted-array search finds what the loop asks for (the scenario's    *)
(* comment: "guaranteed to exist in the sorted array"): every              *)
(* binary_search_mark of the loop returns an index holding array[i].       *)
SearchFindsTarget ==
    (pc = "mark" /\ i > 0) => (found # -1 /\ array[found] = array[i - 2])

(* The scenario marks every other address in sorted order (spec 4.3): at   *)
(* the end of the marking loop the marked indices are the even ones.       *)
EveryOtherMarked ==
    (pc = "mark" /\ i >= curr_n) => hits = {j \in 0 .. curr_n - 1 : j % 2 = 0}
=============================================================================
