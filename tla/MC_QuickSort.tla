---------------------------- MODULE MC_QuickSort ----------------------------
(***************************************************************************)
(* forkscan_util_sort checked against its reference definition on every    *)
(* buffer of up to MaxLen addresses drawn from Vals (duplicates included,  *)
(* as rand() produces them).  The threshold is lowered from the code's 16  *)
(* to 1 so that partition() and both recursive calls run on these small    *)
(* buffers; with 16 every buffer here would go straight to insertion_sort, *)
(* which the ArrayRegistry run covers with the code's own threshold.       *)
(***************************************************************************)
EXTENDS QuickSort

CONSTANTS Vals, MaxLen

VARIABLES
    input,      \* the buffer as the caller filled it
    buf,        \* the buffer forkscan_util_sort works on
    len,        \* the length argument
    sorted      \* forkscan_util_sort has returned

vars == <<input, buf, len, sorted>>

Init ==
    /\ len \in 0 .. MaxLen
    /\ input \in [0 .. len - 1 -> Vals]
    /\ buf = input
    /\ sorted = FALSE

\* one call of forkscan_util_sort(buf, len)
SortCall ==
    /\ ~sorted
    /\ buf' = ForkscanUtilSort(buf, len)
    /\ sorted' = TRUE
    /\ UNCHANGED <<input, len>>

Spec == Init /\ [][SortCall]_vars

(* Sort correctness, order (spec section 8): when forkscan_util_sort       *)
(* returns, the buffer is in non-decreasing order, whatever the pivot      *)
(* choices, the duplicates and the split between partition and insertion  *)
(* sort were.                                                              *)
SortOrders == sorted => IsSortedPrefix(buf, len)

(* Sort correctness, content (spec section 8): the sorted buffer is a      *)
(* permutation of the input: no swap of partition or insertion_sort loses  *)
(* or duplicates an address.                                               *)
SortPermutes == IsPermutationPrefix(input, buf, len)

MCVals == 1 .. 3
MCMaxLen == 6
=============================================================================
