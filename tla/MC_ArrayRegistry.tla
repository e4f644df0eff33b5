------------------------- MODULE MC_ArrayRegistry -------------------------
(***************************************************************************)
(* The array scenario with the code's SORT_THRESHOLD of 16, shrunk to an   *)
(* initial buffer of 2, batches of 2 and 3 iterations over 3 addresses:    *)
(* enough for duplicate rand() values, for survivors of one cycle to be    *)
(* merged with the next batch, and for a flag left behind by one filter    *)
(* to sit under a freshly appended address.                                *)
(***************************************************************************)
EXTENDS ArrayRegistry

MCAddrs == 1 .. 3
=============================================================================
