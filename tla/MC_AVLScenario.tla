--------------------------- MODULE MC_AVLScenario ---------------------------
(***************************************************************************)
(* Three cycles of three new pointers over a tree built from two          *)
(* addresses, rand() drawing from five values: eleven inserts, so batches  *)
(* repeat addresses already in the tree, new keys land on both sides of    *)
(* it, the inserts of a cycle trigger single and double rotations before   *)
(* the marks of that cycle (indices 0 and 2) search for their keys, and    *)
(* the odd batch length exercises the exit of the i += 2 loop.            *)
(***************************************************************************)
EXTENDS AVLScenario

MCAddrs == 1 .. 5
=============================================================================
