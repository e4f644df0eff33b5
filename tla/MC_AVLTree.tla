----------------------------- MODULE MC_AVLTree -----------------------------
(* Model-checking instance of AVLTree.  Six addresses reach every        *)
(* rotation case at the root and below it (1,2,3 is a left rotation, 3,1,2 *)
(* a left-right double rotation, 1..5 a rotation below the root) and trees *)
(* of three levels; build arrays of up to three keys include duplicates    *)
(* and every rotation case.                                                *)
EXTENDS AVLTree

MCKeys == 1 .. 6
MCMaxBuild == 3
=============================================================================
