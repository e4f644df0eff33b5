-------------------------- MODULE MC_ForkscanUtil --------------------------
(***************************************************************************)
(* A 10-bit size_t and a 6-bit int: every word value, the int mask of     *)
(* PTR_MASK narrower than the word (as 32 against 64 bits), and 16-word    *)
(* pages so that addresses span many pages.                                *)
(***************************************************************************)
EXTENDS ForkscanUtil
=============================================================================
