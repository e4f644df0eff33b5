---------------------------- MODULE MC_Workload ----------------------------
(***************************************************************************)
(* Two workers racing on a two-slot table that main fills completely       *)
(* (argv[2] = argv[3] = KEY_RANGE = 2, the largest prefill that can        *)
(* terminate), three operations each: enough for two removers on one key,  *)
(* two adders on one key, and an add racing a remove of the same key.     *)
(***************************************************************************)
EXTENDS Workload

MCThreads == {"t1", "t2"}
=============================================================================
