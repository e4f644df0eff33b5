------------------------- MODULE MC_ThreadListIter -------------------------
(***************************************************************************)
(* Three threads traversing a list of two thread_data_t nodes: enough for *)
(* one holder, one waiter blocked in pthread_mutex_lock and a third that   *)
(* takes the mutex the moment it is wrongly released.                     *)
(***************************************************************************)
EXTENDS ThreadListIter

MCThreads == {"t1", "t2", "t3"}
=============================================================================
