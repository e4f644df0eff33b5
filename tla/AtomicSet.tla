----------------------------- MODULE AtomicSet -----------------------------
(***************************************************************************)
(* What the slot table of src/forkscan_test/main.c promises its callers:  *)
(* a set of keys on which add, remove_node and contains take effect        *)
(* atomically, each at one instant between its call and its return, and   *)
(* return what the set held at that instant (main.c's header comments:     *)
(* "Return true if inserted, false if key already in", "Return true if     *)
(* removed, false if not present", "return true if key is present").      *)
(* ret[t] is worker t's latest operation, its key and what it returned.  *)
(***************************************************************************)
CONSTANTS Threads, Slots

VARIABLES present, ret

\* the prefill adds of main: their return value only counts insertions
Prefill(k) ==
    /\ present' = present \cup {k}
    /\ UNCHANGED ret

Add(t, k) ==
    /\ ret' = [ret EXCEPT ![t] = [op |-> "add", key |-> k, val |-> k \notin present]]
    /\ present' = present \cup {k}

Remove(t, k) ==
    /\ ret' = [ret EXCEPT ![t] = [op |-> "remove", key |-> k, val |-> k \in present]]
    /\ present' = present \ {k}

Contains(t, k) ==
    /\ ret' = [ret EXCEPT ![t] = [op |-> "contains", key |-> k, val |-> k \in present]]
    /\ UNCHANGED present

Init ==
    /\ present = {}
    /\ ret = [t \in Threads |-> [op |-> "none", key |-> 0, val |-> FALSE]]

Next ==
    \/ \E k \in Slots : Prefill(k)
    \/ \E t \in Threads, k \in Slots : Add(t, k) \/ Remove(t, k) \/ Contains(t, k)

Spec == Init /\ [][Next]_<<present, ret>>
=============================================================================
