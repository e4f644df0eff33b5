-------------------------- MODULE ReclaimRegistry --------------------------
(***************************************************************************)
(* What a retirement registry with reclamation cycles promises (spec       *)
(* section 2, data flow): it holds a bag of retired addresses (the same    *)
(* address may be retired twice); a scan observes held addresses one copy  *)
(* at a time; the cycle's reclaim drops exactly the observed copies and    *)
(* keeps every other copy, and the next cycle starts with nothing          *)
(* observed.  Nothing else adds to or takes from the registry.             *)
(***************************************************************************)
EXTENDS Bags, BagsExt

CONSTANT Addrs      \* the addresses that can be retired

VARIABLES
    held,           \* bag of the addresses in the registry
    observed        \* bag of the held copies observed in this cycle

\* a batch of addresses is retired into the registry
Retire ==
    /\ held \sqsubseteq held'
    /\ BagToSet(held') \subseteq Addrs
    /\ UNCHANGED observed

\* a scan observes one more copy of a held address
Observe ==
    /\ \E a \in BagToSet(held) : observed' = BagAdd(observed, a)
    /\ observed' \sqsubseteq held
    /\ UNCHANGED held

\* the cycle ends: the observed copies are dropped, the rest stay
Reclaim ==
    /\ held' = held (-) observed
    /\ observed' = EmptyBag

Init ==
    /\ IsABag(held)
    /\ BagToSet(held) \subseteq Addrs
    /\ observed = EmptyBag

Next == Retire \/ Observe \/ Reclaim

Spec == Init /\ [][Next]_<<held, observed>>
=============================================================================
