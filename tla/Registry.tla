------------------------------ MODULE Registry ------------------------------
(***************************************************************************)
(* What a registry of retired addresses promises (spec sections 3 and 4.1):*)
(* a set of keys, each with a one-shot mark.  Insert of a present key is a *)
(* no-op returning FALSE, mark of a missing key changes nothing and        *)
(* returns FALSE, a mark is never undone, and nothing is removed until the *)
(* whole registry is destroyed.  The AVL tree of avl.c refines it.         *)
(***************************************************************************)
EXTENDS Sequences
LOCAL INSTANCE SequencesExt

CONSTANTS Keys, MaxBuild, NoKey

VARIABLES
    keys,       \* the retired addresses held
    marked,     \* the keys whose mark is set
    live,       \* the registry exists
    last        \* the last call: its name, its key and the value it returned

vars == <<keys, marked, live, last>>

Init ==
    /\ keys = {}
    /\ marked = {}
    /\ live = FALSE
    /\ last = [op |-> "none", key |-> NoKey, ret |-> FALSE]

Create ==
    /\ ~live
    /\ keys' = {}
    /\ marked' = {}
    /\ live' = TRUE
    /\ UNCHANGED last

Build(arr) ==
    /\ ~live
    /\ keys' = ToSet(arr)
    /\ marked' = {}
    /\ live' = TRUE
    /\ UNCHANGED last

Insert(k) ==
    /\ live
    /\ keys' = keys \cup {k}
    /\ last' = [op |-> "insert", key |-> k, ret |-> k \notin keys]
    /\ UNCHANGED <<marked, live>>

Query(k) ==
    /\ live
    /\ last' = [op |-> "contains", key |-> k, ret |-> k \in keys]
    /\ UNCHANGED <<keys, marked, live>>

Mark(k) ==
    /\ live
    /\ marked' = IF k \in keys THEN marked \cup {k} ELSE marked
    /\ last' = [op |-> "mark", key |-> k, ret |-> k \in keys]
    /\ UNCHANGED <<keys, live>>

Destroy ==
    /\ live
    /\ keys' = {}
    /\ marked' = {}
    /\ live' = FALSE
    /\ UNCHANGED last

Next ==
    \/ Create
    \/ \E arr \in BoundedSeq(Keys, MaxBuild) : Build(arr)
    \/ \E k \in Keys : Insert(k) \/ Query(k) \/ Mark(k)
    \/ Destroy

Spec == Init /\ [][Next]_vars
=============================================================================
