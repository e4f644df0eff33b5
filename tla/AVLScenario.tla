---------------------------- MODULE AVLScenario ----------------------------
(***************************************************************************)
(* test_avl_scenario of src/sort_test.c: the tree registry driven through *)
(* the benchmark's grow/mark cycles.  avl_build_from_array of INITIAL_SIZE *)
(* rand() addresses, then ITERATIONS times: NEW_POINTERS fresh rand()      *)
(* addresses, one avl_insert of each, one avl_mark of every other one;     *)
(* finally avl_destroy.  The tree calls are the actions of AVLTree (the    *)
(* copy of avl.c inside sort_test.c is the same code), one call per step.  *)
(***************************************************************************)
EXTENDS Integers

CONSTANTS
    Addrs,          \* values rand() may return
    Nil, NoKey,     \* model values of AVLTree
    INITIAL_SIZE,
    NEW_POINTERS,
    ITERATIONS

VARIABLES
    root, live, last,   \* the tree, as in AVLTree
    new_array,          \* the reused buffer of new pointers, as a sequence
    iter, i,            \* the two loop counters of the scenario
    pc                  \* "build", "gen", "insert", "mark", "done"

vars == <<root, live, last, new_array, iter, i, pc>>

Tree == INSTANCE AVLTree WITH Keys <- Addrs, MaxBuild <- INITIAL_SIZE

\* Fault variant of the insert loop's test that stops one entry short
InsertLoopGoesOnShort(j) == j < NEW_POINTERS - 1

\* for (int i = 0; i < NEW_POINTERS; i++) { avl_insert(...) }: the loop test
InsertLoopGoesOn(j) == j < NEW_POINTERS

-----------------------------------------------------------------------------

\* generate_random_array(init_array, INITIAL_SIZE), avl_build_from_array,
\* free(init_array)
Build ==
    /\ pc = "build"
    /\ \E init \in [1 .. INITIAL_SIZE -> Addrs] :
          Tree!AvlBuildFromArray(init)
    /\ pc' = "gen"
    /\ UNCHANGED <<new_array, iter, i>>

\* loop head: generate_random_array(new_array, NEW_POINTERS)
Generate ==
    /\ pc = "gen"
    /\ iter < ITERATIONS
    /\ new_array' \in [1 .. NEW_POINTERS -> Addrs]
    /\ i' = 0
    /\ pc' = "insert"
    /\ UNCHANGED <<root, live, last, iter>>

\* one turn of the insert loop: avl_insert(tree, new_array[i]); i++
InsertStep ==
    /\ pc = "insert"
    /\ InsertLoopGoesOn(i)
    /\ Tree!AvlInsert(new_array[i + 1])
    /\ i' = i + 1
    /\ UNCHANGED <<new_array, iter, pc>>

\* the insert loop exits and the mark loop starts at i = 0
StartMarking ==
    /\ pc = "insert"
    /\ ~InsertLoopGoesOn(i)
    /\ i' = 0
    /\ pc' = "mark"
    /\ UNCHANGED <<root, live, last, new_array, iter>>

\* one turn of the mark loop: avl_mark(tree, new_array[i]); i += 2
MarkStep ==
    /\ pc = "mark"
    /\ i < NEW_POINTERS
    /\ Tree!AvlMark(new_array[i + 1])
    /\ i' = i + 2
    /\ UNCHANGED <<new_array, iter, pc>>

\* the mark loop exits: iter++
EndIteration ==
    /\ pc = "mark"
    /\ i >= NEW_POINTERS
    /\ iter' = iter + 1
    /\ pc' = "gen"
    /\ UNCHANGED <<root, live, last, new_array, i>>

\* the outer loop exits: avl_destroy(tree), free(new_array)
Finish ==
    /\ pc = "gen"
    /\ iter >= ITERATIONS
    /\ Tree!AvlDestroy
    /\ pc' = "done"
    /\ UNCHANGED <<new_array, iter, i>>

Init ==
    /\ Tree!Init
    /\ new_array = [j \in 1 .. NEW_POINTERS |-> CHOOSE a \in Addrs : TRUE]  \* not read before written
    /\ iter = 0
    /\ i = 0
    /\ pc = "build"

Next == Build \/ Generate \/ InsertStep \/ StartMarking \/ MarkStep \/ EndIteration \/ Finish

Spec == Init /\ [][Next]_vars

-----------------------------------------------------------------------------

(* Every avl_mark of the scenario finds its address: the mark loop only   *)
(* looks up entries of new_array that the insert loop of the same         *)
(* iteration has just put into the tree, and no rotation of those inserts *)
(* loses one.  The harness ignores avl_mark's return value, so a batch    *)
(* entry the tree missed would silently go unmarked.                       *)
MarksFindBatch == [][MarkStep => last'.ret]_vars
=============================================================================
