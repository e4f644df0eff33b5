------------------------------ MODULE Workload ------------------------------
(***************************************************************************)
(* The concurrent workload generator of src/forkscan_test/main.c: a table  *)
(* of KEY_RANGE atomic Node* slots, filled by the main thread (the prefill *)
(* loop of main) and then mutated by worker threads running add,           *)
(* remove_node and contains until their time is up.                       *)
(*                                                                         *)
(* A node is a number handed out by forkscan_malloc in allocation order.   *)
(* Each atomic instruction on shared memory is one step: add is the        *)
(* acquire load (with the allocation of the new node, which is private to  *)
(* the thread) followed by the CAS; remove_node is the exchange of the     *)
(* slot followed by the exchange of the node's collected flag together     *)
(* with the forkscan_retire call it guards; contains is one load.          *)
(* freed and retired record what left the table through free() and        *)
(* forkscan_retire(): they are where a node's ownership ends.              *)
(***************************************************************************)
EXTENDS Integers, FiniteSets

CONSTANTS
    Threads,        \* the worker threads (model values)
    KEY_RANGE,      \* number of slots of array[]
    INITIAL_SIZE,   \* argv[2]: how many keys main inserts before the workers start
    KEY_BOUND,      \* argv[3]: main draws its keys from 0 .. argv[3]-1
    MaxOps,         \* bound on the operations of one worker (its RUNTIME_SEC)
    NULL            \* the null pointer (a model value)

Slots == 0 .. KEY_RANGE - 1

\* every node the run can allocate: one per prefill insert and per worker op
MaxNodes == INITIAL_SIZE + Cardinality(Threads) * MaxOps
NodeIds  == 1 .. MaxNodes

\* The model covers 1 <= argv[3] <= KEY_RANGE: main checks neither bound, a
\* zero divides by zero and a larger bound indexes past array[].
ASSUME KEY_BOUND \in 1 .. KEY_RANGE

VARIABLES
    array,          \* array[key]: the slot table
    collected,      \* collected[n]: the node's collected flag
    allocated,      \* nodes handed out by forkscan_malloc so far
    inserted,       \* main's count of successful prefill adds
    phase,          \* "prefill", then "run" once the workers are created, then
                    \*   "joined"; "exited" after exit(EXIT_FAILURE)
    pc,             \* per worker: "loop" at the head of its while loop,
                    \*   "add_cas" between the load and the CAS of add,
                    \*   "rm_collect" between the two exchanges of remove_node, "done"
    key,            \* per worker: the key of its current operation
    node,           \* per worker: newNode in add, oldval in remove_node
    ops,            \* per worker: targs->operations
    freed,          \* nodes released with free() by a losing add
    retired,        \* retired[n]: number of forkscan_retire(n) calls
    ret             \* per worker: its current operation, key and return value

vars == <<array, collected, allocated, inserted, phase, pc, key, node, ops, freed, retired, ret>>

\* what a worker's operation on key k returns
Result(op, k, v) == [op |-> op, key |-> k, val |-> v]

-----------------------------------------------------------------------------

\* Fault variant of the flag's initialisation, atomic_init(&newNode->collected, 1)
NewNodeCollectedSet == 1

\* atomic_init(&newNode->collected, 0) in add
NewNodeCollected == 0

\* Fault variant of the prefill draw with an off-by-one modulus, rand() % (argv[3]-1)
PrefillKeysShort == 0 .. KEY_BOUND - 2

\* rand() % atoi(argv[3]): the keys of the prefill loop
PrefillKeys == 0 .. KEY_BOUND - 1

\* main's loop: k = rand() % argv[3]; if (add(k)) inserted++.  Only main runs,
\* so the load and the CAS of add see the same slot and form one step.
PrefillAdd(k) ==
    /\ phase = "prefill"
    /\ inserted < INITIAL_SIZE
    /\ IF array[k] = NULL
       THEN /\ array' = [array EXCEPT ![k] = allocated + 1]
            /\ collected' = [collected EXCEPT ![allocated + 1] = NewNodeCollected]
            /\ allocated' = allocated + 1
            /\ inserted' = inserted + 1
       ELSE UNCHANGED <<array, collected, allocated, inserted>>
    /\ UNCHANGED <<phase, pc, key, node, ops, freed, retired, ret>>

\* the prefill loop exits; pthread_create of every worker
StartWorkers ==
    /\ phase = "prefill"
    /\ inserted >= INITIAL_SIZE
    /\ phase' = "run"
    /\ UNCHANGED <<array, collected, allocated, inserted, pc, key, node, ops, freed, retired, ret>>

\* forkscan_malloc of newNode returns NULL in an add that found its slot
\* empty, in main's prefill or in a worker: perror and exit(EXIT_FAILURE)
\* end the process, whatever the other threads are doing
AddAllocFails ==
    /\ \/ /\ phase = "prefill"
          /\ inserted < INITIAL_SIZE
          /\ \E k \in PrefillKeys : array[k] = NULL
       \/ \E t \in Threads, k \in Slots :
              /\ phase = "run" /\ pc[t] = "loop" /\ ops[t] < MaxOps
              /\ array[k] = NULL
    /\ phase' = "exited"
    /\ UNCHANGED <<array, collected, allocated, inserted, pc, key, node, ops, freed, retired, ret>>

\* malloc of threads or calloc of args returns NULL: exit(EXIT_FAILURE)
StartAllocFails ==
    /\ phase = "prefill"
    /\ inserted >= INITIAL_SIZE
    /\ phase' = "exited"
    /\ UNCHANGED <<array, collected, allocated, inserted, pc, key, node, ops, freed, retired, ret>>

\* a worker at the head of its loop, with time left
Ready(t) == phase = "run" /\ pc[t] = "loop" /\ ops[t] < MaxOps

\* add(k), first step: atomic_load; if the slot is taken return false, else
\* forkscan_malloc a node and atomic_init its collected flag to 0
AddLoad(t, k) ==
    /\ Ready(t)
    /\ IF array[k] # NULL
       THEN /\ ops' = [ops EXCEPT ![t] = @ + 1]
            /\ ret' = [ret EXCEPT ![t] = Result("add", k, FALSE)]
            /\ UNCHANGED <<collected, allocated, pc, key, node>>
       ELSE /\ collected' = [collected EXCEPT ![allocated + 1] = NewNodeCollected]
            /\ allocated' = allocated + 1
            /\ node' = [node EXCEPT ![t] = allocated + 1]
            /\ key' = [key EXCEPT ![t] = k]
            /\ pc' = [pc EXCEPT ![t] = "add_cas"]
            /\ UNCHANGED <<ops, ret>>
    /\ UNCHANGED <<array, inserted, phase, freed, retired>>

\* Fault variant of the second step of add: a CAS retried until the slot is
\* NULL again, instead of freeing the node and returning false
AddCasRetry(t) ==
    /\ phase = "run"
    /\ pc[t] = "add_cas"
    /\ IF array[key[t]] = NULL
       THEN /\ array' = [array EXCEPT ![key[t]] = node[t]]
            /\ ret' = [ret EXCEPT ![t] = Result("add", key[t], TRUE)]
            /\ pc' = [pc EXCEPT ![t] = "loop"]
            /\ ops' = [ops EXCEPT ![t] = @ + 1]
       ELSE UNCHANGED <<array, ret, pc, ops>>
    /\ UNCHANGED <<collected, allocated, inserted, phase, key, node, freed, retired>>

\* Fault variant of the CAS written as a plain store, which always "succeeds"
StoreSucceeds(t) == TRUE

\* atomic_compare_exchange_strong(&array[key], &expected, newNode) with
\* expected = NULL: it succeeds when the slot still holds NULL
CasSucceeds(t) == array[key[t]] = NULL

\* add(k), second step: CAS from NULL to newNode; on failure free(newNode)
AddCas(t) ==
    /\ phase = "run"
    /\ pc[t] = "add_cas"
    /\ IF CasSucceeds(t)
       THEN /\ array' = [array EXCEPT ![key[t]] = node[t]]
            /\ UNCHANGED freed
       ELSE /\ freed' = freed \cup {node[t]}
            /\ UNCHANGED array
    /\ ret' = [ret EXCEPT ![t] = Result("add", key[t], CasSucceeds(t))]
    /\ pc' = [pc EXCEPT ![t] = "loop"]
    /\ ops' = [ops EXCEPT ![t] = @ + 1]
    /\ UNCHANGED <<collected, allocated, inserted, phase, key, node, retired>>

\* remove_node(k), first step: oldval = atomic_exchange(&array[k], NULL);
\* return false if it was NULL
RemoveExchange(t, k) ==
    /\ Ready(t)
    /\ array' = [array EXCEPT ![k] = NULL]
    /\ ret' = [ret EXCEPT ![t] = Result("remove", k, array[k] # NULL)]
    /\ IF array[k] = NULL
       THEN /\ ops' = [ops EXCEPT ![t] = @ + 1]
            /\ UNCHANGED <<pc, node>>
       ELSE /\ node' = [node EXCEPT ![t] = array[k]]
            /\ pc' = [pc EXCEPT ![t] = "rm_collect"]
            /\ UNCHANGED ops
    /\ UNCHANGED <<collected, allocated, inserted, phase, key, freed, retired>>

\* remove_node(k), second step: wasCollected = atomic_exchange(&oldval->collected, 1);
\* forkscan_retire(oldval) only if it was 0; return true
RemoveCollect(t) ==
    /\ phase = "run"
    /\ pc[t] = "rm_collect"
    /\ collected' = [collected EXCEPT ![node[t]] = 1]
    /\ retired' = IF collected[node[t]] = 0
                  THEN [retired EXCEPT ![node[t]] = @ + 1]
                  ELSE retired
    /\ pc' = [pc EXCEPT ![t] = "loop"]
    /\ ops' = [ops EXCEPT ![t] = @ + 1]
    /\ UNCHANGED <<array, allocated, inserted, phase, key, node, freed, ret>>

\* contains(k): one atomic_load; nothing shared changes
ContainsOp(t, k) ==
    /\ Ready(t)
    /\ ops' = [ops EXCEPT ![t] = @ + 1]
    /\ ret' = [ret EXCEPT ![t] = Result("contains", k, array[k] # NULL)]
    /\ UNCHANGED <<array, collected, allocated, inserted, phase, pc, key, node, freed, retired>>

\* the while condition fails: RUNTIME_SEC has elapsed (at any loop head)
WorkerExit(t) ==
    /\ phase = "run"
    /\ pc[t] = "loop"
    /\ pc' = [pc EXCEPT ![t] = "done"]
    /\ UNCHANGED <<array, collected, allocated, inserted, phase, key, node, ops, freed, retired, ret>>

\* pthread_join of every worker
JoinAll ==
    /\ phase = "run"
    /\ \A t \in Threads : pc[t] = "done"
    /\ phase' = "joined"
    /\ UNCHANGED <<array, collected, allocated, inserted, pc, key, node, ops, freed, retired, ret>>

\* memset(array, 0, ...) and calloc of the thread arguments
Init ==
    /\ array = [k \in Slots |-> NULL]
    /\ collected = [n \in NodeIds |-> 0]
    /\ allocated = 0
    /\ inserted = 0
    /\ phase = "prefill"
    /\ pc = [t \in Threads |-> "loop"]
    /\ key = [t \in Threads |-> 0]
    /\ node = [t \in Threads |-> NULL]
    /\ ops = [t \in Threads |-> 0]
    /\ freed = {}
    /\ retired = [n \in NodeIds |-> 0]
    /\ ret = [t \in Threads |-> Result("none", 0, FALSE)]

Next ==
    \/ \E k \in PrefillKeys : PrefillAdd(k)
    \/ StartWorkers
    \/ AddAllocFails
    \/ StartAllocFails
    \/ \E t \in Threads :
           \/ \E k \in Slots : AddLoad(t, k) \/ RemoveExchange(t, k) \/ ContainsOp(t, k)
           \/ AddCas(t)
           \/ RemoveCollect(t)
           \/ WorkerExit(t)
    \/ JoinAll

(* An allocation failure is possible, never forced: it has no fairness.    *)
(* Every worker is a pthread that never blocks (all its steps are single   *)
(* atomic instructions), so the scheduler runs each one: weak fairness on  *)
(* its steps.  The prefill draws its keys from rand(), which in the long   *)
(* run yields every residue modulo argv[3]: strong fairness on the draw of *)
(* each key.                                                              *)
Fairness ==
    /\ \A k \in PrefillKeys : SF_vars(PrefillAdd(k))
    /\ WF_vars(StartWorkers)
    /\ \A t \in Threads : WF_vars(AddCas(t) \/ RemoveCollect(t) \/ WorkerExit(t))
    /\ WF_vars(JoinAll)

Spec == Init /\ [][Next]_vars /\ Fairness

-----------------------------------------------------------------------------

\* how many places currently own node n
Owners(n) ==
    Cardinality({k \in Slots : array[k] = n})
    + Cardinality({t \in Threads : pc[t] \in {"add_cas", "rm_collect"} /\ node[t] = n})
    + (IF n \in freed THEN 1 ELSE 0)
    + retired[n]

(* Ownership of every node is never lost, shared or handed off twice:      *)
(* each node forkscan_malloc returned is, at every moment, in exactly one  *)
(* of: one slot of the table, the hands of one add between its load and    *)
(* its CAS, the hands of one remove_node between its two exchanges, the    *)
(* free list (a lost CAS), or the retirement registry, and it was retired  *)
(* at most once.  This is the exactly-once hand-off of spec 4.4 and 5, and *)
(* it also excludes a leaked node and a retired node still in the table.   *)
Ownership == \A n \in 1 .. allocated : Owners(n) = 1

(* A remover always finds the collected flag of its node unset: the       *)
(* atomic exchange of the slot already hands each node to exactly one      *)
(* remove_node, so the "already handed off" branch of remove_node, which   *)
(* spec 4.4 credits with preventing double retirement, never runs.        *)
RemoverFindsUncollected ==
    \A t \in Threads : pc[t] = "rm_collect" => collected[node[t]] = 0

(* The prefill loop of main terminates: main eventually starts the         *)
(* workers, given that rand() keeps producing every key below argv[3].     *)
PrefillTerminates == <>(phase # "prefill")

(* Every operation of a worker completes in a bounded number of its own   *)
(* steps, whatever the other threads do (add does not retry its CAS,       *)
(* remove_node does not wait for the collected flag), so once the prefill *)
(* is done main's pthread_join of every worker returns, unless an          *)
(* allocation failure has ended the process first.                        *)
WorkersJoin == <>(phase \in {"joined", "exited"})

(* The slot table is linearizable: with the set of keys whose slot is non- *)
(* NULL as the abstract set, every step of add, remove_node and contains   *)
(* is either invisible or the one atomic step of the matching AtomicSet    *)
(* operation, and the value the operation returns (the CAS outcome, the    *)
(* exchanged-out pointer, the loaded pointer) is what the set held then.   *)
Table == INSTANCE AtomicSet WITH present <- {k \in Slots : array[k] # NULL}

AtomicSetSpec == Table!Spec
=============================================================================
