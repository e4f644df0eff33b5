# TLA+ models of the retirement-bookkeeping engine

This directory holds TLA+ models of the C code under `src/`, together with the
TLC configurations that check them. The code is the bookkeeping side of a
safe-memory-reclamation facility. Retired addresses go into a registry and are
later *marked* when a scan finds them still in use. The repository has two
registries, a benchmark that drives them, and a lock-free workload that produces
retirements.

## The system and its parts

| Part | Source | What it does | Modules |
|---|---|---|---|
| Ordered registry | `src/forkscan-changed/avl.c`, `avl.h` | AVL tree of keys, each with a one-shot mark bit. Its API is create, build_from_array, insert, contains, mark, inorder and destroy. | `Registry` (abstract), `AVLTree`, `MC_AVLTree` |
| Sorted-array registry | `src/sort_test.c` 21-100 | `forkscan_util_sort` (quicksort with a middle pivot that switches to insertion sort at or below `SORT_THRESHOLD`), `binary_search_mark` and `filter_marked_array` (compaction). | `QuickSort`, `MC_QuickSort`, `ArrayRegistry`, `ReclaimRegistry` (abstract) |
| Benchmark harness | `src/sort_test.c` 265-369 | `test_quicksort_scenario` repeats a cycle of append a batch, sort, mark every other entry, filter. `test_avl_scenario` builds a tree, then repeats insert a batch, mark every other new entry. | `ArrayRegistry`, `MC_ArrayRegistry`, `AVLScenario`, `MC_AVLScenario` |
| Concurrent workload | `src/forkscan_test/main.c` | A table of `KEY_RANGE` atomic `Node*` slots. Main prefills it, then worker threads run `add` (load, then CAS), `remove_node` (exchange the slot, then exchange the node's `collected` flag and call `forkscan_retire`) and `contains`. | `AtomicSet` (abstract), `Workload`, `MC_Workload` |
| Forkscan runtime interface | `src/forkscan-changed/util.h` | Arithmetic macros (pointer tag mask, page alignment, timestamp field), the thread-list traversal macros with the list mutex, plus declarations of the external thread list, free lists and allocator hooks. | `ForkscanUtil`, `MC_ForkscanUtil` (arithmetic macros), `ThreadListIter`, `MC_ThreadListIter` (thread-list traversal macros) |

How the parts interact: `remove_node` in the workload is where an address is
retired. The registries are what a reclaimer would feed those addresses into,
and the benchmark harness plays that reclaimer for both registries. In this
repository the two sides are separate programs, so the models check them
separately. The only link between the two programs is `forkscan_retire`, which
the workload model records as the `retired` counter of each node.

## Modules and how they correspond to the code

### Registry
The abstract registry, the promise both registries make:

- State: a set of `keys`, a set of `marked` keys, `live` (a registry exists), and `last`, the last call together with its key and return value.
- `Insert` adds a key and returns whether it was new.
- `Query` reports whether a key is present.
- `Mark` marks a key that is present, never unmarks one, and returns whether it was present.
- `Build` and `Destroy` create and drop the registry.

This module is written from the intended behaviour, not translated from code,
and it is not in the map.

### AVLTree
A tree is a value: either `Nil` or a record with the fields of `avl_node_t`.

- Each recursive C helper that returns a new subtree root becomes a recursive operator returning the new subtree: `InsertNode`, `RightRotate`, `LeftRotate` and `MarkNode`.
- `Rebalance` holds the four cases of `insert_node` in the code's order. They are selected by the inserted key, as in the code.
- The stored `height` field is updated exactly where the code updates it: `FixHeight` after linking the child, and in both rotations. A stale height therefore stays visible.
- Each function of `avl.h` is one action: `AvlCreate`, `AvlBuildFromArray` (a fold of `InsertNode`), `AvlInsert`, `AvlContains`, `AvlMark` and `AvlDestroy`.
- The registry is single-threaded, so one call is one step.
- `inorder_traverse` is the operator `InOrder`, which returns the sequence of nodes the visitor sees.

### QuickSort and MC_QuickSort
`QuickSort` translates `swap`, `partition`, `insertion_sort`, `quicksort` and
`forkscan_util_sort` swap by swap. Each C loop is a recursive operator over its
loop variables (`PartitionLoop`, `SinkLoop`, `InsertionLoop`), and buffers are
functions over C indices 0..n-1.

`MC_QuickSort` runs one `forkscan_util_sort` call. It checks the result against
two reference definitions: sortedness (`IsSortedPrefix`) and equal multisets
(`IsPermutationPrefix`).

### ArrayRegistry
`test_quicksort_scenario` as a state machine.

- State:
  - `array` and `flags` are full-capacity buffers, as the code allocates them, so stale entries past `curr_n` still exist.
  - `curr_n`, `iter` and the marking index `i` are the code's variables.
  - `pc` records which step of the loop body comes next.
- Actions, one per step of the loop body:
  - `AppendBatch`: `generate_random_array` on the tail, the flag-reset loop, and `curr_n += NEW_POINTERS`.
  - `SortBuffer`.
  - `MarkStep`: one turn of the `i += 2` loop.
  - `Filter`: `filter_marked_array`, then `iter++`.
- `rand()` values are drawn from a small set `Addrs`, with repeats, as `rand()` can produce.
- `hits` is a history variable used only by a property: the indices returned by this cycle's searches.
- `Abstract` instantiates `ReclaimRegistry` with `held` mapped to the bag of the live prefix and `observed` to the bag of its flagged entries.

### ReclaimRegistry
The abstract registry of spec section 2's data flow, unmapped. `held` is a bag
of retired addresses, and `observed` is the bag of held copies observed in this
cycle. `Retire` only adds to `held`. `Observe` adds one more copy of a held
address to `observed`. `Reclaim` drops exactly the observed copies and empties
`observed`. Bags are needed because `rand()` repeats addresses and the array
keeps every copy.

### Workload
`main.c` with one step per atomic instruction on shared memory:

- `AddLoad`: the acquire load, plus `forkscan_malloc` and `atomic_init` of the thread's private node.
- `AddCas`: the CAS, plus `free` when the CAS loses.
- `RemoveExchange`: the exchange of the slot.
- `RemoveCollect`: the exchange of `collected`, plus `forkscan_retire`.
- `ContainsOp`: the load.
- The main thread's prefill loop is `PrefillAdd`, one step per `add`, since only main runs at that point. Thread start is `StartWorkers` and the join is `JoinAll`.
- The worker's choice of operation and key comes from `rand_r`, so it is nondeterministic.
- Time running out is `WorkerExit`, which can happen at any loop head, with a bound `MaxOps` on each worker's operations.
- Nodes are numbered in allocation order. `freed` and `retired` record where each node's ownership ends.
- `ret` is a history variable: each worker's current operation, its key, and the value it returns. The value is set at the step that decides it: the load of `add` when the slot is taken, the CAS otherwise, the slot exchange of `remove_node`, and the load of `contains`.
- A `NULL` from `forkscan_malloc` in `add` (lines 38-42), or from the `malloc`/`calloc` of the thread arrays in `main` (lines 175-179), ends the process with `exit(EXIT_FAILURE)`. These are `AddAllocFails` and `StartAllocFails`, which move `phase` to `exited`. They are the model's fault model: possible at every such call, never forced.
- `main` checks neither bound on `argv[3]`: 0 divides by zero and a value past `KEY_RANGE` indexes beyond `array[]`. The module assumes `1 <= KEY_BOUND <= KEY_RANGE` (an `ASSUME`), so the prefill always draws a slot of the table.

### AtomicSet
The abstract table: a set `present` and each worker's `ret`. `Add`, `Remove`
and `Contains` each take effect in one step and return what the set held at
that step. This is what the comments above `add`, `remove_node` and `contains`
promise. `Workload` maps `present` to the keys whose slot is non-NULL. Like
`Registry`, this module is written from the intended behaviour, and it is not
in the map.

### AVLScenario
`test_avl_scenario` as a state machine. It instantiates `AVLTree` as `Tree`, so
each `avl_*` call is a whole `AVLTree` action: `Build`, then per iteration
`Generate`, `InsertStep` per pointer, `StartMarking`, `MarkStep` per even
index, and `EndIteration`, and finally `Finish` (`avl_destroy`). `sort_test.c`
calls its own copy of the AVL code (lines 106-261). That copy matches `avl.c`
except that it frees with `forkscan_free` and has no `avl_inorder`, so
`AVLTree` models it too. The loop test of the insert loop is `InsertLoopGoesOn`,
shared by `InsertStep` and `StartMarking`.

### ForkscanUtil
The arithmetic macros of `util.h`, on scaled-down machine words. `size_t` has
`SIZE_BITS` bits and `int` has `INT_BITS` bits (64 and 32 on the target). The C
conversions are kept:

- `~3` is an int.
- An int converted to `size_t` is reduced modulo 2^`SIZE_BITS`.
- `~(PAGESIZE - 1)` is a `size_t` complement.

`word` ranges over every `size_t` value, and the properties are checked for
each one.

### ThreadListIter
The traversal macros of `util.h` (lines 41-51) over a `thread_list_t` (lines
123-127). `owner` is the thread holding `tl->lock`, `td` each thread's cursor
(a position in a fixed chain of `LIST_LEN` nodes, or `NULL`), and `pc` where a
thread is: `lock` is inside `pthread_mutex_lock`, `while` at the loop test,
`body` in the caller's loop body, `unlock` at the unlock after the loop.

- `FOREACH_IN_THREAD_LIST` is the lock and `td = head`; `LoopTest` is the
  `while`; `ENDFOREACH_NEXT` is `td = td->next`; `ENDFOREACH_UNLOCK` the unlock
  after the loop; `FOREACH_BREAK_THREAD_LIST` an unlock.
- No function of this repository uses the macros, so the loop body is the
  caller's. `Spec` has the bodies the macros are made for: fall through, `break`,
  or `FOREACH_BREAK_THREAD_LIST` then `return`. `SpecContinue` adds a body
  ending in `continue`; `SpecBreakMacro` one ending in
  `FOREACH_BREAK_THREAD_LIST` then `break`.
- Unlocking a default mutex that the caller does not hold is undefined;
  `MutexUnlock` takes both outcomes (glibc releases it; a checking build does
  nothing).

## Runs

| Run | Config | Expect | Checks |
|---|---|---|---|
| `avl_tree` | `MC_AVLTree.cfg` | pass | `TypeOK`, `Balanced` (stored height = real height, balance in {-1,0,1}), `Ordered` (inorder strictly increasing), `RegistrySpec` (AVLTree refines Registry, return values included) |
| `quicksort` | `MC_QuickSort.cfg` | pass | `SortOrders`, `SortPermutes`: the sort of every buffer of length 0..6 over {1,2,3} is sorted and a permutation |
| `array_cycle` | `MC_ArrayRegistry.cfg` | pass | `TypeOK`, `SortedWhileMarking`, `FlagsOnlyFromSearches` (a set flag means a search of *this* cycle hit it), `ReclaimRegistrySpec` (the array registry refines `ReclaimRegistry`: appends only add, each search observes at most one more copy, the filter drops exactly the flagged copies and leaves no flag set), `SearchFindsTarget` |
| `array_duplicates` | `MC_ArrayRegistry_dup.cfg` | violation | `EveryOtherMarked`: with duplicate `rand()` values, two searches land on the same copy, so fewer than half of the entries are marked |
| `workload` | `MC_Workload.cfg` | pass | `Ownership` (every allocated node has exactly one owner: a slot, an in-flight add or remove, the free list or the retirement registry), `RemoverFindsUncollected`, `PrefillTerminates`, `WorkersJoin` (main's join returns, unless an allocation failure exited first), `AtomicSetSpec` (the table refines `AtomicSet`) |
| `workload_overfill` | `MC_Workload_overfill.cfg` | violation | `PrefillTerminates`, with `INITIAL_SIZE` > `KEY_BOUND`: main's prefill loop spins forever |
| `avl_scenario` | `MC_AVLScenario.cfg` | pass | `MarksFindBatch` (action property): every `avl_mark` of the scenario returns found |
| `threadlist` | `MC_ThreadListIter.cfg` | pass | `TypeOK`, `TraversalHoldsLock` (a thread at the loop test or in the body holds `tl->lock`), `LockReleased` (whoever takes `tl->lock` gives it back) |
| `threadlist_break_macro` | `MC_ThreadListIter_break.cfg` | violation | `TraversalHoldsLock`, with bodies that call `FOREACH_BREAK_THREAD_LIST` and then `break` |
| `threadlist_continue` | `MC_ThreadListIter_continue.cfg` | violation | `LockReleased`, with bodies that end in `continue` |
| `util_macros` | `MC_ForkscanUtil.cfg` | pass | `MasksRoundDown` (`PTR_MASK` and `PAGEALIGN` round down without losing high bits), `TimestampSplits` (count + flag = field, raising the flag keeps the count) |

### What the runs show

- **The tree.** Every sequence of `avl.h` calls over six keys keeps the tree balanced with exact stored heights and ordered. Every call refines the abstract registry: no rotation loses or duplicates a key or a mark, and `avl_mark` returns found for a key that is already marked. The bound of six keys covers all four rotation cases, both at the root and below it.
- **The array registry.** The live prefix is sorted whenever it is searched. The flag reset in `filter_marked_array` (line 95) and the reset of the new slots (lines 303-305) together keep stale flags from condemning addresses that the sort moved under them. The registry refines `ReclaimRegistry`: compaction drops exactly the flagged copies, duplicates counted, and the next cycle starts with no address observed.
- **The duplicates violation.** The loop comment says every entry it searches for "is guaranteed to exist", and that holds (`SearchFindsTarget`). But spec §3's uniqueness of keys does not hold for `rand()` addresses, so the every-other-entry marking of spec §4.3 is not what the code does.
- **The workload.** The slot exchange already hands each node to exactly one remover. So the one-shot `collected` flag is never found set, and the "already handed off" branch of `remove_node` is dead. Exactly-once retirement holds without that flag.
- **The overfill violation.** `main` never validates that `argv[2] <= argv[3]`. When it isn't, the prefill never terminates.
- **Linearizability.** The table is linearizable. Every step of `add`, `remove_node` and `contains` is either invisible to the abstract set or is exactly one `AtomicSet` operation, and the return value is right. A lost race shows the point: an `add` that stored without the CAS would return true for a key already present.
- **Wait-freedom.** No operation waits on another thread, so under the fairness below `pthread_join` always returns, unless an allocation failure has already ended the process. `Ownership` and `AtomicSetSpec` hold in every state before such an exit. The mutant that retries the CAS until the slot is free hangs the join.
- **The AVL scenario.** The harness ignores what `avl_mark` returns, so a batch entry missing from the tree would go unmarked without a trace. Over eleven inserts across three cycles, with repeated addresses in a batch, every mark finds its entry: the insert loop covers the whole of `new_array` before the mark loop reads it. An insert loop that stops one entry short leaves the last even-indexed entry unfound. That the tree itself keeps every key and mark is `RegistrySpec` of the `avl_tree` run.
- **The `util.h` macros.** `PTR_MASK` keeps the high half of a pointer only because `~3` is a negative int that sign-extends. Written with an unsigned mask (`~3u`), it clears those bits. The timestamp mask and flag partition the word exactly.
- **The thread-list macros.** Used as intended, the three macros pair every lock with one unlock. `FOREACH_BREAK_THREAD_LIST` followed by `break` unlocks twice. In seven steps, thread 1 unlocks early, thread 2 takes the mutex, and thread 1's second unlock (in `ENDFOREACH_IN_THREAD_LIST`) releases thread 2's mutex. Any third traversal then runs beside thread 2's. A body ending in `continue` jumps over `td = td->next`, which the macro places at the end of the body. It can spin on one node forever holding the mutex.

Mutants: for every property of a passing run, PROJECT.json names a plausible
bug in one mapped definition. Examples are a rotation that leaves a height
stale, a filter that does not reset flags, a plain store in place of the CAS,
and an off-by-one in the modulus of the key draw. TLC finds the property
violated under each of these bugs.

## Bounds and why they are enough

- **AVL:**
  - Keys are 1..6, and `avl_build_from_array` gets arrays of up to 3 keys, duplicates included.
  - Every rotation case, double rotations below the root, and re-marking after rotations all occur.
  - The run reaches about 42 000 states in about 30 s.
- **Quicksort:**
  - `SORT_THRESHOLD = 1` in this run. At the code's value of 16, no buffer TLC can enumerate would ever reach `partition`.
  - With a threshold of 1, buffers of length 6 take several levels of partition recursion, hit the empty ranges at `mid = min` and `mid = max`, and use insertion sort for the ranges of length 2.
  - Values 1..3 give many duplicates of the pivot.
- **Array cycle:**
  - `INITIAL_SIZE = 2`, `NEW_POINTERS = 2`, `ITERATIONS = 3`, and addresses 1..3, so capacity is 8.
  - Three cycles make survivors of one filter meet a new batch twice.
  - This run keeps the code's `SORT_THRESHOLD = 16`, so the sort in this run is insertion sort, as in the real benchmark at these sizes. Partition is covered by the quicksort run.
- **Workload:**
  - Two workers, `KEY_RANGE = 2`, three operations per worker, and a prefill of 2 keys from a range of 2.
  - Both workers can race on one key through every pair of add and remove steps, including two removers of one node and an add whose CAS loses.
- **AVL scenario:**
  - `INITIAL_SIZE = 2`, `NEW_POINTERS = 3` and `ITERATIONS = 3`, with addresses 1..5.
  - Eleven inserts over five values mix repeats with new keys. Every rotation case can occur between the marks.
  - The odd batch length makes the `i += 2` loop exit at `i = 4`.
  - The run reaches about 660 000 states in about 10 s.
- **util.h macros:**
  - `SIZE_BITS = 10`, `INT_BITS = 6` and 16-word pages: every one of the 1024 words is checked.
  - The int is narrower than the word, as on the target, so a zero-extended mask would show.
- **Thread list:**
  - Three threads and a list of two nodes, about 1 000 states.
  - Two threads suffice for a double unlock to release another thread's mutex. The third thread gives a waiter in `pthread_mutex_lock` beside the holder and the early unlocker.
- **Model values and symmetry:**
  - `Nil`, `NoKey` and `NULL` are model values.
  - No symmetry is declared: the thread names appear in the liveness property's fairness, and the keys are ordered.

## Fairness

- **Workers.** The worker steps (`AddCas`, `RemoveCollect`, `WorkerExit`) are weakly fair. Each is a pthread that never blocks, and the OS scheduler keeps running it.
- **Main thread.** `StartWorkers` and `JoinAll` are weakly fair too.
- **Prefill draws.** The prefill draws `rand() % argv[3]`. Each key's draw is strongly fair, because over time `rand()` yields every residue.
- **Thread list.** Each thread's steps inside the macros (taking a free mutex, the loop test, the body, the unlock) are weakly fair: a thread that has entered the traversal keeps running. Starting a traversal is not fair, and waiters get no fairness among themselves, since pthread mutexes promise none. `LockReleased` needs no more than that.
- **Allocation failure.** `AddAllocFails` and `StartAllocFails` have no fairness: an allocator may fail, but nothing makes it fail. `WorkersJoin` accepts the exit as the other way the run ends.
- **Exclusions.** Only `PrefillTerminates`, `WorkersJoin` and `LockReleased` use fairness. The AVL, scenario, sort, array and util modules are checked for safety only.
- **`WorkersJoin`.** This property needs weak fairness only, on the workers' own steps and on the join. Each worker's loop ends: `RUNTIME_SEC` is modelled by the `MaxOps` bound, with `WorkerExit` possible at any loop head.

## Not modelled

- **The rest of `util.h`.**
  - The thread-list, free-list, sort and I/O functions are only declared there. Their code is in the external forkscan runtime.
  - `MALLOC`, `FREE` and `BCAS` forward to that external code.
  - The thread-list traversal macros are `ThreadListIter`. Their callers are not in this repository, so which loop bodies exist is an assumption of each specification.
  - `MIN_OF`, `MAX_OF`, `CACHELINESIZE` and the struct layouts carry no behaviour.
- **The copy of the AVL code inside `sort_test.c` (lines 106-261).** It matches `avl.c` apart from using `forkscan_free`. `AVLTree` covers it, and `AVLScenario` drives it.
- **`avl_inorder`'s callback.** The visitor receives non-const nodes, but no visitor exists in this repository. The model shows the traversal order only.
- **Output and timing.** `get_time_in_sec` and `printf` are left out.
- **Memory orders.** The workload model assumes sequentially consistent atomics. The code uses acquire/release and relaxed orders, and a weak-memory model is beyond this project.
- **Missing arguments.** Reading `argv[2]` and `argv[3]` when `argc <= 3` is argument parsing that happens before any modelled state exists.
- **The operation mix of `worker_thread`.** `UPDATE_RATIO` 20 and `REMOVE_RATIO` 10 give 10% removes, 10% adds and 80% contains, while the comments say about half are updates. Ratios are probabilities, which TLC does not check; the model lets every worker step pick any operation.
- **Workload feeding a registry.** `forkscan_retire` and the reclaimer that would insert retired nodes into a registry are in the external runtime. `Ownership` already shows each node reaches `forkscan_retire` at most once, which is all a composed model could add.
- **Allocation failure in the AVL code.** `avl_create` and `create_node` (`avl.c` lines 19-20 and 152-153) exit when `malloc` returns `NULL`. The tree properties are about the states before such an exit, so the AVL modules leave it out; the workload models the same exit as a fault.
- **The argv hazards without a run.** Missing arguments (`main.c` line 159), `argv[3] = 0` (line 168, `rand() % 0`) and `argv[3] > KEY_RANGE` (an out-of-bounds index) follow from the command line alone; `Workload` assumes `1 <= argv[3] <= KEY_RANGE`, since a run would only restate the configuration.
- **Mixing `free()` with `forkscan_malloc`.** The allocator behind `forkscan_malloc` is external.

## Further work

1. A larger workload instance. Three workers on two slots take over 7 minutes. Three workers, three operations each, on a single slot take about 70 s (5 million states); `Ownership`, `RemoverFindsUncollected` and `AtomicSetSpec` held there when tried, but that instance has no cfg of its own yet.
