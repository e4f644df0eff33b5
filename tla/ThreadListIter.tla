--------------------------- MODULE ThreadListIter ---------------------------
(***************************************************************************)
(* The thread-list traversal macros of src/forkscan-changed/util.h:        *)
(* FOREACH_IN_THREAD_LIST locks tl->lock and walks td from tl->head,        *)
(* ENDFOREACH_IN_THREAD_LIST closes the loop body with td = td->next and    *)
(* unlocks after the loop, FOREACH_BREAK_THREAD_LIST unlocks for a caller   *)
(* that leaves the loop early.  The list is a fixed chain of LIST_LEN       *)
(* thread_data_t nodes, td is a position in it or NULL.  The loop body is   *)
(* the caller's (no caller is in the repository).  Spec has the bodies    *)
(* that fall through to ENDFOREACH, break, or call                        *)
(* FOREACH_BREAK_THREAD_LIST and return; SpecContinue adds a body ending   *)
(* in continue, SpecBreakMacro one ending in FOREACH_BREAK_THREAD_LIST     *)
(* followed by break.  Threads wait in pthread_mutex_lock, then hold the   *)
(* lock while in the loop.                                                 *)
(***************************************************************************)
EXTENDS Integers

CONSTANTS
    Threads,        \* the threads traversing the list (model values)
    LIST_LEN,       \* number of nodes on tl->head's chain
    NoOwner,        \* the owner of an unlocked mutex (a model value)
    NULL            \* the null pointer (a model value)

VARIABLES
    owner,          \* the thread holding tl->lock, or NoOwner
    pc,             \* per thread: "idle", "lock" (in pthread_mutex_lock),
                    \*   "while" (at the loop test), "body", "unlock"
    td              \* per thread: its td variable

vars == <<owner, pc, td>>

Nodes == 1 .. LIST_LEN

\* Fault variant of the chain whose last node's next is not NULL
NextOfUnterminated(n) == n + 1

\* td->next along the chain; the last node's next is NULL
NextOf(n) == IF n = LIST_LEN THEN NULL ELSE n + 1

\* pthread_mutex_unlock(&tl->lock) by t.  Unlocking a default mutex that
\* t does not hold is undefined: glibc releases it, a checking build
\* leaves it alone.
MutexUnlock(t) ==
    IF owner = t THEN owner' = NoOwner ELSE owner' \in {NoOwner, owner}

-----------------------------------------------------------------------------

\* the caller reaches the macro and calls pthread_mutex_lock
CallLock(t) ==
    /\ pc[t] = "idle"
    /\ pc' = [pc EXCEPT ![t] = "lock"]
    /\ UNCHANGED <<owner, td>>

\* Fault variant of FOREACH_IN_THREAD_LIST without the pthread_mutex_lock
ForeachNoLock(t) ==
    /\ pc[t] = "lock"
    /\ td' = [td EXCEPT ![t] = IF LIST_LEN = 0 THEN NULL ELSE 1]
    /\ pc' = [pc EXCEPT ![t] = "while"]
    /\ UNCHANGED owner

\* FOREACH_IN_THREAD_LIST: pthread_mutex_lock(&tl->lock) returns once the
\* mutex is free; (td) = (tl)->head
FOREACH_IN_THREAD_LIST(t) ==
    /\ pc[t] = "lock"
    /\ owner = NoOwner
    /\ owner' = t
    /\ td' = [td EXCEPT ![t] = IF LIST_LEN = 0 THEN NULL ELSE 1]
    /\ pc' = [pc EXCEPT ![t] = "while"]

\* while (NULL != (td))
LoopTest(t) ==
    /\ pc[t] = "while"
    /\ pc' = [pc EXCEPT ![t] = IF td[t] # NULL THEN "body" ELSE "unlock"]
    /\ UNCHANGED <<owner, td>>

\* Fault variant of the loop end of ENDFOREACH without (td) = (td)->next
EndforeachStuck(t) ==
    /\ pc' = [pc EXCEPT ![t] = "while"]
    /\ UNCHANGED <<owner, td>>

\* ENDFOREACH_IN_THREAD_LIST, end of the loop body: (td) = (td)->next; }
ENDFOREACH_NEXT(t) ==
    /\ td' = [td EXCEPT ![t] = NextOf(td[t])]
    /\ pc' = [pc EXCEPT ![t] = "while"]
    /\ UNCHANGED owner

\* FOREACH_BREAK_THREAD_LIST(tl): pthread_mutex_unlock(&(tl)->lock)
FOREACH_BREAK_THREAD_LIST(t) == MutexUnlock(t)

\* the caller's loop body, ending as it should: falling through to
\* ENDFOREACH, break, or FOREACH_BREAK_THREAD_LIST(tl) followed by return
Body(t) ==
    /\ pc[t] = "body"
    /\ \/ ENDFOREACH_NEXT(t)
       \/ /\ pc' = [pc EXCEPT ![t] = "unlock"]
          /\ UNCHANGED <<owner, td>>
       \/ /\ FOREACH_BREAK_THREAD_LIST(t)
          /\ pc' = [pc EXCEPT ![t] = "idle"]
          /\ UNCHANGED td

\* a loop body ending in continue, which jumps over ENDFOREACH's td = td->next
BodyContinue(t) ==
    /\ pc[t] = "body"
    /\ pc' = [pc EXCEPT ![t] = "while"]
    /\ UNCHANGED <<owner, td>>

\* a loop body ending in FOREACH_BREAK_THREAD_LIST(tl); break, which goes on
\* to the unlock of ENDFOREACH as well
BodyBreakMacro(t) ==
    /\ pc[t] = "body"
    /\ FOREACH_BREAK_THREAD_LIST(t)
    /\ pc' = [pc EXCEPT ![t] = "unlock"]
    /\ UNCHANGED td

\* ENDFOREACH_IN_THREAD_LIST after the loop: pthread_mutex_unlock(&(tl)->lock)
ENDFOREACH_UNLOCK(t) ==
    /\ pc[t] = "unlock"
    /\ MutexUnlock(t)
    /\ pc' = [pc EXCEPT ![t] = "idle"]
    /\ UNCHANGED td

Init ==
    /\ owner = NoOwner
    /\ pc = [t \in Threads |-> "idle"]
    /\ td = [t \in Threads |-> NULL]

\* every step of a thread that has the mutex, or is waiting for it
Traverse(t) ==
    \/ FOREACH_IN_THREAD_LIST(t)
    \/ LoopTest(t)
    \/ Body(t)
    \/ ENDFOREACH_UNLOCK(t)

Next == \E t \in Threads : CallLock(t) \/ Traverse(t)

\* A thread inside the macros keeps running; it need not start another
\* traversal, and pthread mutexes promise no fairness among waiters.
Fairness == \A t \in Threads : WF_vars(Traverse(t))

Spec == Init /\ [][Next]_vars /\ Fairness

\* callers whose loop bodies may also end in continue
SpecContinue ==
    /\ Init
    /\ [][Next \/ \E t \in Threads : BodyContinue(t)]_vars
    /\ \A t \in Threads : WF_vars(Traverse(t) \/ BodyContinue(t))

\* callers whose loop bodies may also end in FOREACH_BREAK_THREAD_LIST; break
SpecBreakMacro ==
    /\ Init
    /\ [][Next \/ \E t \in Threads : BodyBreakMacro(t)]_vars
    /\ \A t \in Threads : WF_vars(Traverse(t) \/ BodyBreakMacro(t))

-----------------------------------------------------------------------------

TypeOK ==
    /\ owner \in Threads \cup {NoOwner}
    /\ pc \in [Threads -> {"idle", "lock", "while", "body", "unlock"}]
    /\ td \in [Threads -> Nodes \cup {NULL}]

(* A thread walking the list (at the loop test or in the body, where it   *)
(* reads td->next) holds tl->lock, so no other thread can hold it and      *)
(* change the list under it.  The lock and unlock calls of the three       *)
(* macros must pair up in every way the body can leave the loop.          *)
TraversalHoldsLock == \A t \in Threads : pc[t] \in {"while", "body"} => owner = t

(* Whoever takes tl->lock in FOREACH_IN_THREAD_LIST gives it back: the    *)
(* traversal reaches its end or a break, and the unlock follows, so the    *)
(* threads blocked in pthread_mutex_lock are not blocked forever.          *)
LockReleased == \A t \in Threads : (owner = t) ~> (owner # t)
=============================================================================
