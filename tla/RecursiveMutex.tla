--------------------------- MODULE RecursiveMutex ---------------------------
(***************************************************************************)
(* The recursive mutex of core/kernel/mutex.c, on top of the mutex that    *)
(* Monitor describes and Mutex implements.                                 *)
(*                                                                         *)
(* The owner field is read without holding the mutex.  That is correct     *)
(* only if no value another thread stores there makes a thread believe     *)
(* that it owns the mutex, and if the owner is cleared before the mutex is *)
(* released.  A step is one atomic access to a field or one operation on   *)
(* the mutex.                                                              *)
(***************************************************************************)
EXTENDS Integers

CONSTANTS
    Threads,    \* the threads of the TEE core
    NULL,       \* THREAD_ID_INVALID
    MaxDepth    \* a bound on the number of nested locks

ASSUME NullNoThread == NULL \notin Threads
ASSUME DepthBound == MaxDepth \in Nat \ {0}

VARIABLES
    mu,      \* m->m: where each thread is (the phases of Monitor)
    owner,   \* m->owner
    depth,   \* m->lock_depth
    pc,      \* where each thread is
    nest,    \* how many of its locks each thread has not unlocked
    panic    \* an assertion failed or panic() was called

vars == <<mu, owner, depth, pc, nest, panic>>

PC == {"idle", "inc", "lock", "store", "setdepth", "clear", "release"}

TypeOK ==
    /\ mu \in [Threads -> {"out", "want", "own", "wait"}]
    /\ owner \in Threads \cup {NULL}
    /\ depth \in Nat
    /\ pc \in [Threads -> PC]
    /\ nest \in [Threads -> Nat]
    /\ panic \in BOOLEAN

\* The mutex is only write locked and has no condition variable.
Mu == INSTANCE Monitor WITH
          Condvars <- {},
          phase <- mu,
          how <- [t \in Threads |-> "write"],
          cv <- [t \in Threads |-> NULL]

\* RECURSIVE_MUTEX_INITIALIZER
Init ==
    /\ mu = [t \in Threads |-> "out"]
    /\ owner = NULL
    /\ depth = 0
    /\ pc = [t \in Threads |-> "idle"]
    /\ nest = [t \in Threads |-> 0]
    /\ panic = FALSE

Goto(t, l) == pc' = [pc EXCEPT ![t] = l]

-----------------------------------------------------------------------------
(* __mutex_lock_recursive()                                                *)

\* Mutant: the thread takes a mutex that is locked for its own.
LockLoadDepth(t) ==
    /\ pc[t] = "idle"
    /\ nest[t] < MaxDepth
    /\ Goto(t, IF depth # 0 THEN "inc" ELSE "lock")
    /\ UNCHANGED <<mu, owner, depth, nest, panic>>

\* The atomic load of the owner, without the mutex.
LockLoad(t) ==
    /\ pc[t] = "idle"
    /\ nest[t] < MaxDepth
    /\ Goto(t, IF owner = t THEN "inc" ELSE "lock")
    /\ UNCHANGED <<mu, owner, depth, nest, panic>>

\* Mutant: a nested lock is not counted.
LockIncNone(t) ==
    /\ pc[t] = "inc"
    /\ nest' = [nest EXCEPT ![t] = @ + 1]
    /\ Goto(t, "idle")
    /\ UNCHANGED <<mu, owner, depth, panic>>

\* The thread owns the mutex: refcount_inc(), and panic() if it fails.
LockInc(t) ==
    /\ pc[t] = "inc"
    /\ depth' = depth + (IF depth # 0 THEN 1 ELSE 0)
    /\ panic' = (depth = 0)
    /\ nest' = [nest EXCEPT ![t] = @ + 1]
    /\ Goto(t, "idle")
    /\ UNCHANGED <<mu, owner>>

\* __mutex_lock() returns; assert(m->owner == THREAD_ID_INVALID).
LockMutex(t) ==
    /\ pc[t] = "lock"
    /\ Mu!Try(t, "write")
    /\ panic' = (owner # NULL)
    /\ Goto(t, "store")
    /\ UNCHANGED <<owner, depth, nest>>

\* The atomic store of the owner.
LockStore(t) ==
    /\ pc[t] = "store"
    /\ owner' = t
    /\ Goto(t, "setdepth")
    /\ UNCHANGED <<mu, depth, nest, panic>>

\* refcount_set(&m->lock_depth, 1)
LockDepth(t) ==
    /\ pc[t] = "setdepth"
    /\ depth' = 1
    /\ nest' = [nest EXCEPT ![t] = 1]
    /\ Goto(t, "idle")
    /\ UNCHANGED <<mu, owner, panic>>

-----------------------------------------------------------------------------
(* __mutex_unlock_recursive(), called by a thread that has locked it.      *)

\* Mutant: the owner is not cleared.
UnlockDecKeepOwner(t) ==
    /\ pc[t] = "idle"
    /\ nest[t] > 0
    /\ panic' = (owner # t \/ depth = 0)
    /\ depth' = depth - 1
    /\ nest' = [nest EXCEPT ![t] = @ - 1]
    /\ Goto(t, IF depth = 1 THEN "release" ELSE "idle")
    /\ UNCHANGED <<mu, owner>>

\* assert(m->owner == thread_get_id()); refcount_dec().
UnlockDec(t) ==
    /\ pc[t] = "idle"
    /\ nest[t] > 0
    /\ panic' = (owner # t \/ depth = 0)
    /\ depth' = depth - 1
    /\ nest' = [nest EXCEPT ![t] = @ - 1]
    /\ Goto(t, IF depth = 1 THEN "clear" ELSE "idle")
    /\ UNCHANGED <<mu, owner>>

\* The last unlock: the atomic store of THREAD_ID_INVALID ...
UnlockClear(t) ==
    /\ pc[t] = "clear"
    /\ owner' = NULL
    /\ Goto(t, "release")
    /\ UNCHANGED <<mu, depth, nest, panic>>

\* ... and __mutex_unlock().
UnlockMutex(t) ==
    /\ pc[t] = "release"
    /\ Mu!Release(t)
    /\ Goto(t, "idle")
    /\ UNCHANGED <<owner, depth, nest, panic>>

-----------------------------------------------------------------------------
Next ==
    /\ ~panic
    /\ \E t \in Threads :
         \/ LockLoad(t) \/ LockInc(t) \/ LockMutex(t) \/ LockStore(t)
         \/ LockDepth(t)
         \/ UnlockDec(t) \/ UnlockClear(t) \/ UnlockMutex(t)

Spec == Init /\ [][Next]_vars

-----------------------------------------------------------------------------
(* Safety.                                                                 *)

\* A thread between its outermost lock and the matching unlock excludes all
\* others, although the owner is read without the mutex.
RecursiveExclusion ==
    \A t, u \in Threads : nest[t] > 0 /\ nest[u] > 0 => t = u

\* The counter agrees with the nesting of the thread that has locked: its
\* inner unlocks leave it the mutex, its outermost one does not.
DepthIsNesting ==
    \A t \in Threads :
        nest[t] > 0 => mu[t] = "own" /\ owner = t /\ depth = nest[t]

\* The assertions of __mutex_lock_recursive() and __mutex_unlock_recursive()
\* hold and refcount_inc() does not fail.
AssertionsHold == ~panic

\* The recursive mutex excludes and counts right, and no assertion of
\* mutex.c fails.
RecursiveSafety ==
    TypeOK /\ RecursiveExclusion /\ DepthIsNesting /\ AssertionsHold
=============================================================================
