------------------------------- MODULE Mutex -------------------------------
(***************************************************************************)
(* The sleeping read/write mutex of the TEE core with its condition        *)
(* variables: core/kernel/mutex.c on top of the wait queue of              *)
(* core/kernel/wait_queue.c and the wait/send notification RPCs of         *)
(* core/kernel/notif.c.                                                    *)
(*                                                                         *)
(* One mutex, any number of threads and condition variables.  Every step   *)
(* is one section the code executes under m->spin_lock, wq_spin_lock or    *)
(* cv->spin_lock, or one RPC to normal world.  Where the code takes        *)
(* wq_spin_lock inside m->spin_lock (to queue itself) the two sections are *)
(* one step: m->state is only accessed under m->spin_lock, so it cannot    *)
(* change between the test of m->state and the insertion in the queue.     *)
(*                                                                         *)
(* A local variable that is dead has its initial value.                    *)
(*                                                                         *)
(* Normal world is external: for every thread it keeps one pending         *)
(* notification, which notif_send_sync() sets and notif_wait() consumes.   *)
(***************************************************************************)
EXTENDS Integers, FiniteSets, SequencesExt

CONSTANTS
    Threads,      \* the threads of the TEE core (thread_get_id())
    Condvars,     \* the condition variables used with this mutex
    NULL,         \* the null pointer, no condition variable, no thread
    RpcFailures   \* the notification RPCs that may fail: "wait", "send"

ASSUME ThreadsFinite == IsFiniteSet(Threads)
ASSUME NullFresh == NULL \notin Threads /\ NULL \notin Condvars
ASSUME RpcFailuresKnown == RpcFailures \subseteq {"wait", "send"}

VARIABLES
    state,    \* m->state: -1 write locked, 0 unlocked, n > 0: n readers
    wq,       \* m->wq: the queued threads, in order
    wqe,      \* each thread's struct wait_queue_elem (it lives on its stack)
    cvm,      \* cv->m: is the condition variable linked to the mutex?
    notif,    \* normal world: a notification is pending for the thread
    pc,       \* where each thread is
    mode,     \* how the thread holds, or wants, the mutex
    opcv,     \* the condition variable of the thread's current operation
    one,      \* cv_signal(): only_one
    wtype,    \* wq_wake_next(): wake_type_assigned and wake_read
    handle,   \* wq_wake_next(): the thread to notify
    ret       \* where the caller of wq_wake_next() continues

vars == <<state, wq, wqe, cvm, notif, pc, mode, opcv, one, wtype, handle, ret>>

Mode == {"read", "write"}
Wqe == [done : BOOLEAN, wait_read : BOOLEAN, cv : Condvars \cup {NULL}]
PC == {"idle", "lock", "sleep", "check", "held", "linked", "promote",
       "wake", "send"}

TypeOK ==
    /\ state \in Nat \cup {-1}
    /\ wq \in Seq(Threads)
    /\ wqe \in [Threads -> Wqe]
    /\ cvm \in [Condvars -> BOOLEAN]
    /\ notif \in [Threads -> BOOLEAN]
    /\ pc \in [Threads -> PC]
    /\ mode \in [Threads -> Mode]
    /\ opcv \in [Threads -> Condvars \cup {NULL}]
    /\ one \in [Threads -> BOOLEAN]
    /\ wtype \in [Threads -> Mode \cup {"any"}]
    /\ handle \in [Threads -> Threads \cup {NULL}]
    /\ ret \in [Threads -> {"idle", "sleep"}]

-----------------------------------------------------------------------------
(* State predicates.                                                       *)

\* t owns the mutex, in the mode mode[t].
Holding(t) == pc[t] \in {"held", "linked", "promote"}

Queued(t) == t \in Range(wq)

\* t is in the queue and waits for the mutex, not for a condition variable,
\* and nobody has decided yet to wake it.
Active(t) == Queued(t) /\ ~wqe[t].done /\ wqe[t].cv = NULL

\* t waits for the condition variable c.
WaitsFor(t, c) == Queued(t) /\ wqe[t].cv = c

-----------------------------------------------------------------------------
(* The wait queue (wait_queue.c).                                          *)

\* Mutant: the element goes to the head of the queue.
EnqueueFirst(t, wait_read, cv) ==
    /\ wqe' = [wqe EXCEPT ![t] = [done |-> FALSE, wait_read |-> wait_read,
                                  cv |-> cv]]
    /\ wq' = <<t>> \o wq

\* wq_wait_init_condvar(): the element goes to the tail of the queue.
Enqueue(t, wait_read, cv) ==
    /\ wqe' = [wqe EXCEPT ![t] = [done |-> FALSE, wait_read |-> wait_read,
                                  cv |-> cv]]
    /\ wq' = Append(wq, t)

\* wq_wake_next() may wake the thread at position i of the queue.
MayWake(i, type) ==
    /\ wqe[wq[i]].cv = NULL
    /\ ~wqe[wq[i]].done
    /\ \/ type = "any"
       \/ wqe[wq[i]].wait_read = (type = "read")

\* The first position the scan of wq_wake_next() stops at.
NextToWake(i, type) ==
    /\ MayWake(i, type)
    /\ \A j \in 1..(i - 1) : ~MayWake(j, type)

\* The positions wq_promote_condvar() promotes.
Promoted(i, cv, only_one) ==
    /\ wqe[wq[i]].cv = cv
    /\ only_one => \A j \in 1..(i - 1) : wqe[wq[j]].cv # cv

-----------------------------------------------------------------------------
\* An element that is in no queue.
NoWqe == [done |-> FALSE, wait_read |-> FALSE, cv |-> NULL]

Init ==
    /\ state = 0
    /\ wq = <<>>
    /\ wqe = [t \in Threads |-> NoWqe]
    /\ cvm = [c \in Condvars |-> FALSE]
    /\ notif = [t \in Threads |-> FALSE]
    /\ pc = [t \in Threads |-> "idle"]
    /\ mode = [t \in Threads |-> "write"]
    /\ opcv = [t \in Threads |-> NULL]
    /\ one = [t \in Threads |-> FALSE]
    /\ wtype = [t \in Threads |-> "any"]
    /\ handle = [t \in Threads |-> NULL]
    /\ ret = [t \in Threads |-> "idle"]

\* Mutant: a writer only looks for another writer.
CanLockBesideReaders(m) == state # -1

\* can_lock of __mutex_lock() and __mutex_read_lock().
CanLock(m) == IF m = "read" THEN state # -1 ELSE state = 0

\* m->state once the mutex is taken in mode m.
LockedState(m) == IF m = "read" THEN state + 1 ELSE -1

\* A thread calls mutex_lock() (m = "write") or mutex_read_lock().
Call(t, m) ==
    /\ pc[t] = "idle"
    /\ mode' = [mode EXCEPT ![t] = m]
    /\ pc' = [pc EXCEPT ![t] = "lock"]
    /\ UNCHANGED <<state, wq, wqe, cvm, notif, opcv, one, wtype, handle, ret>>

\* The section under m->spin_lock of __mutex_lock() and __mutex_read_lock():
\* the mutex is free and taken.
Acquire(t) ==
    /\ pc[t] = "lock"
    /\ CanLock(mode[t])
    /\ state' = LockedState(mode[t])
    /\ pc' = [pc EXCEPT ![t] = "held"]
    /\ UNCHANGED <<wq, wqe, cvm, notif, mode, opcv, one, wtype, handle, ret>>

\* The same section when the mutex is not available: the thread queues
\* itself before it releases m->spin_lock.
Block(t) ==
    /\ pc[t] = "lock"
    /\ ~CanLock(mode[t])
    /\ Enqueue(t, mode[t] = "read", NULL)
    /\ pc' = [pc EXCEPT ![t] = "sleep"]
    /\ UNCHANGED <<state, cvm, notif, mode, opcv, one, wtype, handle, ret>>

\* __mutex_trylock() and __mutex_read_trylock() that succeed; a failing call
\* changes nothing.
TryLock(t, m) ==
    /\ pc[t] = "idle"
    /\ CanLock(m)
    /\ state' = LockedState(m)
    /\ mode' = [mode EXCEPT ![t] = m]
    /\ pc' = [pc EXCEPT ![t] = "held"]
    /\ UNCHANGED <<wq, wqe, cvm, notif, opcv, one, wtype, handle, ret>>

\* wq_wait_final(): the RPC notif_wait() returns because of a notification.
NotifWait(t) ==
    /\ pc[t] = "sleep"
    /\ notif[t]
    /\ notif' = [notif EXCEPT ![t] = FALSE]
    /\ pc' = [pc EXCEPT ![t] = "check"]
    /\ UNCHANGED <<state, wq, wqe, cvm, mode, opcv, one, wtype, handle, ret>>

\* wq_wait_final(): the RPC notif_wait() fails (no memory for the RPC
\* argument); do_notif() only logs it.
NotifWaitError(t) ==
    /\ "wait" \in RpcFailures
    /\ pc[t] = "sleep"
    /\ pc' = [pc EXCEPT ![t] = "check"]
    /\ UNCHANGED <<state, wq, wqe, cvm, notif, mode, opcv, one, wtype, handle,
                   ret>>

\* Mutant: a woken thread does not leave the queue.
CheckDoneNoRemove(t) ==
    /\ pc[t] = "check"
    /\ pc' = [pc EXCEPT ![t] = IF wqe[t].done THEN "lock" ELSE "sleep"]
    /\ UNCHANGED <<state, wq, wqe, cvm, notif, mode, opcv, one, wtype, handle,
                   ret>>

\* wq_wait_final(): the section after the RPC.  A woken thread leaves the
\* queue and its caller tries to lock again; the others sleep again.
CheckDone(t) ==
    /\ pc[t] = "check"
    /\ IF wqe[t].done
       THEN /\ \E i \in DOMAIN wq : wq[i] = t /\ wq' = RemoveAt(wq, i)
            /\ wqe' = [wqe EXCEPT ![t] = NoWqe]
            /\ pc' = [pc EXCEPT ![t] = "lock"]
       ELSE /\ UNCHANGED <<wq, wqe>>
            /\ pc' = [pc EXCEPT ![t] = "sleep"]
    /\ UNCHANGED <<state, cvm, notif, mode, opcv, one, wtype, handle, ret>>

-----------------------------------------------------------------------------
\* Mutant: a writer is counted like a reader.
ReleasedStateDecrement == state - 1

\* m->state after one holder has left (__mutex_unlock(),
\* __mutex_read_unlock(), __condvar_wait()).
ReleasedState == IF state > 1 THEN state - 1 ELSE 0

\* Mutant: only the last reader to leave wakes the waiters.
WakeIfLastReader(t, r) ==
    /\ pc' = [pc EXCEPT ![t] = IF state = 1 THEN "wake" ELSE r]
    /\ ret' = [ret EXCEPT ![t] = IF state = 1 THEN r ELSE "idle"]

\* The caller enters wq_wake_next() if the mutex became free, and continues
\* at r otherwise.
WakeIfFree(t, r) ==
    /\ pc' = [pc EXCEPT ![t] = IF ReleasedState = 0 THEN "wake" ELSE r]
    /\ ret' = [ret EXCEPT ![t] = IF ReleasedState = 0 THEN r ELSE "idle"]

\* __mutex_unlock() and __mutex_read_unlock(): the section under
\* m->spin_lock.
Unlock(t) ==
    /\ pc[t] = "held"
    /\ state' = ReleasedState
    /\ WakeIfFree(t, "idle")
    /\ mode' = [mode EXCEPT ![t] = "write"]
    /\ UNCHANGED <<wq, wqe, cvm, notif, opcv, one, wtype, handle>>

\* wq_wake_next() returns to its caller.
WakeReturn(t) ==
    /\ pc' = [pc EXCEPT ![t] = ret[t]]
    /\ ret' = [ret EXCEPT ![t] = "idle"]
    /\ wtype' = [wtype EXCEPT ![t] = "any"]

\* Mutant: the RPC is done after the loop, for the last selected thread only.
WakePickSendLater(t) ==
    /\ pc[t] = "wake"
    /\ \E i \in DOMAIN wq :
         /\ NextToWake(i, wtype[t])
         /\ wqe' = [wqe EXCEPT ![wq[i]].done = TRUE]
         /\ handle' = [handle EXCEPT ![t] = wq[i]]
         /\ wtype' = [wtype EXCEPT ![t] = IF wqe[wq[i]].wait_read THEN "read"
                                                                  ELSE "write"]
         /\ pc' = [pc EXCEPT ![t] = IF wqe[wq[i]].wait_read THEN "wake"
                                                            ELSE "send"]
    /\ UNCHANGED <<state, wq, cvm, notif, mode, opcv, one, ret>>

\* wq_wake_next(): one iteration of the loop finds a thread to wake.
WakePick(t) ==
    /\ pc[t] = "wake"
    /\ \E i \in DOMAIN wq :
         /\ NextToWake(i, wtype[t])
         /\ wqe' = [wqe EXCEPT ![wq[i]].done = TRUE]
         /\ handle' = [handle EXCEPT ![t] = wq[i]]
         /\ wtype' = [wtype EXCEPT ![t] = IF wqe[wq[i]].wait_read THEN "read"
                                                                  ELSE "write"]
    /\ pc' = [pc EXCEPT ![t] = "send"]
    /\ UNCHANGED <<state, wq, cvm, notif, mode, opcv, one, ret>>

\* wq_wake_next(): the queue holds no thread to wake, the loop ends.
WakeNone(t) ==
    /\ pc[t] = "wake"
    /\ \A i \in DOMAIN wq : ~MayWake(i, wtype[t])
    /\ WakeReturn(t)
    /\ UNCHANGED <<state, wq, wqe, cvm, notif, mode, opcv, one, handle>>

\* wq_wake_next() after a wakeup: all readers are woken, but one writer only.
WakeContinue(t) ==
    /\ handle' = [handle EXCEPT ![t] = NULL]
    /\ IF wtype[t] = "read"
       THEN pc' = [pc EXCEPT ![t] = "wake"] /\ UNCHANGED <<wtype, ret>>
       ELSE WakeReturn(t)

\* The RPC notif_send_sync() of wq_wake_next().
NotifSendSync(t) ==
    /\ pc[t] = "send"
    /\ notif' = [notif EXCEPT ![handle[t]] = TRUE]
    /\ WakeContinue(t)
    /\ UNCHANGED <<state, wq, wqe, cvm, mode, opcv, one>>

\* The RPC notif_send_sync() fails; do_notif() only logs it.
NotifSendError(t) ==
    /\ "send" \in RpcFailures
    /\ pc[t] = "send"
    /\ WakeContinue(t)
    /\ UNCHANGED <<state, wq, wqe, cvm, notif, mode, opcv, one>>

-----------------------------------------------------------------------------
\* __condvar_wait(): link the condition variable to the mutex.
CondvarLink(t, c) ==
    /\ pc[t] = "held"
    /\ cvm' = [cvm EXCEPT ![c] = TRUE]
    /\ opcv' = [opcv EXCEPT ![t] = c]
    /\ pc' = [pc EXCEPT ![t] = "linked"]
    /\ UNCHANGED <<state, wq, wqe, notif, mode, one, wtype, handle, ret>>

\* Mutant: the mode to lock in again is read from the new m->state.
CondvarReleaseNewState(t) ==
    /\ pc[t] = "linked"
    /\ Enqueue(t, state > 0, opcv[t])
    /\ state' = ReleasedState
    /\ mode' = [mode EXCEPT ![t] = IF ReleasedState > 0 THEN "read"
                                                       ELSE "write"]
    /\ WakeIfFree(t, "sleep")
    /\ opcv' = [opcv EXCEPT ![t] = NULL]
    /\ UNCHANGED <<cvm, notif, one, wtype, handle>>

\* __condvar_wait(): queue the thread as a condvar waiter and release the
\* mutex in one section under m->spin_lock.  The thread will lock the mutex
\* again in the mode it had (old_state).
CondvarRelease(t) ==
    /\ pc[t] = "linked"
    /\ Enqueue(t, state > 0, opcv[t])
    /\ state' = ReleasedState
    /\ mode' = [mode EXCEPT ![t] = IF state > 0 THEN "read" ELSE "write"]
    /\ WakeIfFree(t, "sleep")
    /\ opcv' = [opcv EXCEPT ![t] = NULL]
    /\ UNCHANGED <<cvm, notif, one, wtype, handle>>

\* cv_signal() and its callers condvar_signal() (only_one) and
\* condvar_broadcast(): read cv->m.  Every caller in the core owns the mutex.
\* A condition variable nobody ever waited for is not linked: nothing to do.
CondvarSignal(t, c, only_one) ==
    /\ pc[t] = "held"
    /\ cvm[c]
    /\ opcv' = [opcv EXCEPT ![t] = c]
    /\ one' = [one EXCEPT ![t] = only_one]
    /\ pc' = [pc EXCEPT ![t] = "promote"]
    /\ UNCHANGED <<state, wq, wqe, cvm, notif, mode, wtype, handle, ret>>

\* wq_promote_condvar(): the first condvar waiter, or all of them, become
\* waiters for the mutex.  Nobody is notified here.
CondvarPromote(t) ==
    /\ pc[t] = "promote"
    /\ wqe' = [u \in Threads |->
                 IF \E i \in DOMAIN wq :
                       wq[i] = u /\ Promoted(i, opcv[t], one[t])
                 THEN [wqe[u] EXCEPT !.cv = NULL]
                 ELSE wqe[u]]
    /\ pc' = [pc EXCEPT ![t] = "held"]
    /\ opcv' = [opcv EXCEPT ![t] = NULL]
    /\ one' = [one EXCEPT ![t] = FALSE]
    /\ UNCHANGED <<state, wq, cvm, notif, mode, wtype, handle, ret>>

\* Mutant: a condition variable is initialized again while a thread waits.
CondvarDestroyInUse(t, c) ==
    /\ pc[t] \in {"idle", "held"}
    /\ cvm[c]
    /\ \A u \in Threads : opcv[u] # c
    /\ cvm' = [cvm EXCEPT ![c] = FALSE]
    /\ UNCHANGED <<state, wq, wqe, notif, pc, mode, opcv, one, wtype, handle,
                   ret>>

\* condvar_destroy().  The caller guarantees that nobody is about to use the
\* condition variable; wq_have_condvar() tells that nobody waits for it (the
\* code panics otherwise).
CondvarDestroy(t, c) ==
    /\ pc[t] \in {"idle", "held"}
    /\ cvm[c]
    /\ \A u \in Threads : opcv[u] # c /\ ~WaitsFor(u, c)
    /\ cvm' = [cvm EXCEPT ![c] = FALSE]
    /\ UNCHANGED <<state, wq, wqe, notif, pc, mode, opcv, one, wtype, handle,
                   ret>>

-----------------------------------------------------------------------------
\* Steps of an operation in progress: the thread runs until the operation is
\* complete.
Progress(t) ==
    \/ Acquire(t) \/ Block(t)
    \/ NotifWait(t) \/ CheckDone(t)
    \/ WakePick(t) \/ WakeNone(t) \/ NotifSendSync(t)
    \/ CondvarRelease(t) \/ CondvarPromote(t)

\* Failures of the RPCs.
Failure(t) == NotifWaitError(t) \/ NotifSendError(t)

\* What a thread chooses to do with the mutex.
Client(t) ==
    \/ \E m \in Mode : Call(t, m) \/ TryLock(t, m)
    \/ \E c \in Condvars : \/ CondvarLink(t, c)
                           \/ CondvarDestroy(t, c)
                           \/ \E only_one \in BOOLEAN :
                                 CondvarSignal(t, c, only_one)

Next == \E t \in Threads : Progress(t) \/ Failure(t) \/ Client(t) \/ Unlock(t)

Spec == Init /\ [][Next]_vars

\* Normal world schedules every thread that can run and the core's code
\* between two RPCs never blocks; a thread does not go on signalling forever
\* inside its critical section, it unlocks.
Fairness == \A t \in Threads : WF_vars(Progress(t)) /\ SF_vars(Unlock(t))

FairSpec == Spec /\ Fairness

-----------------------------------------------------------------------------
(* Safety.                                                                 *)

Writers == {t \in Threads : Holding(t) /\ mode[t] = "write"}
Readers == {t \in Threads : Holding(t) /\ mode[t] = "read"}

\* Mutual exclusion: a writer owns the mutex alone, and m->state tells
\* exactly who owns it (mutex.h: "-1: write, 0: unlocked, > 0: readers").
MutualExclusion ==
    /\ Writers # {} => /\ Readers = {}
                       /\ Cardinality(Writers) = 1
                       /\ state = -1
    /\ Writers = {} => state = Cardinality(Readers)

\* t will reach wq_wake_next() with a fresh scan, or is there: it owns the
\* mutex, is about to try to lock it, is about to scan the queue, or has been
\* selected for wakeup and will try to lock.
Obliged(t) ==
    \/ Holding(t)
    \/ pc[t] = "lock"
    \/ pc[t] = "wake" /\ wtype[t] = "any"
    \/ Queued(t) /\ wqe[t].done

\* No forgotten waiter: as long as somebody waits for the mutex, some other
\* thread is bound to look at the queue again.  This is what the comment in
\* __mutex_lock() asks for ("guarantee that we don't miss the wakeup").
NoForgottenWaiter ==
    (\E t \in Threads : Active(t)) => \E t \in Threads : Obliged(t)

\* A thread that was selected for wakeup and sleeps in normal world has its
\* notification pending or about to be sent.
WakeupInFlight ==
    \A t \in Threads :
        (pc[t] = "sleep" /\ wqe[t].done) =>
            \/ notif[t]
            \/ \E u \in Threads : pc[u] = "send" /\ handle[u] = t

\* t is between wq_wait_init_condvar() and the end of wq_wait_final(), where
\* its element is in use.
InWait(t) ==
    \/ pc[t] \in {"sleep", "check"}
    \/ pc[t] \in {"wake", "send"} /\ ret[t] = "sleep"

\* No dangling element: the queue holds exactly the elements that live on the
\* stack of a thread inside the wait functions, each of them once.  (So a
\* mutex every thread has left can be destroyed: mutex_destroy() panics if
\* the queue is not empty.)
NoDanglingElement ==
    /\ \A t \in Threads : Queued(t) <=> InWait(t)
    /\ \A i, j \in DOMAIN wq : wq[i] = wq[j] => i = j

\* No signal is lost because the condition variable is not linked yet: a
\* thread that waits for it has linked it (cv_signal() skips one with a null
\* cv->m).
WaiterSignallable ==
    \A t \in Threads, c \in Condvars : WaitsFor(t, c) => cvm[c]

-----------------------------------------------------------------------------
(* Refinement.                                                             *)

\* Where a thread is for the user of the mutex: what happens in wq_wake_next()
\* and wq_wait_final() is not visible.
Phase(t) ==
    CASE Holding(t)                           -> "own"
      [] Queued(t) /\ wqe[t].cv # NULL        -> "wait"
      [] \/ pc[t] = "idle"
         \/ pc[t] \in {"wake", "send"} /\ ret[t] = "idle" -> "out"
      [] OTHER                                -> "want"

Abstract == INSTANCE Monitor WITH
                phase <- [t \in Threads |-> Phase(t)],
                how <- mode,
                cv <- [t \in Threads |-> wqe[t].cv]

\* The mutex and its condition variables implement the monitor of mutex.h:
\* in particular __condvar_wait() releases the mutex and starts to wait at
\* once, no signal can fall in between.
ImplementsMonitor == Abstract!Spec

-----------------------------------------------------------------------------
(* Liveness.                                                               *)

\* As long as the mutex becomes free again and again, every thread in the
\* queue that waits for it, promoted condvar waiters included, is selected for
\* wakeup by wq_wake_next() in the end.  The premise is needed: readers that
\* overlap keep the mutex and a queued writer out, since __mutex_read_lock()
\* does not look at the queue.
EveryWaiterSelected ==
    []<>(state = 0) => \A t \in Threads : Active(t) ~> ~Active(t)

\* A selected thread wakes up in normal world and comes back to the mutex.
SelectedComesBack ==
    \A t \in Threads : (pc[t] = "sleep" /\ wqe[t].done) ~> pc[t] = "lock"
=============================================================================
