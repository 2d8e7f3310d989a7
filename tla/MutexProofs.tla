---------------------------- MODULE MutexProofs ----------------------------
(***************************************************************************)
(* Machine-checked proofs about Mutex, for any number of threads and       *)
(* condition variables.                                                    *)
(***************************************************************************)
EXTENDS Mutex, ListLemmas, FiniteSetTheorems, SequenceTheorems, TLAPS

-----------------------------------------------------------------------------
(* Type correctness.                                                       *)

\* An element that is marked done is an element.
LEMMA MarkDone == ASSUME NEW e \in Wqe PROVE [e EXCEPT !.done = TRUE] \in Wqe
BY DEF Wqe

\* m->state stays a count of readers or -1, and every local has its type.
THEOREM TypeCorrect == Spec => []TypeOK
<1>1. Init => TypeOK
  BY DEF Init, TypeOK, Mode, Wqe, NoWqe, PC
<1>2. TypeOK /\ [Next]_vars => TypeOK'
  <2> SUFFICES ASSUME TypeOK, [Next]_vars
               PROVE  TypeOK'
    OBVIOUS
  <2> USE DEF TypeOK, Mode, Wqe, PC
  <2>1. ASSUME NEW t \in Threads, NEW m \in Mode, Call(t, m)
        PROVE  TypeOK'
    BY <2>1 DEF Call
  <2>2. ASSUME NEW t \in Threads, Acquire(t)
        PROVE  TypeOK'
    BY <2>2 DEF Acquire, LockedState, CanLock
  <2>3. ASSUME NEW t \in Threads, Block(t)
        PROVE  TypeOK'
    <3>1. wqe' \in [Threads -> Wqe]
      BY <2>3 DEF Block, Enqueue
    <3>2. wq' \in Seq(Threads)
      BY <2>3 DEF Block, Enqueue
    <3> QED
      BY <2>3, <3>1, <3>2 DEF Block
  <2>4. ASSUME NEW t \in Threads, NEW m \in Mode, TryLock(t, m)
        PROVE  TypeOK'
    BY <2>4 DEF TryLock, LockedState, CanLock
  <2>5. ASSUME NEW t \in Threads, NotifWait(t) \/ NotifWaitError(t)
        PROVE  TypeOK'
    BY <2>5 DEF NotifWait, NotifWaitError
  <2>6. ASSUME NEW t \in Threads, CheckDone(t)
        PROVE  TypeOK'
    <3>1. wq' \in Seq(Threads)
      <4>1. ASSUME NEW i \in DOMAIN wq
            PROVE  RemoveAt(wq, i) \in Seq(Threads)
        <5>1. SubSeq(wq, 1, i - 1) \in Seq(Threads)
          OBVIOUS
        <5>2. SubSeq(wq, i + 1, Len(wq)) \in Seq(Threads)
          OBVIOUS
        <5> QED
          BY <5>1, <5>2, ConcatProperties DEF RemoveAt
      <4> QED
        BY <2>6, <4>1 DEF CheckDone
    <3>2. wqe' \in [Threads -> Wqe]
      <4>1. NoWqe \in Wqe
        BY DEF NoWqe
      <4>2. wqe' = wqe \/ wqe' = [wqe EXCEPT ![t] = NoWqe]
        BY <2>6, Zenon DEF CheckDone
      <4> HIDE DEF Wqe
      <4> QED
        BY <4>1, <4>2
    <3> QED
      BY <2>6, <3>1, <3>2 DEF CheckDone
  <2>7. ASSUME NEW t \in Threads, Unlock(t)
        PROVE  TypeOK'
    BY <2>7 DEF Unlock, ReleasedState, WakeIfFree
  <2>8. ASSUME NEW t \in Threads, WakePick(t)
        PROVE  TypeOK'
    <3>1. PICK i \in DOMAIN wq :
            /\ wqe' = [wqe EXCEPT ![wq[i]].done = TRUE]
            /\ handle' = [handle EXCEPT ![t] = wq[i]]
            /\ wtype' = [wtype EXCEPT ![t] =
                           IF wqe[wq[i]].wait_read THEN "read" ELSE "write"]
      BY <2>8 DEF WakePick
    <3>2. PICK w \in Threads : w = wq[i]
      OBVIOUS
    <3>3. wqe' \in [Threads -> Wqe]
      <4>1. PICK e \in Wqe : e = wqe[w]
        OBVIOUS
      <4>2. wqe' = [wqe EXCEPT ![w] = [e EXCEPT !.done = TRUE]]
        BY <3>1, <3>2, <4>1, Zenon
      <4>3. [e EXCEPT !.done = TRUE] \in Wqe
        BY MarkDone, Zenon
      <4> QED
        BY <4>2, <4>3, Zenon
    <3> QED
      BY <2>8, <3>1, <3>2, <3>3 DEF WakePick
  <2>9. ASSUME NEW t \in Threads, WakeNone(t)
        PROVE  TypeOK'
    BY <2>9 DEF WakeNone, WakeReturn
  <2>10. ASSUME NEW t \in Threads, NotifSendSync(t) \/ NotifSendError(t)
         PROVE  TypeOK'
    <3>1. WakeContinue(t) => /\ pc' \in [Threads -> PC]
                             /\ ret' \in [Threads -> {"idle", "sleep"}]
                             /\ wtype' \in [Threads -> Mode \cup {"any"}]
                             /\ handle' \in [Threads -> Threads \cup {NULL}]
      <4>1. WakeReturn(t) => /\ pc' \in [Threads -> PC]
                             /\ ret' \in [Threads -> {"idle", "sleep"}]
                             /\ wtype' \in [Threads -> Mode \cup {"any"}]
        BY DEF WakeReturn
      <4> QED
        BY <4>1 DEF WakeContinue
    <3>2. CASE NotifSendSync(t)
      BY <3>1, <3>2 DEF NotifSendSync
    <3>3. CASE NotifSendError(t)
      BY <3>1, <3>3 DEF NotifSendError
    <3> QED
      BY <2>10, <3>2, <3>3
  <2>11. ASSUME NEW t \in Threads, NEW c \in Condvars, CondvarLink(t, c)
         PROVE  TypeOK'
    BY <2>11 DEF CondvarLink
  <2>12. ASSUME NEW t \in Threads, CondvarRelease(t)
         PROVE  TypeOK'
    <3>1. wqe' \in [Threads -> Wqe]
      BY <2>12 DEF CondvarRelease, Enqueue
    <3>2. wq' \in Seq(Threads)
      BY <2>12 DEF CondvarRelease, Enqueue
    <3> QED
      <4>1. state' \in Nat \cup {-1}
        BY <2>12 DEF CondvarRelease, ReleasedState
      <4>2. /\ pc' \in [Threads -> PC]
            /\ ret' \in [Threads -> {"idle", "sleep"}]
        BY <2>12 DEF CondvarRelease, WakeIfFree
      <4>3. mode' \in [Threads -> Mode]
        BY <2>12 DEF CondvarRelease
      <4> QED
        BY <2>12, <3>1, <3>2, <4>1, <4>2, <4>3 DEF CondvarRelease
  <2>13. ASSUME NEW t \in Threads, NEW c \in Condvars, NEW o \in BOOLEAN,
                CondvarSignal(t, c, o)
         PROVE  TypeOK'
    BY <2>13 DEF CondvarSignal
  <2>14. ASSUME NEW t \in Threads, CondvarPromote(t)
         PROVE  TypeOK'
    <3>1. wqe' \in [Threads -> Wqe]
      <4>1. \A u \in Threads : [wqe[u] EXCEPT !.cv = NULL] \in Wqe
        OBVIOUS
      <4> QED
        BY <2>14, <4>1 DEF CondvarPromote
    <3> QED
      BY <2>14, <3>1 DEF CondvarPromote
  <2>15. ASSUME NEW t \in Threads, NEW c \in Condvars, CondvarDestroy(t, c)
         PROVE  TypeOK'
    BY <2>15 DEF CondvarDestroy
  <2>16. CASE UNCHANGED vars
    BY <2>16 DEF vars
  <2> QED
    BY <2>1, <2>2, <2>3, <2>4, <2>5, <2>6, <2>7, <2>8, <2>9, <2>10, <2>11,
       <2>12, <2>13, <2>14, <2>15, <2>16
       DEF Next, Progress, Failure, Client
<1> QED
  BY <1>1, <1>2, PTL DEF Spec

-----------------------------------------------------------------------------
(* Mutual exclusion.  Four steps change who owns the mutex: two add an     *)
(* owner and two remove one.                                               *)

\* The owners are finitely many.
LEMMA OwnersFinite ==
    /\ IsFiniteSet(Readers) /\ Cardinality(Readers) \in Nat
    /\ IsFiniteSet(Writers) /\ Cardinality(Writers) \in Nat
  BY ThreadsFinite, FS_Subset, FS_CardinalityType DEF Readers, Writers

\* A step that changes no owner and not m->state.
LEMMA SameOwners ==
    ASSUME MutualExclusion, state' = state,
           \A u \in Threads : /\ Holding(u)' <=> Holding(u)
                              /\ Holding(u) => mode'[u] = mode[u]
    PROVE  MutualExclusion'
<1>1. Writers' = Writers
  BY DEF Writers
<1>2. Readers' = Readers
  BY DEF Readers
<1> QED
  BY <1>1, <1>2 DEF MutualExclusion

\* A thread that finds can_lock true takes the mutex.
LEMMA AddOwner ==
    ASSUME TypeOK, MutualExclusion,
           NEW t \in Threads, NEW m \in Mode,
           ~Holding(t), CanLock(m), state' = LockedState(m),
           Holding(t)', mode'[t] = m,
           \A u \in Threads \ {t} : /\ Holding(u)' <=> Holding(u)
                                    /\ mode'[u] = mode[u]
    PROVE  MutualExclusion'
<1>1. t \notin Readers /\ t \notin Writers
  BY DEF Readers, Writers
<1>2. CASE m = "read"
  <2>1. Writers = {} /\ state = Cardinality(Readers)
    BY <1>2 DEF CanLock, MutualExclusion
  <2>2. Writers' = {}
    BY <1>2, <2>1 DEF Writers
  <2>3. Readers' = Readers \cup {t}
    BY <1>2 DEF Readers
  <2>4. Cardinality(Readers') = Cardinality(Readers) + 1
    BY <1>1, <2>3, OwnersFinite, FS_AddElement
  <2> QED
    BY <1>2, <2>1, <2>2, <2>4 DEF MutualExclusion, LockedState
<1>3. CASE m = "write"
  <2>1. Writers = {} /\ Readers = {}
    <3>1. Writers = {} /\ Cardinality(Readers) = 0
      BY <1>3 DEF CanLock, MutualExclusion
    <3> QED
      BY <3>1, OwnersFinite, FS_EmptySet
  <2>2. Writers' = {t}
    BY <1>3, <2>1 DEF Writers
  <2>3. Readers' = {}
    BY <1>3, <2>1 DEF Readers
  <2>4. Cardinality(Writers') = 1
    BY <2>2, FS_Singleton
  <2> QED
    BY <1>3, <2>2, <2>3, <2>4 DEF MutualExclusion, LockedState
<1> QED
  BY <1>2, <1>3 DEF Mode

\* While a thread owns the mutex, m->state tells how, and counts the others.
LEMMA OwnerState ==
    ASSUME TypeOK, MutualExclusion, NEW t \in Threads, Holding(t)
    PROVE  /\ mode[t] = "write" => /\ state = -1
                                   /\ Writers = {t}
                                   /\ Readers = {}
           /\ mode[t] = "read" => /\ state = Cardinality(Readers)
                                  /\ state > 0
                                  /\ Writers = {}
                                  /\ t \in Readers
<1>1. CASE mode[t] = "write"
  <2>1. t \in Writers
    BY <1>1 DEF Writers
  <2>2. Cardinality(Writers) = 1 /\ state = -1 /\ Readers = {}
    BY <2>1 DEF MutualExclusion
  <2>3. Writers = {t}
    BY <2>1, <2>2, OwnersFinite, FS_Singleton
  <2> QED
    BY <1>1, <2>2, <2>3
<1>2. CASE mode[t] = "read"
  <2>1. t \in Readers
    BY <1>2 DEF Readers
  <2>2. Writers = {} /\ state = Cardinality(Readers)
    BY <2>1 DEF MutualExclusion
  <2>3. Cardinality(Readers) > 0
    BY <2>1, OwnersFinite, FS_EmptySet
  <2> QED
    BY <1>2, <2>1, <2>2, <2>3
<1> QED
  BY <1>1, <1>2 DEF TypeOK, Mode

\* An owner leaves the mutex.
LEMMA RemoveOwner ==
    ASSUME TypeOK, MutualExclusion,
           NEW t \in Threads,
           Holding(t), ~Holding(t)', state' = ReleasedState,
           \A u \in Threads \ {t} : /\ Holding(u)' <=> Holding(u)
                                    /\ mode'[u] = mode[u]
    PROVE  MutualExclusion'
<1>1. Writers' = Writers \ {t}
  BY DEF Writers
<1>2. Readers' = Readers \ {t}
  BY DEF Readers
<1>3. CASE mode[t] = "write"
  <2>1. state = -1 /\ Writers = {t} /\ Readers = {}
    BY <1>3, OwnerState
  <2> QED
    BY <1>1, <1>2, <2>1, FS_EmptySet DEF MutualExclusion, ReleasedState
<1>4. CASE mode[t] = "read"
  <2>1. state = Cardinality(Readers) /\ state > 0 /\ Writers = {} /\ t \in Readers
    BY <1>4, OwnerState
  <2>2. Cardinality(Readers') = Cardinality(Readers) - 1
    BY <1>2, <2>1, OwnersFinite, FS_RemoveElement
  <2> QED
    BY <1>1, <2>1, <2>2, OwnersFinite DEF MutualExclusion, ReleasedState
<1> QED
  BY <1>3, <1>4 DEF TypeOK, Mode

\* Readers and writers exclude each other and m->state tells exactly who owns
\* the mutex, for any number of threads: __mutex_lock(), __mutex_read_lock(),
\* the try locks, the unlocks and __condvar_wait() agree on it.
THEOREM MutualExclusionHolds == Spec => []MutualExclusion
<1>1. Init => MutualExclusion
  <2> SUFFICES ASSUME Init
               PROVE  MutualExclusion
    OBVIOUS
  <2>1. Writers = {} /\ Readers = {}
    BY DEF Init, Writers, Readers, Holding
  <2> QED
    BY <2>1, FS_EmptySet DEF Init, MutualExclusion
<1>2. TypeOK /\ MutualExclusion /\ [Next]_vars => MutualExclusion'
  <2> SUFFICES ASSUME TypeOK, MutualExclusion, [Next]_vars
               PROVE  MutualExclusion'
    OBVIOUS
  <2>1. ASSUME NEW t \in Threads, Acquire(t)
        PROVE  MutualExclusion'
    BY <2>1, AddOwner DEF Acquire, Holding, TypeOK
  <2>2. ASSUME NEW t \in Threads, NEW m \in Mode, TryLock(t, m)
        PROVE  MutualExclusion'
    BY <2>2, AddOwner DEF TryLock, Holding, TypeOK
  <2>3. ASSUME NEW t \in Threads, Unlock(t)
        PROVE  MutualExclusion'
    BY <2>3, RemoveOwner DEF Unlock, WakeIfFree, Holding, TypeOK
  <2>4. ASSUME NEW t \in Threads, CondvarRelease(t)
        PROVE  MutualExclusion'
    BY <2>4, RemoveOwner DEF CondvarRelease, WakeIfFree, Holding, TypeOK
  <2>5. ASSUME NEW t \in Threads, NEW m \in Mode, Call(t, m)
        PROVE  MutualExclusion'
    BY <2>5, SameOwners DEF Call, Holding, TypeOK
  <2>6. ASSUME NEW t \in Threads,
               \/ Block(t) \/ NotifWait(t) \/ NotifWaitError(t) \/ CheckDone(t)
        PROVE  MutualExclusion'
    BY <2>6, SameOwners
       DEF Block, NotifWait, NotifWaitError, CheckDone, Holding, TypeOK
  <2>7. ASSUME NEW t \in Threads, WakePick(t) \/ WakeNone(t)
        PROVE  MutualExclusion'
    BY <2>7, SameOwners DEF WakePick, WakeNone, WakeReturn, Holding, TypeOK
  <2>8. ASSUME NEW t \in Threads, NotifSendSync(t) \/ NotifSendError(t)
        PROVE  MutualExclusion'
    BY <2>8, SameOwners
       DEF NotifSendSync, NotifSendError, WakeContinue, WakeReturn, Holding,
           TypeOK
  <2>9. ASSUME NEW t \in Threads, CondvarPromote(t)
        PROVE  MutualExclusion'
    BY <2>9, SameOwners DEF CondvarPromote, Holding, TypeOK
  <2>10. ASSUME NEW t \in Threads, NEW c \in Condvars,
                \/ CondvarLink(t, c) \/ CondvarDestroy(t, c)
                \/ \E o \in BOOLEAN : CondvarSignal(t, c, o)
         PROVE  MutualExclusion'
    BY <2>10, SameOwners
       DEF CondvarLink, CondvarDestroy, CondvarSignal, Holding, TypeOK
  <2>11. CASE UNCHANGED vars
    BY <2>11, SameOwners DEF vars, Holding
  <2> QED
    BY <2>1, <2>2, <2>3, <2>4, <2>5, <2>6, <2>7, <2>8, <2>9, <2>10, <2>11
       DEF Next, Progress, Failure, Client
<1> QED
  BY <1>1, <1>2, TypeCorrect, PTL DEF Spec

-----------------------------------------------------------------------------
(* The queue and the threads that wait in it.                              *)

\* The locals of wq_wake_next(), cv_signal() and __condvar_wait() are set
\* while the thread is there, and only then.
LocalsOK ==
    \A t \in Threads :
        /\ pc[t] \notin {"wake", "send"} => wtype[t] = "any" /\ ret[t] = "idle"
        /\ pc[t] = "send" => handle[t] \in Threads
        /\ pc[t] \in {"linked", "promote"} => opcv[t] \in Condvars

\* The locals are set when they are used: wq_wake_next() notifies a thread it
\* selected, cv_signal() and __condvar_wait() use the condition variable they
\* were called with.
LEMMA LocalsCorrect == Spec => []LocalsOK
<1>1. Init => LocalsOK
  BY DEF Init, LocalsOK
<1>2. TypeOK /\ LocalsOK /\ [Next]_vars => LocalsOK'
  <2> SUFFICES ASSUME TypeOK, LocalsOK, [Next]_vars
               PROVE  LocalsOK'
    OBVIOUS
  <2> USE DEF TypeOK, LocalsOK
  <2>1. ASSUME NEW t \in Threads, NEW m \in Mode, Call(t, m) \/ TryLock(t, m)
        PROVE  LocalsOK'
    BY <2>1 DEF Call, TryLock
  <2>2. ASSUME NEW t \in Threads,
               Acquire(t) \/ Block(t) \/ NotifWait(t) \/ NotifWaitError(t)
        PROVE  LocalsOK'
    BY <2>2 DEF Acquire, Block, NotifWait, NotifWaitError
  <2>3. ASSUME NEW t \in Threads, CheckDone(t)
        PROVE  LocalsOK'
    BY <2>3 DEF CheckDone
  <2>4. ASSUME NEW t \in Threads, Unlock(t)
        PROVE  LocalsOK'
    BY <2>4 DEF Unlock, WakeIfFree
  <2>5. ASSUME NEW t \in Threads, WakePick(t)
        PROVE  LocalsOK'
    <3>1. PICK i \in DOMAIN wq :
            /\ handle' = [handle EXCEPT ![t] = wq[i]]
            /\ wtype' = [wtype EXCEPT ![t] =
                           IF wqe[wq[i]].wait_read THEN "read" ELSE "write"]
      BY <2>5 DEF WakePick
    <3>2. wq[i] \in Threads
      OBVIOUS
    <3> QED
      BY <2>5, <3>1, <3>2 DEF WakePick
  <2>6. ASSUME NEW t \in Threads, WakeNone(t)
        PROVE  LocalsOK'
    BY <2>6 DEF WakeNone, WakeReturn
  <2>7. ASSUME NEW t \in Threads, NotifSendSync(t) \/ NotifSendError(t)
        PROVE  LocalsOK'
    BY <2>7 DEF NotifSendSync, NotifSendError, WakeContinue, WakeReturn
  <2>8. ASSUME NEW t \in Threads, CondvarRelease(t)
        PROVE  LocalsOK'
    BY <2>8 DEF CondvarRelease, WakeIfFree
  <2>9. ASSUME NEW t \in Threads, CondvarPromote(t)
        PROVE  LocalsOK'
    BY <2>9 DEF CondvarPromote
  <2>10. ASSUME NEW t \in Threads, NEW c \in Condvars,
                \/ CondvarLink(t, c) \/ CondvarDestroy(t, c)
                \/ \E o \in BOOLEAN : CondvarSignal(t, c, o)
         PROVE  LocalsOK'
    BY <2>10 DEF CondvarLink, CondvarDestroy, CondvarSignal
  <2>11. CASE UNCHANGED vars
    BY <2>11 DEF vars
  <2> QED
    BY <2>1, <2>2, <2>3, <2>4, <2>5, <2>6, <2>7, <2>8, <2>9, <2>10, <2>11
       DEF Next, Progress, Failure, Client
<1> QED
  BY <1>1, <1>2, TypeCorrect, PTL DEF Spec

\* The queue holds exactly the threads that wait, an element outside the queue
\* is not in use, and a selected thread waits for no condition variable.
QueueOK ==
    /\ NoDanglingElement
    /\ \A t \in Threads : ~Queued(t) => wqe[t] = NoWqe
    /\ \A t \in Threads : wqe[t].done => wqe[t].cv = NULL

\* wq_wait_init_condvar() by a thread that was not waiting.
LEMMA EnqueueQueueOK ==
    ASSUME TypeOK, QueueOK,
           NEW t \in Threads, NEW r \in BOOLEAN, NEW c \in Condvars \cup {NULL},
           ~InWait(t), InWait(t)', Enqueue(t, r, c),
           \A u \in Threads \ {t} : InWait(u)' <=> InWait(u)
    PROVE  QueueOK'
<1>1. t \notin Range(wq)
  BY DEF QueueOK, NoDanglingElement, Queued
<1>2. Range(wq') = Range(wq) \cup {t} /\ NoDuplicates(wq')
  BY <1>1, AppendElement
     DEF Enqueue, TypeOK, QueueOK, NoDanglingElement, NoDuplicates
<1>3. \A u \in Threads \ {t} : wqe'[u] = wqe[u]
  BY DEF Enqueue, TypeOK
<1>4. wqe'[t].done = FALSE
  BY DEF Enqueue, TypeOK
<1>5. \A u \in Threads : Queued(u)' <=> Queued(u) \/ u = t
  BY <1>2 DEF Queued
<1>6. NoDanglingElement'
  BY <1>2, <1>5 DEF QueueOK, NoDanglingElement, NoDuplicates
<1> QED
  BY <1>3, <1>4, <1>5, <1>6 DEF QueueOK

\* A step that leaves the queue alone: it may change elements of the queue,
\* but not make a selected thread wait for a condition variable.
LEMMA SameQueue ==
    ASSUME QueueOK, wq' = wq,
           \A u \in Threads : /\ InWait(u)' <=> InWait(u)
                              /\ ~Queued(u) => wqe'[u] = wqe[u]
                              /\ wqe'[u].done => wqe'[u].cv = NULL
    PROVE  QueueOK'
<1>1. \A u \in Threads : Queued(u)' <=> Queued(u)
  BY DEF Queued
<1> QED
  BY <1>1 DEF QueueOK, NoDanglingElement

\* No element of a finished wait stays in the queue and none is there twice.
LEMMA QueueCorrect == Spec => []QueueOK
<1>1. Init => QueueOK
  <2> SUFFICES ASSUME Init
               PROVE  QueueOK
    OBVIOUS
  <2>1. \A t \in Threads : ~Queued(t)
    BY DEF Init, Queued, Range
  <2>2. \A t \in Threads : ~InWait(t)
    BY DEF Init, InWait
  <2> QED
    BY <2>1, <2>2 DEF Init, QueueOK, NoDanglingElement, NoWqe
<1>2. TypeOK /\ LocalsOK /\ QueueOK /\ [Next]_vars => QueueOK'
  <2> SUFFICES ASSUME TypeOK, LocalsOK, QueueOK, [Next]_vars
               PROVE  QueueOK'
    OBVIOUS
  <2>0. \A u \in Threads : wqe[u].done => wqe[u].cv = NULL
    BY DEF QueueOK
  <2>1. ASSUME NEW t \in Threads, NEW m \in Mode, Call(t, m) \/ TryLock(t, m)
        PROVE  QueueOK'
    BY <2>0, <2>1, SameQueue DEF Call, TryLock, InWait, TypeOK
  <2>2. ASSUME NEW t \in Threads, Acquire(t) \/ NotifWait(t) \/ NotifWaitError(t)
        PROVE  QueueOK'
    BY <2>0, <2>2, SameQueue DEF Acquire, NotifWait, NotifWaitError, InWait, TypeOK
  <2>3. ASSUME NEW t \in Threads, Block(t)
        PROVE  QueueOK'
    BY <2>3, EnqueueQueueOK DEF Block, InWait, TypeOK
  <2>4. ASSUME NEW t \in Threads, CheckDone(t)
        PROVE  QueueOK'
    <3>1. CASE ~wqe[t].done
      BY <2>0, <2>4, <3>1, SameQueue DEF CheckDone, InWait, TypeOK
    <3>2. CASE wqe[t].done
      <4>1. PICK i \in DOMAIN wq : wq[i] = t /\ wq' = RemoveAt(wq, i)
        BY <2>4, <3>2, Zenon DEF CheckDone
      <4>2. wqe' = [wqe EXCEPT ![t] = NoWqe] /\ pc' = [pc EXCEPT ![t] = "lock"]
        BY <2>4, <3>2, Zenon DEF CheckDone
      <4>3. ret' = ret
        BY <2>4 DEF CheckDone
      <4>4. Range(wq') = Range(wq) \ {t} /\ NoDuplicates(wq')
        BY <4>1, RemoveElement
           DEF TypeOK, QueueOK, NoDanglingElement, NoDuplicates
      <4>5. \A u \in Threads : Queued(u)' <=> Queued(u) /\ u # t
        BY <4>4 DEF Queued
      <4>6. \A u \in Threads : InWait(u)' <=> InWait(u) /\ u # t
        BY <2>4, <4>2, <4>3 DEF InWait, TypeOK, CheckDone
      <4>7. NoDanglingElement'
        BY <4>4, <4>5, <4>6 DEF QueueOK, NoDanglingElement, NoDuplicates
      <4>8. wqe'[t] = NoWqe /\ NoWqe.done = FALSE
        BY <4>2 DEF TypeOK, NoWqe
      <4>9. \A u \in Threads \ {t} : wqe'[u] = wqe[u]
        BY <4>2 DEF TypeOK
      <4> QED
        BY <4>5, <4>7, <4>8, <4>9 DEF QueueOK
    <3> QED
      BY <3>1, <3>2
  <2>5. ASSUME NEW t \in Threads, Unlock(t)
        PROVE  QueueOK'
    BY <2>0, <2>5, SameQueue DEF Unlock, WakeIfFree, InWait, TypeOK
  <2>6. ASSUME NEW t \in Threads, WakePick(t)
        PROVE  QueueOK'
    <3>1. PICK i \in DOMAIN wq : /\ MayWake(i, wtype[t])
                                 /\ wqe' = [wqe EXCEPT ![wq[i]].done = TRUE]
      BY <2>6 DEF WakePick, NextToWake
    <3>2. wq[i] \in Threads /\ Queued(wq[i]) /\ wqe[wq[i]].cv = NULL
      BY <3>1 DEF TypeOK, Queued, Range, MayWake
    <3>3. \A u \in Threads : /\ ~Queued(u) => wqe'[u] = wqe[u]
                             /\ wqe'[u].done => wqe'[u].cv = NULL
      BY <2>0, <3>1, <3>2 DEF TypeOK, Wqe
    <3>4. \A u \in Threads : InWait(u)' <=> InWait(u)
      BY <2>6 DEF WakePick, InWait, TypeOK
    <3> QED
      BY <2>6, <3>3, <3>4, SameQueue DEF WakePick
  <2>7. ASSUME NEW t \in Threads, WakeNone(t)
        PROVE  QueueOK'
    BY <2>0, <2>7, SameQueue DEF WakeNone, WakeReturn, InWait, TypeOK
  <2>8. ASSUME NEW t \in Threads, NotifSendSync(t) \/ NotifSendError(t)
        PROVE  QueueOK'
    BY <2>0, <2>8, SameQueue
       DEF NotifSendSync, NotifSendError, WakeContinue, WakeReturn, InWait,
           TypeOK
  <2>9. ASSUME NEW t \in Threads, CondvarRelease(t)
        PROVE  QueueOK'
    <3>1. Enqueue(t, state > 0, opcv[t]) /\ (state > 0) \in BOOLEAN
      BY <2>9 DEF CondvarRelease
    <3>2. opcv[t] \in Condvars \cup {NULL}
      BY DEF TypeOK
    <3>3. /\ ~InWait(t) /\ InWait(t)'
          /\ \A u \in Threads \ {t} : InWait(u)' <=> InWait(u)
      BY <2>9 DEF CondvarRelease, WakeIfFree, InWait, TypeOK
    <3> QED
      BY <3>1, <3>2, <3>3, EnqueueQueueOK
  <2>10. ASSUME NEW t \in Threads, CondvarPromote(t)
         PROVE  QueueOK'
    <3>1. \A u \in Threads : /\ ~Queued(u) => wqe'[u] = wqe[u]
                             /\ wqe'[u].done => wqe'[u].cv = NULL
      BY <2>0, <2>10 DEF CondvarPromote, Queued, Range, TypeOK, Wqe
    <3>2. \A u \in Threads : InWait(u)' <=> InWait(u)
      BY <2>10 DEF CondvarPromote, InWait, TypeOK
    <3> QED
      BY <2>10, <3>1, <3>2, SameQueue DEF CondvarPromote
  <2>11. ASSUME NEW t \in Threads, NEW c \in Condvars,
                \/ CondvarLink(t, c) \/ CondvarDestroy(t, c)
                \/ \E o \in BOOLEAN : CondvarSignal(t, c, o)
         PROVE  QueueOK'
    BY <2>0, <2>11, SameQueue
       DEF CondvarLink, CondvarDestroy, CondvarSignal, InWait, TypeOK
  <2>12. CASE UNCHANGED vars
    BY <2>0, <2>12, SameQueue DEF vars, InWait
  <2> QED
    BY <2>1, <2>2, <2>3, <2>4, <2>5, <2>6, <2>7, <2>8, <2>9, <2>10, <2>11,
       <2>12
       DEF Next, Progress, Failure, Client
<1> QED
  BY <1>1, <1>2, TypeCorrect, LocalsCorrect, PTL DEF Spec

\* No wait_queue_elem is in the queue once its thread has left the wait
\* functions, where it lived on the stack: wq_wait_final() removes every
\* element wq_wait_init_condvar() added.
THEOREM NoDanglingElementHolds == Spec => []NoDanglingElement
  BY QueueCorrect, PTL DEF QueueOK

-----------------------------------------------------------------------------
(* No waiter is forgotten.                                                 *)

\* If the mutex cannot be locked, somebody owns it.
LEMMA SomeOwner ==
    ASSUME TypeOK, MutualExclusion, state # 0
    PROVE  \E u \in Threads : Holding(u)
<1>1. Writers # {} \/ Readers # {}
  BY FS_EmptySet DEF MutualExclusion
<1> QED
  BY <1>1 DEF Writers, Readers

\* If an owner leaves and the mutex is not free, somebody else owns it.
LEMMA OtherOwner ==
    ASSUME TypeOK, MutualExclusion, NEW t \in Threads, Holding(t),
           ReleasedState # 0
    PROVE  \E u \in Threads \ {t} : Holding(u)
<1>1. mode[t] = "read"
  BY OwnerState DEF ReleasedState, TypeOK, Mode
<1>2. Cardinality(Readers) > 1
  BY <1>1, OwnerState DEF ReleasedState
<1>3. Readers # {t}
  <2>1. Cardinality({t}) = 1
    BY FS_Singleton
  <2> QED
    BY <1>2, <2>1
<1>4. t \in Readers
  BY <1>1, OwnerState
<1> QED
  BY <1>3, <1>4 DEF Readers

\* A step that adds no waiter and lets everybody look at the queue who was
\* bound to.
LEMMA SameObligations ==
    ASSUME NoForgottenWaiter,
           \A u \in Threads : /\ Active(u)' => Active(u)
                              /\ Obliged(u) => Obliged(u)'
    PROVE  NoForgottenWaiter'
  BY DEF NoForgottenWaiter

\* Somebody bound to look at the queue is all it takes.
LEMMA SomeObliged ==
    ASSUME NEW u \in Threads, Obliged(u)'
    PROVE  NoForgottenWaiter'
  BY DEF NoForgottenWaiter

\* As long as a thread waits for the mutex, some thread will look at the queue
\* for it: a waiter queues itself before it releases m->spin_lock, the unlocks
\* and __condvar_wait() call wq_wake_next() whenever m->state becomes 0, and a
\* thread that promotes condvar waiters owns the mutex.
THEOREM NoForgottenWaiterHolds == Spec => []NoForgottenWaiter
<1> DEFINE Known == TypeOK /\ LocalsOK /\ QueueOK /\ MutualExclusion
<1>1. Init => NoForgottenWaiter
  BY DEF Init, NoForgottenWaiter, Active, Queued, Range
<1>2. Known /\ NoForgottenWaiter /\ [Next]_vars => NoForgottenWaiter'
  <2> SUFFICES ASSUME TypeOK, LocalsOK, QueueOK, MutualExclusion,
                      NoForgottenWaiter, [Next]_vars
               PROVE  NoForgottenWaiter'
    OBVIOUS
  <2>1. ASSUME NEW t \in Threads, NEW m \in Mode, Call(t, m) \/ TryLock(t, m)
        PROVE  NoForgottenWaiter'
    <3>1. Obliged(t)'
      BY <2>1 DEF Call, TryLock, Obliged, Holding, TypeOK
    <3> QED
      BY <3>1, SomeObliged
  <2>2. ASSUME NEW t \in Threads, Acquire(t)
        PROVE  NoForgottenWaiter'
    <3>1. Obliged(t)'
      BY <2>2 DEF Acquire, Obliged, Holding, TypeOK
    <3> QED
      BY <3>1, SomeObliged
  <2>3. ASSUME NEW t \in Threads, Block(t)
        PROVE  NoForgottenWaiter'
    <3>1. state # 0
      BY <2>3 DEF Block, CanLock
    <3>2. PICK u \in Threads : Holding(u)
      BY <3>1, SomeOwner
    <3>3. Obliged(u)'
      BY <2>3, <3>2 DEF Block, Obliged, Holding, TypeOK
    <3> QED
      BY <3>3, SomeObliged
  <2>4. ASSUME NEW t \in Threads, NotifWait(t) \/ NotifWaitError(t)
        PROVE  NoForgottenWaiter'
    BY <2>4, SameObligations
       DEF NotifWait, NotifWaitError, Active, Obliged, Holding, Queued, TypeOK
  <2>5. ASSUME NEW t \in Threads, CheckDone(t)
        PROVE  NoForgottenWaiter'
    <3>1. CASE wqe[t].done
      <4>1. Obliged(t)'
        BY <2>5, <3>1 DEF CheckDone, Obliged, TypeOK
      <4> QED
        BY <4>1, SomeObliged
    <3>2. CASE ~wqe[t].done
      <4>1. wq' = wq /\ wqe' = wqe /\ wtype' = wtype
        BY <2>5, <3>2, Zenon DEF CheckDone
      <4> QED
        BY <2>5, <3>2, <4>1, SameObligations
           DEF CheckDone, Active, Obliged, Holding, Queued, TypeOK
    <3> QED
      BY <3>1, <3>2
  <2>6. ASSUME NEW t \in Threads,
               /\ Holding(t)
               /\ ReleasedState = 0 => pc'[t] = "wake" /\ wtype'[t] = "any"
               /\ \A u \in Threads \ {t} : pc'[u] = pc[u]
        PROVE  NoForgottenWaiter'
    <3>1. CASE ReleasedState = 0
      <4>1. Obliged(t)'
        BY <2>6, <3>1 DEF Obliged
      <4> QED
        BY <4>1, SomeObliged
    <3>2. CASE ReleasedState # 0
      <4>1. PICK u \in Threads \ {t} : Holding(u)
        BY <2>6, <3>2, OtherOwner
      <4>2. Obliged(u)'
        BY <2>6, <4>1 DEF Obliged, Holding
      <4> QED
        BY <4>2, SomeObliged
    <3> QED
      BY <3>1, <3>2
  <2>7. ASSUME NEW t \in Threads, Unlock(t)
        PROVE  NoForgottenWaiter'
    BY <2>6, <2>7 DEF Unlock, WakeIfFree, Holding, TypeOK, LocalsOK
  <2>8. ASSUME NEW t \in Threads, CondvarRelease(t)
        PROVE  NoForgottenWaiter'
    BY <2>6, <2>8 DEF CondvarRelease, WakeIfFree, Holding, TypeOK, LocalsOK
  <2>9. ASSUME NEW t \in Threads, WakePick(t)
        PROVE  NoForgottenWaiter'
    <3>1. PICK i \in DOMAIN wq : wqe' = [wqe EXCEPT ![wq[i]].done = TRUE]
      BY <2>9 DEF WakePick
    <3>2. wq[i] \in Threads /\ wq' = wq
      BY <2>9 DEF TypeOK, WakePick
    <3>3. Obliged(wq[i])'
      BY <3>1, <3>2 DEF Obliged, Queued, Range, TypeOK, Wqe
    <3> QED
      BY <3>2, <3>3, SomeObliged
  <2>10. ASSUME NEW t \in Threads, WakeNone(t)
         PROVE  NoForgottenWaiter'
    <3>1. \A u \in Threads : Active(u)' <=> Active(u)
      BY <2>10 DEF WakeNone, Active, Queued
    <3>2. CASE wtype[t] = "any"
      <4>1. \A u \in Threads : ~Active(u)
        BY <2>10, <3>2 DEF WakeNone, MayWake, Active, Queued, Range
      <4> QED
        BY <3>1, <4>1 DEF NoForgottenWaiter
    <3>3. CASE wtype[t] # "any"
      <4>1. \A u \in Threads : Obliged(u) => Obliged(u)'
        BY <2>10, <3>3
           DEF WakeNone, WakeReturn, Obliged, Holding, Queued, TypeOK
      <4> QED
        BY <3>1, <4>1, SameObligations
    <3> QED
      BY <3>2, <3>3
  <2>11. ASSUME NEW t \in Threads, NotifSendSync(t) \/ NotifSendError(t)
         PROVE  NoForgottenWaiter'
    <3>1. wq' = wq /\ wqe' = wqe /\ pc[t] = "send" /\ WakeContinue(t)
      BY <2>11 DEF NotifSendSync, NotifSendError
    <3>2. \A u \in Threads : Active(u)' <=> Active(u)
      BY <3>1 DEF Active, Queued
    <3>3. \A u \in Threads : Obliged(u) => Obliged(u)'
      BY <3>1 DEF WakeContinue, WakeReturn, Obliged, Holding, Queued, TypeOK
    <3> QED
      BY <3>2, <3>3, SameObligations
  <2>12. ASSUME NEW t \in Threads, CondvarPromote(t)
         PROVE  NoForgottenWaiter'
    <3>1. Obliged(t)'
      BY <2>12 DEF CondvarPromote, Obliged, Holding, TypeOK
    <3> QED
      BY <3>1, SomeObliged
  <2>13. ASSUME NEW t \in Threads, NEW c \in Condvars,
                \/ CondvarLink(t, c)
                \/ \E o \in BOOLEAN : CondvarSignal(t, c, o)
         PROVE  NoForgottenWaiter'
    <3>1. Obliged(t)'
      BY <2>13 DEF CondvarLink, CondvarSignal, Obliged, Holding, TypeOK
    <3> QED
      BY <3>1, SomeObliged
  <2>14. ASSUME NEW t \in Threads, NEW c \in Condvars, CondvarDestroy(t, c)
         PROVE  NoForgottenWaiter'
    BY <2>14, SameObligations
       DEF CondvarDestroy, Active, Obliged, Holding, Queued
  <2>15. CASE UNCHANGED vars
    BY <2>15, SameObligations DEF vars, Active, Obliged, Holding, Queued
  <2> QED
    BY <2>1, <2>2, <2>3, <2>4, <2>5, <2>7, <2>8, <2>9, <2>10, <2>11, <2>12,
       <2>13, <2>14, <2>15
       DEF Next, Progress, Failure, Client
<1> QED
  BY <1>1, <1>2, TypeCorrect, LocalsCorrect, QueueCorrect,
     MutualExclusionHolds, PTL DEF Spec

-----------------------------------------------------------------------------
(* Wakeups arrive.                                                         *)

\* A selected thread that still has to sleep, or to return from
\* wq_wake_next() before it sleeps, has its notification pending or on its
\* way.
InFlight ==
    \A t \in Threads :
        (pc[t] \in {"sleep", "wake", "send"} /\ wqe[t].done) =>
            \/ notif[t]
            \/ \E u \in Threads : pc[u] = "send" /\ handle[u] = t

\* A step that selects nobody, lets nobody sleep and consumes or sends no
\* notification.
LEMMA SameFlight ==
    ASSUME InFlight,
           notif' = notif,
           \A u \in Threads :
               /\ (pc'[u] \in {"sleep", "wake", "send"} /\ wqe'[u].done) =>
                     pc[u] \in {"sleep", "wake", "send"} /\ wqe[u].done
               /\ pc[u] = "send" => pc'[u] = "send" /\ handle'[u] = handle[u]
    PROVE  InFlight'
  BY DEF InFlight

\* If notif_send_sync() does not fail, a thread wq_wake_next() has selected
\* never sleeps without a notification: wq_wait_final() does not miss the
\* wakeup, whether it comes before or after the RPC notif_wait().
THEOREM WakeupInFlightHolds ==
    ASSUME "send" \notin RpcFailures
    PROVE  Spec => []WakeupInFlight
<1>1. Init => InFlight
  BY DEF Init, InFlight
<1>2. TypeOK /\ LocalsOK /\ QueueOK /\ InFlight /\ [Next]_vars => InFlight'
  <2> SUFFICES ASSUME TypeOK, LocalsOK, QueueOK, InFlight, [Next]_vars
               PROVE  InFlight'
    OBVIOUS
  <2>1. \A u \in Threads : ~InWait(u) => ~wqe[u].done
    BY DEF QueueOK, NoDanglingElement, NoWqe
  <2>2. ASSUME NEW t \in Threads, NEW m \in Mode, Call(t, m) \/ TryLock(t, m)
        PROVE  InFlight'
    BY <2>2, SameFlight DEF Call, TryLock, TypeOK
  <2>3. ASSUME NEW t \in Threads, Acquire(t) \/ NotifWaitError(t)
        PROVE  InFlight'
    BY <2>3, SameFlight DEF Acquire, NotifWaitError, TypeOK
  <2>4. ASSUME NEW t \in Threads, Block(t)
        PROVE  InFlight'
    BY <2>4, SameFlight DEF Block, Enqueue, TypeOK
  <2>5. ASSUME NEW t \in Threads, NotifWait(t)
        PROVE  InFlight'
    BY <2>5 DEF InFlight, NotifWait, TypeOK
  <2>6. ASSUME NEW t \in Threads, CheckDone(t)
        PROVE  InFlight'
    <3>1. /\ wqe' = wqe \/ wqe' = [wqe EXCEPT ![t] = NoWqe]
          /\ pc'[t] = "sleep" => ~wqe[t].done /\ wqe' = wqe
      BY <2>6, Zenon DEF CheckDone, TypeOK
    <3>2. pc[t] = "check" /\ pc'[t] \in {"sleep", "lock"}
      BY <2>6 DEF CheckDone, TypeOK
    <3>3. \A u \in Threads \ {t} : pc'[u] = pc[u] /\ wqe'[u] = wqe[u]
      BY <2>6, <3>1 DEF CheckDone, TypeOK
    <3> QED
      BY <2>6, <3>1, <3>2, <3>3, SameFlight DEF CheckDone
  <2>7. ASSUME NEW t \in Threads, Unlock(t)
        PROVE  InFlight'
    <3>1. ~wqe[t].done
      BY <2>1, <2>7 DEF Unlock, InWait
    <3> QED
      BY <2>7, <3>1, SameFlight DEF Unlock, WakeIfFree, TypeOK
  <2>8. ASSUME NEW t \in Threads, WakePick(t)
        PROVE  InFlight'
    <3>1. PICK i \in DOMAIN wq :
            /\ wqe' = [wqe EXCEPT ![wq[i]].done = TRUE]
            /\ handle' = [handle EXCEPT ![t] = wq[i]]
      BY <2>8 DEF WakePick
    <3>2. wq[i] \in Threads
      BY DEF TypeOK
    <3>3. pc[t] = "wake" /\ pc' = [pc EXCEPT ![t] = "send"] /\ notif' = notif
      BY <2>8 DEF WakePick
    <3>4. pc'[t] = "send" /\ handle'[t] = wq[i]
      BY <3>1, <3>3 DEF TypeOK
    <3>5. ASSUME NEW u \in Threads \ {wq[i]},
                 pc'[u] \in {"sleep", "wake", "send"}, wqe'[u].done
          PROVE  notif'[u] \/ \E v \in Threads : pc'[v] = "send" /\ handle'[v] = u
      <4>1. pc[u] \in {"sleep", "wake", "send"} /\ wqe[u].done
        BY <3>1, <3>2, <3>3, <3>5 DEF TypeOK
      <4>2. CASE notif[u]
        BY <3>3, <4>2
      <4>3. ASSUME NEW v \in Threads, pc[v] = "send", handle[v] = u
            PROVE  pc'[v] = "send" /\ handle'[v] = u
        BY <3>1, <3>3, <4>3 DEF TypeOK
      <4> QED
        BY <4>1, <4>2, <4>3 DEF InFlight
    <3> QED
      BY <3>4, <3>5 DEF InFlight
  <2>9. ASSUME NEW t \in Threads, WakeNone(t)
        PROVE  InFlight'
    BY <2>9, SameFlight DEF WakeNone, WakeReturn, TypeOK
  <2>10. ASSUME NEW t \in Threads, NotifSendSync(t)
         PROVE  InFlight'
    <3>1. /\ wqe' = wqe /\ pc[t] = "send" /\ handle[t] \in Threads
          /\ notif' = [notif EXCEPT ![handle[t]] = TRUE]
      BY <2>10 DEF NotifSendSync, LocalsOK
    <3>2. \A u \in Threads \ {t} : pc'[u] = pc[u] /\ handle'[u] = handle[u]
      BY <2>10 DEF NotifSendSync, WakeContinue, WakeReturn, TypeOK
    <3> QED
      BY <3>1, <3>2 DEF InFlight, TypeOK
  <2>11. ASSUME NEW t \in Threads, NotifSendError(t)
         PROVE  InFlight'
    BY <2>11 DEF NotifSendError
  <2>12. ASSUME NEW t \in Threads, CondvarRelease(t)
         PROVE  InFlight'
    <3>1. /\ \A u \in Threads \ {t} : pc'[u] = pc[u] /\ wqe'[u] = wqe[u]
          /\ ~wqe'[t].done
      BY <2>12 DEF CondvarRelease, Enqueue, WakeIfFree, TypeOK
    <3> QED
      BY <2>12, <3>1, SameFlight DEF CondvarRelease
  <2>13. ASSUME NEW t \in Threads, CondvarPromote(t)
         PROVE  InFlight'
    <3>1. \A u \in Threads : wqe'[u].done = wqe[u].done
      BY <2>13 DEF CondvarPromote, TypeOK, Wqe
    <3> QED
      BY <2>13, <3>1, SameFlight DEF CondvarPromote, TypeOK
  <2>14. ASSUME NEW t \in Threads, NEW c \in Condvars,
                \/ CondvarLink(t, c) \/ CondvarDestroy(t, c)
                \/ \E o \in BOOLEAN : CondvarSignal(t, c, o)
         PROVE  InFlight'
    BY <2>14, SameFlight DEF CondvarLink, CondvarDestroy, CondvarSignal, TypeOK
  <2>15. CASE UNCHANGED vars
    BY <2>15, SameFlight DEF vars
  <2> QED
    BY <2>2, <2>3, <2>4, <2>5, <2>6, <2>7, <2>8, <2>9, <2>10, <2>11, <2>12,
       <2>13, <2>14, <2>15
       DEF Next, Progress, Failure, Client
<1>3. InFlight => WakeupInFlight
  BY DEF InFlight, WakeupInFlight
<1> QED
  BY <1>1, <1>2, <1>3, TypeCorrect, LocalsCorrect, QueueCorrect, PTL DEF Spec
-----------------------------------------------------------------------------
(* Waiters and their condition variables.                                  *)

\* A condition variable that is in an element or in a local of
\* __condvar_wait() or cv_signal() is linked to the mutex.
LinkOK ==
    \A t \in Threads, c \in Condvars :
        wqe[t].cv = c \/ opcv[t] = c => cvm[c]

\* A step that links no condition variable and unlinks none, and in which a
\* thread comes to wait only for the one it has linked.
LEMMA SameLinks ==
    ASSUME LinkOK, cvm' = cvm,
           \A u \in Threads : /\ wqe'[u].cv \in {wqe[u].cv, opcv[u], NULL}
                              /\ opcv'[u] \in {opcv[u], NULL}
    PROVE  LinkOK'
  BY NullFresh DEF LinkOK

\* Every thread that waits for a condition variable can be signalled: cv->m is
\* set before the thread is in the queue, and condvar_destroy() does not clear
\* it while the thread is there.
THEOREM WaiterSignallableHolds == Spec => []WaiterSignallable
<1>1. Init => LinkOK
  BY NullFresh DEF Init, LinkOK, NoWqe
<1>2. TypeOK /\ QueueOK /\ LinkOK /\ [Next]_vars => LinkOK'
  <2> SUFFICES ASSUME TypeOK, QueueOK, LinkOK, [Next]_vars
               PROVE  LinkOK'
    OBVIOUS
  <2>1. ASSUME NEW t \in Threads, NEW m \in Mode, Call(t, m) \/ TryLock(t, m)
        PROVE  LinkOK'
    BY <2>1, SameLinks DEF Call, TryLock
  <2>2. ASSUME NEW t \in Threads,
               \/ Acquire(t) \/ NotifWait(t) \/ NotifWaitError(t) \/ Unlock(t)
               \/ WakeNone(t) \/ NotifSendSync(t) \/ NotifSendError(t)
        PROVE  LinkOK'
    BY <2>2, SameLinks
       DEF Acquire, NotifWait, NotifWaitError, Unlock, WakeNone, NotifSendSync,
           NotifSendError
  <2>3. ASSUME NEW t \in Threads, Block(t)
        PROVE  LinkOK'
    BY <2>3, SameLinks DEF Block, Enqueue, TypeOK
  <2>4. ASSUME NEW t \in Threads, CheckDone(t)
        PROVE  LinkOK'
    BY <2>4, SameLinks DEF CheckDone, NoWqe, TypeOK
  <2>5. ASSUME NEW t \in Threads, WakePick(t)
        PROVE  LinkOK'
    <3>1. PICK i \in DOMAIN wq : wqe' = [wqe EXCEPT ![wq[i]].done = TRUE]
      BY <2>5 DEF WakePick
    <3>2. \A u \in Threads : wqe'[u].cv = wqe[u].cv
      BY <3>1 DEF TypeOK, Wqe
    <3> QED
      BY <2>5, <3>2, SameLinks DEF WakePick
  <2>6. ASSUME NEW t \in Threads, CondvarRelease(t)
        PROVE  LinkOK'
    BY <2>6, SameLinks DEF CondvarRelease, Enqueue, TypeOK
  <2>7. ASSUME NEW t \in Threads, CondvarPromote(t)
        PROVE  LinkOK'
    <3>1. \A u \in Threads : wqe'[u].cv \in {wqe[u].cv, NULL}
      BY <2>7 DEF CondvarPromote, TypeOK, Wqe
    <3> QED
      BY <2>7, <3>1, SameLinks DEF CondvarPromote, TypeOK
  <2>8. ASSUME NEW t \in Threads, NEW c \in Condvars, CondvarLink(t, c)
        PROVE  LinkOK'
    BY <2>8 DEF CondvarLink, LinkOK, TypeOK
  <2>9. ASSUME NEW t \in Threads, NEW c \in Condvars, NEW o \in BOOLEAN,
               CondvarSignal(t, c, o)
        PROVE  LinkOK'
    BY <2>9 DEF CondvarSignal, LinkOK, TypeOK
  <2>10. ASSUME NEW t \in Threads, NEW c \in Condvars, CondvarDestroy(t, c)
         PROVE  LinkOK'
    <3>1. \A u \in Threads : wqe[u].cv # c /\ opcv[u] # c
      BY <2>10, NullFresh DEF CondvarDestroy, WaitsFor, QueueOK, NoWqe
    <3> QED
      BY <2>10, <3>1 DEF CondvarDestroy, LinkOK, TypeOK
  <2>11. CASE UNCHANGED vars
    BY <2>11, SameLinks DEF vars
  <2> QED
    BY <2>1, <2>2, <2>3, <2>4, <2>5, <2>6, <2>7, <2>8, <2>9, <2>10, <2>11
       DEF Next, Progress, Failure, Client
<1>3. LinkOK => WaiterSignallable
  BY DEF LinkOK, WaiterSignallable, WaitsFor
<1> QED
  BY <1>1, <1>2, <1>3, TypeCorrect, QueueCorrect, PTL DEF Spec

-----------------------------------------------------------------------------
(* The mutex and its condition variables implement Monitor, for any number *)
(* of threads and condition variables and with failing notification RPCs.  *)


\* The refinement mapping, by cases on where the thread is.
PhaseCases(u) ==
    /\ Phase(u) = "own" <=> Holding(u)
    /\ Phase(u) = "wait" <=> InWait(u) /\ wqe[u].cv # NULL
    /\ InWait(u) /\ wqe[u].cv = NULL => Phase(u) = "want"
    /\ pc[u] = "lock" => Phase(u) = "want"
    /\ pc[u] = "idle" => Phase(u) = "out"
    /\ pc[u] \in {"wake", "send"} /\ ret[u] = "idle" => Phase(u) = "out"
    /\ ~InWait(u) => wqe[u].cv = NULL

\* The cases cover every thread: the queue holds exactly the waiting threads.
LEMMA PhaseByCases ==
    TypeOK /\ QueueOK => \A u \in Threads : PhaseCases(u)
<1> SUFFICES ASSUME TypeOK, QueueOK, NEW u \in Threads
             PROVE  PhaseCases(u)
  OBVIOUS
<1>1. Queued(u) <=> InWait(u)
  BY DEF QueueOK, NoDanglingElement
<1>2. ~Queued(u) => wqe[u].cv = NULL
  BY DEF QueueOK, NoWqe
<1>3. pc[u] \in PC /\ ret[u] \in {"idle", "sleep"}
  BY DEF TypeOK
<1>4. Holding(u) => ~InWait(u)
  BY DEF Holding, InWait
<1> QED
  BY <1>1, <1>2, <1>3, <1>4 DEF PhaseCases, Phase, Holding, InWait, PC

\* A step the user of the mutex does not see.
LEMMA Invisible ==
    ASSUME mode' = mode,
           \A u \in Threads : Phase(u)' = Phase(u) /\ wqe'[u].cv = wqe[u].cv
    PROVE  UNCHANGED Abstract!mvars
  BY DEF Abstract!mvars

\* A step of t that changes only where t is.
LEMMA OthersSame ==
    ASSUME NEW t \in Threads,
           TypeOK, TypeOK', QueueOK, QueueOK',
           \A u \in Threads \ {t} : /\ pc'[u] = pc[u]
                                    /\ ret'[u] = ret[u]
                                    /\ wqe'[u].cv = wqe[u].cv
    PROVE  \A u \in Threads \ {t} : Phase(u)' = Phase(u)
<1> SUFFICES ASSUME NEW u \in Threads \ {t}
             PROVE  Phase(u)' = Phase(u)
  OBVIOUS
<1>1. InWait(u)' <=> InWait(u)
  BY DEF InWait
<1>2. Queued(u) <=> InWait(u)
  BY DEF QueueOK, NoDanglingElement
<1>3. Queued(u)' <=> InWait(u)'
  BY DEF QueueOK, NoDanglingElement
<1>4. Holding(u)' <=> Holding(u)
  BY DEF Holding
<1> QED
  BY <1>1, <1>2, <1>3, <1>4 DEF Phase

\* can_lock is true only if no owner excludes the new one.
LEMMA CanLockGrantable ==
    ASSUME TypeOK, QueueOK, MutualExclusion, NEW m \in Mode, CanLock(m)
    PROVE  Abstract!Grantable(m)
<1> SUFFICES ASSUME NEW u \in Threads, Phase(u) = "own"
             PROVE  m = "read" /\ mode[u] = "read"
  BY DEF Abstract!Grantable
<1>1. Holding(u)
  BY PhaseByCases DEF PhaseCases
<1>2. mode[u] = "read" /\ state > 0
  BY <1>1, OwnerState DEF CanLock, TypeOK, Mode
<1> QED
  BY <1>2 DEF CanLock, Mode

\* What a thread does with a condition variable is a step of the monitor.
LEMMA ConditionStep ==
    ASSUME NEW t \in Threads, NEW c \in Condvars,
           \/ Abstract!Wait(t, c) \/ Abstract!Signal(t, c)
           \/ Abstract!Broadcast(t, c)
    PROVE  Abstract!Next
  BY DEF Abstract!Next

\* The threads wq_promote_condvar() promotes in a step of t.
ToPromote(t) ==
    {u \in Threads : \E i \in DOMAIN wq :
                        wq[i] = u /\ Promoted(i, opcv[t], one[t])}

\* wq_promote_condvar() ends the wait of all the waiters of the condition
\* variable, of one of them, or of nobody because nobody waits.
LEMMA PromoteIsSignal ==
    ASSUME TypeOK, TypeOK', LocalsOK, QueueOK, QueueOK',
           NEW t \in Threads, CondvarPromote(t)
    PROVE  Abstract!Next \/ UNCHANGED Abstract!mvars
<1> DEFINE W == ToPromote(t)
<1>0. PICK c \in Condvars : c = opcv[t]
  BY DEF CondvarPromote, LocalsOK
<1>1. c # NULL
  BY NullFresh
<1>2. /\ \A u \in Threads : PhaseCases(u)
      /\ \A u \in Threads : PhaseCases(u)'
  <2>1. (TypeOK /\ QueueOK => \A u \in Threads : PhaseCases(u))'
    BY PhaseByCases, PTL
  <2> QED
    BY <2>1, PhaseByCases
<1>3. \A u \in W : /\ Queued(u) /\ wqe[u].cv = c
                   /\ wqe'[u].cv = NULL
  BY <1>0 DEF CondvarPromote, ToPromote, Promoted, Queued, Range, TypeOK, Wqe
<1>4. \A u \in Threads \ W : wqe'[u].cv = wqe[u].cv
  BY DEF CondvarPromote, ToPromote
<1>5. \A u \in Threads : /\ Queued(u)' <=> Queued(u)
                         /\ Queued(u) <=> InWait(u)
                         /\ InWait(u)' <=> InWait(u)
                         /\ Holding(u)' <=> Holding(u)
                         /\ pc[u] = pc'[u] \/ u = t
  BY DEF CondvarPromote, QueueOK, NoDanglingElement, Queued, InWait, Holding,
         TypeOK
<1>6. W \subseteq Threads /\ t \notin W
  <2>1. ~InWait(t)
    BY DEF CondvarPromote, InWait
  <2> QED
    BY <1>3, <1>5, <2>1 DEF ToPromote
<1>7. \A u \in Threads : Phase(u)' = IF u \in W THEN "want" ELSE Phase(u)
  <2> SUFFICES ASSUME NEW u \in Threads
               PROVE  Phase(u)' = IF u \in W THEN "want" ELSE Phase(u)
    OBVIOUS
  <2>1. CASE u \in W
    BY <1>2, <1>3, <1>5, <2>1 DEF PhaseCases
  <2>2. CASE u \notin W
    BY <1>4, <1>5, <2>2 DEF Phase, CondvarPromote
  <2> QED
    BY <2>1, <2>2
<1>8. Abstract!EndWait(W)
  <2>1. mode' = mode
    BY DEF CondvarPromote
  <2>2. \A u \in Threads : wqe'[u].cv = IF u \in W THEN NULL ELSE wqe[u].cv
    BY <1>3, <1>4
  <2> HIDE DEF W
  <2> QED
    BY <1>7, <2>1, <2>2 DEF Abstract!EndWait
<1>9. Phase(t) = "own"
  BY <1>2 DEF PhaseCases, CondvarPromote, Holding
<1>10. Abstract!Waiting(c) = {u \in Threads : Queued(u) /\ wqe[u].cv = c}
  BY <1>1, <1>2, <1>5 DEF Abstract!Waiting, PhaseCases
<1>11. CASE ~one[t]
  <2>1. W = Abstract!Waiting(c)
    BY <1>0, <1>3, <1>10, <1>11 DEF ToPromote, Promoted, Queued, Range
  <2>2. Abstract!Broadcast(t, c)
    <3>1. Abstract!EndWait(Abstract!Waiting(c))
      BY <1>8, <2>1 DEF Abstract!EndWait
    <3> QED
      BY <1>9, <3>1 DEF Abstract!Broadcast
  <2> QED
    BY <2>2, ConditionStep
<1>12. CASE one[t] /\ W # {}
  <2>1. PICK u \in W : TRUE
    BY <1>12
  <2>2. W = {u}
    <3>1. \A v \in W : v = u
      <4> SUFFICES ASSUME NEW v \in W
                   PROVE  v = u
        OBVIOUS
      <4>0. one[t] = TRUE
        BY <1>12 DEF TypeOK
      <4>1. PICK i \in DOMAIN wq : wq[i] = u /\ Promoted(i, c, one[t])
        BY <1>0, <2>1 DEF ToPromote
      <4>2. PICK j \in DOMAIN wq : wq[j] = v /\ Promoted(j, c, one[t])
        BY <1>0 DEF ToPromote
      <4>3. i \in Int /\ j \in Int /\ i >= 1 /\ j >= 1
        BY DEF TypeOK
      <4>4. ~(i < j) /\ ~(j < i)
        BY <4>0, <4>1, <4>2, <4>3 DEF Promoted
      <4> QED
        BY <4>1, <4>2, <4>3, <4>4
    <3> QED
      BY <2>1, <3>1
  <2>3. u \in Abstract!Waiting(c)
    BY <1>3, <1>6, <1>10, <2>1
  <2>4. Abstract!Signal(t, c)
    <3>1. Abstract!EndWait({u})
      BY <1>8, <2>2 DEF Abstract!EndWait
    <3> QED
      BY <1>9, <2>3, <3>1 DEF Abstract!Signal
  <2> QED
    BY <2>4, ConditionStep
<1>13. CASE W = {}
  <2>1. mode' = mode
    BY DEF CondvarPromote
  <2>2. \A u \in Threads : Phase(u)' = Phase(u) /\ wqe'[u].cv = wqe[u].cv
    BY <1>4, <1>7, <1>13
  <2> QED
    BY <2>1, <2>2, Invisible
<1> QED
  BY <1>11, <1>12, <1>13

\* Every step of the mutex is a step of the monitor, or invisible.
LEMMA StepRefines ==
    ASSUME TypeOK, TypeOK', LocalsOK, QueueOK, QueueOK', MutualExclusion,
           [Next]_vars
    PROVE  Abstract!Next \/ UNCHANGED Abstract!mvars
<1>0. /\ \A u \in Threads : PhaseCases(u)
      /\ \A u \in Threads : PhaseCases(u)'
  <2>1. (TypeOK /\ QueueOK => \A u \in Threads : PhaseCases(u))'
    BY PhaseByCases, PTL
  <2> QED
    BY <2>1, PhaseByCases
<1>1. ASSUME NEW t \in Threads, NEW m \in Mode, Call(t, m)
      PROVE  Abstract!Request(t, m)
  <2>1. \A u \in Threads \ {t} : Phase(u)' = Phase(u)
    BY <1>1, OthersSame DEF Call, TypeOK
  <2>2. Phase(t) = "out" /\ Phase(t)' = "want"
    BY <1>0, <1>1 DEF Call, PhaseCases, TypeOK
  <2> QED
    BY <1>1, <2>1, <2>2 DEF Abstract!Request, Call
<1>2. ASSUME NEW t \in Threads, NEW m \in Mode, TryLock(t, m)
      PROVE  Abstract!Try(t, m)
  <2>1. \A u \in Threads \ {t} : Phase(u)' = Phase(u)
    BY <1>2, OthersSame DEF TryLock, TypeOK
  <2>2. Phase(t) = "out" /\ Phase(t)' = "own"
    BY <1>0, <1>2 DEF TryLock, PhaseCases, Holding, TypeOK
  <2>3. Abstract!Grantable(m)
    BY <1>2, CanLockGrantable DEF TryLock
  <2> QED
    BY <1>2, <2>1, <2>2, <2>3 DEF Abstract!Try, TryLock
<1>3. ASSUME NEW t \in Threads, Acquire(t)
      PROVE  Abstract!Grant(t)
  <2>1. \A u \in Threads \ {t} : Phase(u)' = Phase(u)
    BY <1>3, OthersSame DEF Acquire, TypeOK
  <2>2. Phase(t) = "want" /\ Phase(t)' = "own"
    BY <1>0, <1>3 DEF Acquire, PhaseCases, Holding, TypeOK
  <2>3. Abstract!Grantable(mode[t])
    BY <1>3, CanLockGrantable DEF Acquire, TypeOK
  <2> QED
    BY <1>3, <2>1, <2>2, <2>3 DEF Abstract!Grant, Acquire
<1>4. ASSUME NEW t \in Threads, Unlock(t)
      PROVE  Abstract!Release(t)
  <2>1. \A u \in Threads \ {t} : Phase(u)' = Phase(u)
    BY <1>4, OthersSame DEF Unlock, WakeIfFree, TypeOK
  <2>2. Phase(t) = "own"
    BY <1>0, <1>4 DEF Unlock, PhaseCases, Holding
  <2>3. Phase(t)' = "out"
    BY <1>0, <1>4 DEF Unlock, WakeIfFree, PhaseCases, TypeOK
  <2> QED
    BY <1>4, <2>1, <2>2, <2>3 DEF Abstract!Release, Unlock
<1>5. ASSUME NEW t \in Threads, CondvarRelease(t)
      PROVE  \E c \in Condvars : Abstract!Wait(t, c)
  <2>0. PICK c \in Condvars : c = opcv[t]
    BY <1>5 DEF CondvarRelease, LocalsOK
  <2>1. c # NULL
    BY NullFresh
  <2>2. /\ \A u \in Threads \ {t} : wqe'[u].cv = wqe[u].cv
        /\ wqe'[t].cv = c
    BY <1>5, <2>0 DEF CondvarRelease, Enqueue, TypeOK
  <2>3. \A u \in Threads \ {t} : Phase(u)' = Phase(u)
    BY <1>5, <2>2, OthersSame DEF CondvarRelease, WakeIfFree, TypeOK
  <2>4. Phase(t) = "own"
    BY <1>0, <1>5 DEF CondvarRelease, PhaseCases, Holding
  <2>5. InWait(t)'
    BY <1>5 DEF CondvarRelease, WakeIfFree, InWait, TypeOK
  <2>6. Phase(t)' = "wait"
    BY <1>0, <2>1, <2>2, <2>5 DEF PhaseCases
  <2>7. mode' = mode
    <3>1. Holding(t)
      BY <1>5 DEF CondvarRelease, Holding
    <3>2. mode[t] = IF state > 0 THEN "read" ELSE "write"
      BY <3>1, OwnerState DEF TypeOK, Mode
    <3> QED
      BY <1>5, <3>2 DEF CondvarRelease, TypeOK
  <2> QED
    BY <2>2, <2>3, <2>4, <2>6, <2>7 DEF Abstract!Wait
<1>6. ASSUME NEW t \in Threads,
             mode' = mode,
             \A u \in Threads : wqe'[u].cv = wqe[u].cv,
             \A u \in Threads \ {t} : pc'[u] = pc[u] /\ ret'[u] = ret[u],
             Phase(t)' = Phase(t)
      PROVE  UNCHANGED Abstract!mvars
  <2>1. \A u \in Threads \ {t} : Phase(u)' = Phase(u)
    BY <1>6, OthersSame
  <2> QED
    BY <1>6, <2>1, Invisible
<1>7. ASSUME NEW t \in Threads, Block(t)
      PROVE  UNCHANGED Abstract!mvars
  <2>1. Phase(t) = "want" /\ wqe[t].cv = NULL
    BY <1>0, <1>7 DEF Block, PhaseCases, InWait
  <2>2. \A u \in Threads : wqe'[u].cv = wqe[u].cv
    BY <1>7, <2>1 DEF Block, Enqueue, TypeOK
  <2>3. InWait(t)'
    BY <1>7 DEF Block, InWait, TypeOK
  <2>4. Phase(t)' = "want"
    BY <1>0, <2>1, <2>2, <2>3 DEF PhaseCases
  <2> QED
    BY <1>6, <1>7, <2>1, <2>2, <2>4 DEF Block, TypeOK
<1>8. ASSUME NEW t \in Threads, NotifWait(t) \/ NotifWaitError(t)
      PROVE  UNCHANGED Abstract!mvars
  <2>1. Phase(t)' = Phase(t)
    BY <1>8 DEF NotifWait, NotifWaitError, Phase, Holding, Queued, TypeOK
  <2> QED
    BY <1>6, <1>8, <2>1 DEF NotifWait, NotifWaitError, TypeOK
<1>9. ASSUME NEW t \in Threads, CheckDone(t)
      PROVE  UNCHANGED Abstract!mvars
  <2>1. CASE ~wqe[t].done
    <3>1. Phase(t)' = Phase(t)
      BY <1>9, <2>1 DEF CheckDone, Phase, Holding, Queued, TypeOK
    <3> QED
      BY <1>6, <1>9, <2>1, <3>1 DEF CheckDone, TypeOK
  <2>2. CASE wqe[t].done
    <3>1. /\ wqe' = [wqe EXCEPT ![t] = NoWqe] /\ pc' = [pc EXCEPT ![t] = "lock"]
          /\ pc[t] = "check" /\ mode' = mode /\ ret' = ret
      BY <1>9, <2>2, Zenon DEF CheckDone
    <3>2. wqe[t].cv = NULL /\ NoWqe.cv = NULL
      BY <2>2 DEF QueueOK, NoWqe
    <3>3. Phase(t) = "want"
      BY <1>0, <3>1, <3>2 DEF PhaseCases, InWait
    <3>4. Phase(t)' = "want"
      BY <1>0, <3>1 DEF PhaseCases, TypeOK
    <3> QED
      BY <1>6, <3>1, <3>2, <3>3, <3>4 DEF TypeOK
  <2> QED
    BY <2>1, <2>2
<1>10. ASSUME NEW t \in Threads, WakePick(t)
       PROVE  UNCHANGED Abstract!mvars
  <2>1. PICK i \in DOMAIN wq : wqe' = [wqe EXCEPT ![wq[i]].done = TRUE]
    BY <1>10 DEF WakePick
  <2>2. \A u \in Threads : wqe'[u].cv = wqe[u].cv
    BY <2>1 DEF TypeOK, Wqe
  <2>3. Phase(t)' = Phase(t)
    BY <1>10, <2>2 DEF WakePick, Phase, Holding, Queued, TypeOK
  <2> QED
    BY <1>6, <1>10, <2>2, <2>3 DEF WakePick, TypeOK
<1>11. ASSUME NEW t \in Threads, wqe' = wqe, wq' = wq, mode' = mode,
              pc[t] \in {"wake", "send"}, WakeReturn(t)
       PROVE  UNCHANGED Abstract!mvars
  <2>1. pc'[t] = ret[t] /\ ret'[t] = "idle"
    BY <1>11 DEF WakeReturn, TypeOK
  <2>2. ret[t] \in {"idle", "sleep"}
    BY DEF TypeOK
  <2>3. Phase(t)' = Phase(t)
    BY <1>11, <2>1, <2>2 DEF Phase, Holding, Queued
  <2> QED
    BY <1>6, <1>11, <2>3 DEF WakeReturn, TypeOK
<1>12. ASSUME NEW t \in Threads, WakeNone(t)
       PROVE  UNCHANGED Abstract!mvars
  BY <1>11, <1>12 DEF WakeNone
<1>13. ASSUME NEW t \in Threads, NotifSendSync(t) \/ NotifSendError(t)
       PROVE  UNCHANGED Abstract!mvars
  <2>1. /\ wqe' = wqe /\ wq' = wq /\ mode' = mode
        /\ pc[t] = "send" /\ WakeContinue(t)
    BY <1>13 DEF NotifSendSync, NotifSendError
  <2>2. CASE wtype[t] = "read"
    <3>1. pc' = [pc EXCEPT ![t] = "wake"] /\ ret' = ret
      BY <2>1, <2>2 DEF WakeContinue
    <3>2. Phase(t)' = Phase(t)
      BY <2>1, <3>1 DEF Phase, Holding, Queued, TypeOK
    <3> QED
      BY <1>6, <2>1, <3>1, <3>2 DEF TypeOK
  <2>3. CASE wtype[t] # "read"
    BY <1>11, <2>1, <2>3 DEF WakeContinue
  <2> QED
    BY <2>2, <2>3
<1>14. ASSUME NEW t \in Threads, NEW c \in Condvars,
              \/ CondvarLink(t, c) \/ CondvarDestroy(t, c)
              \/ \E o \in BOOLEAN : CondvarSignal(t, c, o)
       PROVE  UNCHANGED Abstract!mvars
  <2>1. Phase(t)' = Phase(t)
    BY <1>14 DEF CondvarLink, CondvarDestroy, CondvarSignal, Phase, Holding,
                 Queued, TypeOK
  <2> QED
    BY <1>6, <1>14, <2>1 DEF CondvarLink, CondvarDestroy, CondvarSignal, TypeOK
<1>15. CASE UNCHANGED vars
  <2>1. \A u \in Threads : Phase(u)' = Phase(u)
    BY <1>15 DEF vars, Phase, Holding, Queued
  <2> QED
    BY <1>15, <2>1, Invisible DEF vars
<1>16. ASSUME NEW t \in Threads, Acquire(t) \/ Unlock(t) \/ CondvarRelease(t)
       PROVE  Abstract!Next
  <2>1. CASE Acquire(t)
    BY <1>3, <2>1 DEF Abstract!Next
  <2>2. CASE Unlock(t)
    BY <1>4, <2>2 DEF Abstract!Next
  <2>3. CASE CondvarRelease(t)
    BY <1>5, <2>3, ConditionStep
  <2> QED
    BY <1>16, <2>1, <2>2, <2>3
<1>17. ASSUME NEW t \in Threads, NEW m \in Mode, Call(t, m) \/ TryLock(t, m)
       PROVE  Abstract!Next
  BY <1>1, <1>2, <1>17, Zenon DEF Abstract!Next, Abstract!How, Mode
<1>18. CASE Next
  BY <1>7, <1>8, <1>9, <1>10, <1>12, <1>13, <1>14, <1>16, <1>17, <1>18,
     PromoteIsSignal
     DEF Next, Progress, Failure, Client
<1> QED
  BY <1>15, <1>18

\* The mutex with its condition variables implements the monitor that mutex.h
\* promises: every behaviour of the code, failing RPCs included, is one of
\* Monitor.  Releasing the mutex in __condvar_wait() and starting to wait is
\* one step of the monitor, so no signal can fall in between, and the thread
\* owns the mutex again in the mode it had.
THEOREM MutexImplementsMonitor == Spec => ImplementsMonitor
<1>1. Init => Abstract!Init
  <2> SUFFICES ASSUME Init
               PROVE  Abstract!Init
    OBVIOUS
  <2>1. \A t \in Threads : Phase(t) = "out" /\ wqe[t].cv = NULL
    BY DEF Init, Phase, Holding, Queued, Range, NoWqe
  <2> QED
    BY <2>1 DEF Init, Abstract!Init
<1>2. ASSUME TypeOK, TypeOK', LocalsOK, QueueOK, QueueOK', MutualExclusion,
             [Next]_vars
      PROVE  [Abstract!Next]_(Abstract!mvars)
  BY <1>2, StepRefines
<1> QED
  BY <1>1, <1>2, TypeCorrect, LocalsCorrect, QueueCorrect,
     MutualExclusionHolds, PTL DEF Spec, ImplementsMonitor, Abstract!Spec
=============================================================================
