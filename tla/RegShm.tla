------------------------------- MODULE RegShm -------------------------------
(***************************************************************************)
(* Registered shared memory: core/arch/arm/mm/mobj_dyn_shm.c with the      *)
(* reference counters of kernel/refcount.c and the calls that the entry    *)
(* points of tee/entry_std.c make on behalf of normal world.               *)
(*                                                                         *)
(* A shared memory object is found by its cookie in a list under a         *)
(* spinlock, kept alive by a reference counter, mapped under a second      *)
(* counter and a second spinlock, and released in two ways: the last       *)
(* mobj_put() frees an object that was never unguarded, whereas a          *)
(* registered one is freed by mobj_reg_shm_release_by_cookie(), which      *)
(* waits on a condition variable for the last mobj_put().                  *)
(*                                                                         *)
(* A step is one atomic operation on a counter, one section under a        *)
(* spinlock, or one operation on the mutex shm_mu.  The mutex and its      *)
(* condition variable are an instance of Monitor, which Mutex implements;  *)
(* mutex_lock() is the step that gets the lock.                            *)
(***************************************************************************)
EXTENDS Integers, FiniteSets, SequencesExt

CONSTANTS
    Threads,    \* the threads of the TEE core
    Mobjs,      \* the addresses calloc() returns for a struct mobj_reg_shm
    Cookies,    \* the cookies normal world uses
    NULL        \* the null pointer

ASSUME ThreadsFinite == IsFiniteSet(Threads)

VARIABLES
    shm,       \* the objects in the heap, NULL where there is none
    list,      \* reg_shm_list, its head first
    waiters,   \* shm_release_waiters
    mu,        \* shm_mu: where each thread is (the phases of Monitor)
    pc,        \* where each thread is
    ptr,       \* the thread's pointer to an object
    mapped,    \* the thread has increased mapcount
    role,      \* what the thread's operation on its object is
    panic      \* an assertion failed, panic() was called or freed memory
               \* was accessed: nothing happens afterwards

vars == <<shm, list, waiters, mu, pc, ptr, mapped, role, panic>>

Mobj == [cookie : Cookies, refc : Nat, mapcount : Nat, mm : BOOLEAN,
         guarded : BOOLEAN, releasing : BOOLEAN, release_frees : BOOLEAN]

ASSUME NullFresh == NULL \notin Mobjs /\ NULL \notin Threads /\ NULL \notin Mobj

\* The steps at which a thread owns one reference of its object.
OwnsRef == {"unguard", "held", "mapinc", "maplock", "unmap", "relput"}

PC == OwnsRef \cup {"idle", "get", "free", "freelock", "frees", "notify",
                    "notifying", "notified", "rel", "relcheck", "relwait",
                    "relwake", "relend"}

TypeOK ==
    /\ shm \in [Mobjs -> Mobj \cup {NULL}]
    /\ list \in Seq(Mobjs)
    /\ waiters \in Nat
    /\ mu \in [Threads -> {"out", "want", "own", "wait"}]
    /\ pc \in [Threads -> PC]
    /\ ptr \in [Threads -> Mobjs \cup {NULL}]
    /\ mapped \in [Threads -> BOOLEAN]
    /\ role \in [Threads -> {"user", "mapper", "releaser"}]
    /\ panic \in BOOLEAN

\* shm_mu and shm_cv: threads only write lock shm_mu, and there is one
\* condition variable.
ShmMu == INSTANCE Monitor WITH
             Condvars <- {"shm_cv"},
             phase <- mu,
             how <- [t \in Threads |-> "write"],
             cv <- [t \in Threads |-> IF mu[t] = "wait" THEN "shm_cv" ELSE NULL]

Live(o) == shm[o] # NULL

Init ==
    /\ shm = [o \in Mobjs |-> NULL]
    /\ list = <<>>
    /\ waiters = 0
    /\ mu = [t \in Threads |-> "out"]
    /\ pc = [t \in Threads |-> "idle"]
    /\ ptr = [t \in Threads |-> NULL]
    /\ mapped = [t \in Threads |-> FALSE]
    /\ role = [t \in Threads |-> "user"]
    /\ panic = FALSE

-----------------------------------------------------------------------------
(* Helpers.                                                                *)

\* reg_shm_find_unlocked(): o is the first object of the list with cookie c.
Found(o, c) ==
    \E i \in DOMAIN list :
        /\ list[i] = o
        /\ shm[o].cookie = c
        /\ \A j \in 1..(i - 1) : shm[list[j]].cookie # c

\* t goes on at label l, with the same pointer.
Goto(t, l) == pc' = [pc EXCEPT ![t] = l]

\* t has finished with its object.
Done(t) ==
    /\ pc' = [pc EXCEPT ![t] = "idle"]
    /\ ptr' = [ptr EXCEPT ![t] = NULL]
    /\ mapped' = [mapped EXCEPT ![t] = FALSE]
    /\ role' = [role EXCEPT ![t] = "user"]

\* reg_shm_free_helper(): unmap, unlink and free.
FreeHelper(o) ==
    /\ \E i \in DOMAIN list : list[i] = o /\ list' = RemoveAt(list, i)
    /\ shm' = [shm EXCEPT ![o] = NULL]

\* mobj_reg_shm_alloc(): a new object at the head of the list; it owns the
\* caller's reference and is guarded.
Alloc(o, c) ==
    /\ ~Live(o)
    /\ shm' = [shm EXCEPT ![o] =
                 [cookie |-> c, refc |-> 1, mapcount |-> 0, mm |-> FALSE,
                  guarded |-> TRUE, releasing |-> FALSE,
                  release_frees |-> FALSE]]
    /\ list' = <<o>> \o list

-----------------------------------------------------------------------------
(* Allocation and lookup.                                                  *)

\* register_shm(): allocate ...
Register(t, o, c) ==
    /\ pc[t] = "idle"
    /\ Alloc(o, c)
    /\ ptr' = [ptr EXCEPT ![t] = o]
    /\ Goto(t, "unguard")
    /\ UNCHANGED <<waiters, mu, mapped, role, panic>>

\* ... and mobj_reg_shm_unguard().  The reference now belongs to normal
\* world, which gives it back with the cookie.
Unguard(t) ==
    /\ pc[t] = "unguard"
    /\ shm' = [shm EXCEPT ![ptr[t]].guarded = FALSE]
    /\ Done(t)
    /\ UNCHANGED <<list, waiters, mu, panic>>

\* msg_param_mobj_from_noncontig() for a parameter or an RPC buffer: the
\* object stays guarded and the thread owns its reference.
AllocTemporary(t, o, c) ==
    /\ pc[t] = "idle"
    /\ Alloc(o, c)
    /\ ptr' = [ptr EXCEPT ![t] = o]
    /\ Goto(t, "held")
    /\ UNCHANGED <<waiters, mu, mapped, role, panic>>

\* mobj_mapped_shm_alloc(): the same with a mapping, which stays until the
\* object is freed.  If there is no memory for it the thread can only put the
\* object again.
AllocMapped(t, o, c) ==
    /\ pc[t] = "idle"
    /\ Alloc(o, c)
    /\ ptr' = [ptr EXCEPT ![t] = o]
    /\ role' = [role EXCEPT ![t] = "mapper"]
    /\ Goto(t, "mapinc")
    /\ UNCHANGED <<waiters, mu, mapped, panic>>

\* mobj_reg_shm_get_by_cookie(): find the object under reg_shm_slist_lock.
Lookup(t, c) ==
    /\ pc[t] = "idle"
    /\ \E o \in Mobjs :
         /\ Found(o, c)
         /\ ptr' = [ptr EXCEPT ![t] = o]
    /\ Goto(t, "get")
    /\ UNCHANGED <<shm, list, waiters, mu, mapped, role, panic>>

\* Mutant: the looked up object gets no reference.
GetNoReference(t) ==
    /\ pc[t] = "get"
    /\ Live(ptr[t])
    /\ shm[ptr[t]].refc # 0
    /\ Goto(t, "held")
    /\ UNCHANGED <<shm, list, waiters, mu, ptr, mapped, role, panic>>

\* mobj_get() on an object that still has references.
Get(t) ==
    /\ pc[t] = "get"
    /\ Live(ptr[t])
    /\ shm[ptr[t]].refc # 0
    /\ shm' = [shm EXCEPT ![ptr[t]].refc = @ + 1]
    /\ Goto(t, "held")
    /\ UNCHANGED <<list, waiters, mu, ptr, mapped, role, panic>>

\* mobj_get() panics if the counter is 0.  If the object was freed the counter
\* it reads and writes is not one; no behaviour is modelled after that.
GetInvalid(t) ==
    /\ pc[t] = "get"
    /\ Live(ptr[t]) => shm[ptr[t]].refc = 0
    /\ panic' = TRUE
    /\ UNCHANGED <<shm, list, waiters, mu, pc, ptr, mapped, role>>

-----------------------------------------------------------------------------
(* Mapping.                                                                *)

\* mobj_reg_shm_inc_map() is called.
MapRequest(t) ==
    /\ pc[t] = "held"
    /\ role[t] = "user"
    /\ ~mapped[t]
    /\ Goto(t, "mapinc")
    /\ UNCHANGED <<shm, list, waiters, mu, ptr, mapped, role, panic>>

\* mobj_reg_shm_inc_map(): refcount_inc(), which refuses to count from 0.
IncMap(t) ==
    /\ pc[t] = "mapinc"
    /\ IF shm[ptr[t]].mapcount # 0
       THEN /\ shm' = [shm EXCEPT ![ptr[t]].mapcount = @ + 1]
            /\ mapped' = [mapped EXCEPT ![t] = TRUE]
            /\ Goto(t, "held")
       ELSE /\ Goto(t, "maplock")
            /\ UNCHANGED <<shm, mapped>>
    /\ UNCHANGED <<list, waiters, mu, ptr, role, panic>>

\* mobj_reg_shm_inc_map(): the section under reg_shm_map_lock.  Another
\* thread may have set mapcount (start again), a thread in dec_map may not
\* have unmapped yet (use its mapping), otherwise map.
MapSection(t) ==
    /\ pc[t] = "maplock"
    /\ IF shm[ptr[t]].mapcount # 0
       THEN /\ Goto(t, "mapinc")
            /\ UNCHANGED <<shm, mapped>>
       ELSE /\ shm' = [shm EXCEPT ![ptr[t]] =
                           [@ EXCEPT !.mapcount = 1, !.mm = TRUE]]
            /\ mapped' = [mapped EXCEPT ![t] = TRUE]
            /\ Goto(t, "held")
    /\ UNCHANGED <<list, waiters, mu, ptr, role, panic>>

\* mobj_reg_shm_inc_map(): there is no virtual memory for a new mapping.
MapFails(t) ==
    /\ pc[t] = "maplock"
    /\ shm[ptr[t]].mapcount = 0
    /\ ~shm[ptr[t]].mm
    /\ Goto(t, "held")
    /\ UNCHANGED <<shm, list, waiters, mu, ptr, mapped, role, panic>>

\* mobj_reg_shm_dec_map(): refcount_dec().
DecMap(t) ==
    /\ pc[t] = "held"
    /\ role[t] = "user"
    /\ mapped[t]
    /\ shm' = [shm EXCEPT ![ptr[t]].mapcount = @ - 1]
    /\ mapped' = [mapped EXCEPT ![t] = FALSE]
    /\ Goto(t, IF shm[ptr[t]].mapcount = 1 THEN "unmap" ELSE "held")
    /\ UNCHANGED <<list, waiters, mu, ptr, role, panic>>

\* Mutant: the map counter is not read again under the lock.
UnmapSectionNoRecheck(t) ==
    /\ pc[t] = "unmap"
    /\ shm' = [shm EXCEPT ![ptr[t]].mm = FALSE]
    /\ panic' = ~shm[ptr[t]].mm
    /\ Goto(t, "held")
    /\ UNCHANGED <<list, waiters, mu, ptr, mapped, role>>

\* mobj_reg_shm_dec_map(): the section under reg_shm_map_lock.
\* reg_shm_unmap_helper() asserts that there is a mapping.
UnmapSection(t) ==
    /\ pc[t] = "unmap"
    /\ IF shm[ptr[t]].mapcount # 0
       THEN UNCHANGED <<shm, panic>>
       ELSE /\ shm' = [shm EXCEPT ![ptr[t]].mm = FALSE]
            /\ panic' = ~shm[ptr[t]].mm
    /\ Goto(t, "held")
    /\ UNCHANGED <<list, waiters, mu, ptr, mapped, role>>

-----------------------------------------------------------------------------
(* Release.                                                                *)

\* mobj_put() by the owner of a reference: refcount_dec().  A mapping made by
\* mobj_mapped_shm_alloc() stays until the object is freed.
Put(t) ==
    /\ pc[t] = "held"
    /\ mapped[t] => role[t] = "mapper"
    /\ shm' = [shm EXCEPT ![ptr[t]].refc = @ - 1]
    /\ IF shm[ptr[t]].refc = 1
       THEN Goto(t, "free") /\ UNCHANGED <<ptr, mapped, role>>
       ELSE Done(t)
    /\ UNCHANGED <<list, waiters, mu, panic>>

\* Mutant: the last mobj_put() frees the object, registered or not.
FreeDecideAlways(t) ==
    /\ pc[t] = "free"
    /\ Goto(t, "freelock")
    /\ UNCHANGED <<shm, list, waiters, mu, ptr, mapped, role, panic>>

\* mobj_reg_shm_free() reads guarded and releasing without a lock.
FreeDecide(t) ==
    /\ pc[t] = "free"
    /\ Goto(t, IF shm[ptr[t]].guarded /\ ~shm[ptr[t]].releasing
               THEN "freelock" ELSE "frees")
    /\ UNCHANGED <<shm, list, waiters, mu, ptr, mapped, role, panic>>

\* mobj_reg_shm_free() of a guarded object.
FreeGuarded(t) ==
    /\ pc[t] = "freelock"
    /\ FreeHelper(ptr[t])
    /\ Done(t)
    /\ UNCHANGED <<waiters, mu, panic>>

\* mobj_reg_shm_free() of a registered object: it may be freed now ...
SetReleaseFrees(t) ==
    /\ pc[t] = "frees"
    /\ shm' = [shm EXCEPT ![ptr[t]].release_frees = TRUE]
    /\ Goto(t, "notify")
    /\ UNCHANGED <<list, waiters, mu, ptr, mapped, role, panic>>

\* ... which the threads that wait to release an object are told.
NotifyLock(t) ==
    /\ pc[t] = "notify"
    /\ ShmMu!Try(t, "write")
    /\ Goto(t, "notifying")
    /\ UNCHANGED <<shm, list, waiters, ptr, mapped, role, panic>>

\* Mutant: the only thread that waits is not told.
NotifyWaitersMany(t) ==
    /\ pc[t] = "notifying"
    /\ IF waiters > 1 THEN ShmMu!Broadcast(t, "shm_cv") ELSE UNCHANGED mu
    /\ Goto(t, "notified")
    /\ UNCHANGED <<shm, list, waiters, ptr, mapped, role, panic>>

NotifyWaiters(t) ==
    /\ pc[t] = "notifying"
    /\ IF waiters # 0 THEN ShmMu!Broadcast(t, "shm_cv") ELSE UNCHANGED mu
    /\ Goto(t, "notified")
    /\ UNCHANGED <<shm, list, waiters, ptr, mapped, role, panic>>

NotifyUnlock(t) ==
    /\ pc[t] = "notified"
    /\ ShmMu!Release(t)
    /\ IF role[t] = "releaser"
       THEN Goto(t, "rel") /\ UNCHANGED <<ptr, mapped, role>>
       ELSE Done(t)
    /\ UNCHANGED <<shm, list, waiters, panic>>

\* mobj_reg_shm_release_by_cookie(): mark the object under
\* reg_shm_slist_lock.  A cookie that is unknown, guarded or being released
\* is refused without effect.
ReleaseStart(t, c) ==
    /\ pc[t] = "idle"
    /\ \E o \in Mobjs :
         /\ Found(o, c)
         /\ ~shm[o].guarded
         /\ ~shm[o].releasing
         /\ shm' = [shm EXCEPT ![o].releasing = TRUE]
         /\ ptr' = [ptr EXCEPT ![t] = o]
    /\ role' = [role EXCEPT ![t] = "releaser"]
    /\ Goto(t, "relput")
    /\ UNCHANGED <<list, waiters, mu, mapped, panic>>

\* The mobj_put() of normal world's reference.
ReleasePut(t) ==
    /\ pc[t] = "relput"
    /\ shm' = [shm EXCEPT ![ptr[t]].refc = @ - 1]
    /\ Goto(t, IF shm[ptr[t]].refc = 1 THEN "free" ELSE "rel")
    /\ UNCHANGED <<list, waiters, mu, ptr, mapped, role, panic>>

\* Mutant: the waiter is not counted.
ReleaseLockNoCount(t) ==
    /\ pc[t] = "rel"
    /\ ShmMu!Try(t, "write")
    /\ Goto(t, "relcheck")
    /\ UNCHANGED <<shm, list, waiters, ptr, mapped, role, panic>>

\* Lock shm_mu and count the waiter.
ReleaseLock(t) ==
    /\ pc[t] = "rel"
    /\ ShmMu!Try(t, "write")
    /\ waiters' = waiters + 1
    /\ Goto(t, "relcheck")
    /\ UNCHANGED <<shm, list, ptr, mapped, role, panic>>

\* The loop: free the object if its last reference is gone ...
ReleaseCheck(t) ==
    /\ pc[t] = "relcheck"
    /\ IF shm[ptr[t]].release_frees
       THEN FreeHelper(ptr[t]) /\ Goto(t, "relend")
       ELSE Goto(t, "relwait") /\ UNCHANGED <<shm, list>>
    /\ UNCHANGED <<waiters, mu, ptr, mapped, role, panic>>

\* ... or wait for it.
ReleaseWait(t) ==
    /\ pc[t] = "relwait"
    /\ ShmMu!Wait(t, "shm_cv")
    /\ Goto(t, "relwake")
    /\ UNCHANGED <<shm, list, waiters, ptr, mapped, role, panic>>

ReleaseWake(t) ==
    /\ pc[t] = "relwake"
    /\ ShmMu!Grant(t)
    /\ Goto(t, "relcheck")
    /\ UNCHANGED <<shm, list, waiters, ptr, mapped, role, panic>>

ReleaseEnd(t) ==
    /\ pc[t] = "relend"
    /\ waiters' = waiters - 1
    /\ ShmMu!Release(t)
    /\ Done(t)
    /\ UNCHANGED <<shm, list, panic>>

-----------------------------------------------------------------------------
\* Steps of an operation in progress.
Progress(t) ==
    \/ Unguard(t) \/ Get(t) \/ GetInvalid(t)
    \/ IncMap(t) \/ MapSection(t) \/ MapFails(t) \/ UnmapSection(t)
    \/ FreeDecide(t) \/ FreeGuarded(t) \/ SetReleaseFrees(t)
    \/ NotifyLock(t) \/ NotifyWaiters(t) \/ NotifyUnlock(t)
    \/ ReleasePut(t) \/ ReleaseLock(t) \/ ReleaseCheck(t) \/ ReleaseWait(t)
    \/ ReleaseWake(t) \/ ReleaseEnd(t)

\* What the thread is asked to do.
Request(t) ==
    \/ \E c \in Cookies : Lookup(t, c) \/ ReleaseStart(t, c)
    \/ \E o \in Mobjs, c \in Cookies :
           Register(t, o, c) \/ AllocTemporary(t, o, c) \/ AllocMapped(t, o, c)
    \/ MapRequest(t)

\* The owner of a reference gives it back.
GiveBack(t) == DecMap(t) \/ Put(t)

Next ==
    /\ ~panic
    /\ \E t \in Threads : Progress(t) \/ Request(t) \/ GiveBack(t)

Spec == Init /\ [][Next]_vars

\* Every thread that can run goes on and does not keep its references.
Fairness ==
    \A t \in Threads : /\ WF_vars(~panic /\ Progress(t))
                       /\ WF_vars(~panic /\ GiveBack(t))

FairSpec == Spec /\ Fairness

-----------------------------------------------------------------------------
(* Safety.                                                                 *)

\* The threads that own a reference of o.
Owners(o) == {t \in Threads : ptr[t] = o /\ pc[t] \in OwnsRef}

\* Normal world owns one reference of o: it registered it and has not asked
\* to release it.
Registered(o) == ~shm[o].guarded /\ ~shm[o].releasing

\* The reference counter counts exactly the threads that use the object, and
\* normal world as long as the cookie is registered.
RefCountExact ==
    \A o \in Mobjs :
        Live(o) => shm[o].refc = Cardinality(Owners(o))
                                 + IF Registered(o) THEN 1 ELSE 0

\* t will dereference its pointer again.
Uses(t) ==
    \/ pc[t] \in OwnsRef \cup {"free", "freelock", "frees"}
    \/ role[t] = "releaser" /\ pc[t] # "relend"

\* No thread uses an object that was freed, and the list holds each object in
\* the heap, once: reg_shm_free_helper() is called once for an object and by
\* the last thread that uses it.
NoUseAfterFree ==
    /\ \A t \in Threads : Uses(t) => Live(ptr[t])
    /\ Range(list) = {o \in Mobjs : Live(o)}
    /\ \A i, j \in DOMAIN list : list[i] = list[j] => i = j

\* Between a successful mobj_inc_map() and its mobj_dec_map() the object is
\* mapped, whatever other threads do with the map counter.
MappingStays ==
    \A t \in Threads :
        mapped[t] => /\ Live(ptr[t])
                     /\ shm[ptr[t]].mapcount > 0
                     /\ shm[ptr[t]].mm

\* A thread that waits in mobj_reg_shm_release_by_cookie() while its object
\* may be freed is about to be told.
NoMissedRelease ==
    \A t \in Threads :
        mu[t] = "wait" /\ shm[ptr[t]].release_frees =>
            \E u \in Threads : pc[u] \in {"notify", "notifying"}

\* mobj_get() in mobj_reg_shm_get_by_cookie() finds an object that is alive
\* (mobj.h: "Returns a valid pointer on success or NULL on failure").
LookupValid ==
    \A t \in Threads :
        pc[t] = "get" => Live(ptr[t]) /\ shm[ptr[t]].refc > 0

\* reg_shm_unmap_helper() finds a mapping: assert(r->mm).
UnmapFindsMapping ==
    \A t \in Threads :
        pc[t] = "unmap" /\ shm[ptr[t]].mapcount = 0 => shm[ptr[t]].mm

-----------------------------------------------------------------------------
(* Liveness.                                                               *)

\* If normal world stops making new requests, every
\* mobj_reg_shm_release_by_cookie() returns: the releasing thread is told of
\* the last mobj_put() and does not wait for itself.
ReleaseReturns ==
    <>[][\A t \in Threads : ~Request(t)]_vars =>
        \A t \in Threads : role[t] = "releaser" ~> role[t] # "releaser" \/ panic
=============================================================================
