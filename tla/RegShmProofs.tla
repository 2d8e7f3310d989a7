---------------------------- MODULE RegShmProofs ----------------------------
(***************************************************************************)
(* Machine-checked proofs about RegShm, for any number of threads, objects *)
(* and cookies.                                                            *)
(*                                                                         *)
(* The argument.  The reference counter is exact (RefCountExact), so the   *)
(* thread that counts it down to 0 is alone: while a counter is not 0      *)
(* nobody frees the object (FreeOK), and once it is 0 only the thread that *)
(* releases the object can still use it (ReleaseOK).  Which of the two     *)
(* frees it is decided by flags that no longer change.  A step of one      *)
(* thread either changes no object (QuietStep), writes fields of one       *)
(* object (WriteStep), or allocates or frees one (AllocHeap, FreeHeap);    *)
(* each of these four lemmas says what such a step must not do, and one    *)
(* lemma per operation of mobj_dyn_shm.c shows that it does not.           *)
(***************************************************************************)
EXTENDS RegShm, ListLemmas, FiniteSetTheorems, TLAPS

-----------------------------------------------------------------------------
(* The inductive invariant.                                                *)

\* The steps of the last mobj_put() before it lets go of the object.
Freeing == {"free", "freelock", "frees"}

\* The steps that only mobj_reg_shm_release_by_cookie() has.
RelPC == {"relput", "rel", "relcheck", "relwait", "relwake", "relend"}

\* The steps at which a thread owns shm_mu.
WithMu == {"notifying", "notified", "relcheck", "relwait", "relend"}

\* t's pointer is that of an object in the heap.
Alive(t) == ptr[t] \in Mobjs /\ Live(ptr[t])

\* t executes a release and still uses its object.
Releases(t) == role[t] = "releaser" /\ pc[t] # "relend"

\* t has allocated the object and may still unguard it, or will not do so.
Makes(t) == pc[t] = "unguard" \/ role[t] = "mapper"

\* At which steps a thread with a role can be, and when it has a mapping.
RoleOK ==
    \A t \in Threads :
        /\ pc[t] \in RelPC => role[t] = "releaser"
        /\ role[t] = "releaser" =>
             pc[t] \in RelPC \cup {"free", "frees", "notify", "notifying",
                                   "notified"}
        /\ role[t] = "mapper" =>
             pc[t] \in {"mapinc", "maplock", "held", "free", "freelock"}
        /\ mapped[t] => \/ pc[t] = "held"
                        \/ role[t] = "mapper" /\ pc[t] \in Freeing

\* Which pointers are good.
PtrOK ==
    \A t \in Threads :
        /\ pc[t] \in OwnsRef \cup Freeing => Alive(t)
        /\ Releases(t) => Alive(t)
        /\ pc[t] = "get" => ptr[t] \in Mobjs

\* What the flags and counters of an object say about each other.
FlagsOK ==
    \A o \in Mobjs : Live(o) =>
        /\ shm[o].guarded => ~shm[o].releasing
        /\ shm[o].release_frees => shm[o].releasing /\ shm[o].refc = 0
        /\ shm[o].mapcount > 0 => shm[o].mm

\* One thread at most frees an object, and the flags tell it how.
FreeOK ==
    /\ \A t \in Threads : pc[t] \in Freeing =>
         /\ shm[ptr[t]].refc = 0
         /\ ~shm[ptr[t]].release_frees
         /\ pc[t] = "freelock" => shm[ptr[t]].guarded
         /\ pc[t] = "frees" => shm[ptr[t]].releasing
    /\ \A t, u \in Threads :
         pc[t] \in Freeing /\ pc[u] \in Freeing /\ ptr[t] = ptr[u] => t = u

\* One thread at most releases an object, and the object is marked.
ReleaseOK ==
    /\ \A t \in Threads : Releases(t) => shm[ptr[t]].releasing
    /\ \A t, u \in Threads :
         Releases(t) /\ Releases(u) /\ ptr[t] = ptr[u] => t = u

\* The object of the thread that allocated it is guarded.
MakeOK ==
    /\ \A t \in Threads : Makes(t) => shm[ptr[t]].guarded
    /\ \A t, u \in Threads :
         Makes(t) /\ Makes(u) /\ ptr[t] = ptr[u] => t = u

\* The list and the heap.
ListOK ==
    /\ Range(list) = {o \in Mobjs : Live(o)}
    /\ NoDuplicates(list)

\* The map counter covers every thread with a mapping.
Mappers(o) == {t \in Threads : mapped[t] /\ ptr[t] = o}

MapCountOK ==
    \A o \in Mobjs : Live(o) => shm[o].mapcount >= Cardinality(Mappers(o))

\* shm_release_waiters counts the threads between its changes.
Counted ==
    {t \in Threads : pc[t] \in {"relcheck", "relwait", "relwake", "relend"}}
WaitersOK == waiters = Cardinality(Counted)

\* shm_mu has one owner, and a thread waits or wants it only at relwake.
MuOK ==
    /\ \A t \in Threads : mu[t] = "own" <=> pc[t] \in WithMu
    /\ \A t \in Threads : mu[t] \in {"want", "wait"} <=> pc[t] = "relwake"
    /\ \A t, u \in Threads : mu[t] = "own" /\ mu[u] = "own" => t = u

\* A releaser that waits, or has found that it must wait, will be told.
ToldOK ==
    \A t \in Threads :
        (pc[t] = "relwait" \/ mu[t] = "wait") /\ shm[ptr[t]].release_frees =>
            \E u \in Threads : pc[u] \in {"notify", "notifying"}

\* The invariant.
Shape == RoleOK /\ PtrOK /\ FlagsOK /\ FreeOK /\ ReleaseOK /\ MakeOK
Counts == RefCountExact /\ MapCountOK /\ WaitersOK
Inv == TypeOK /\ Shape /\ Counts /\ ListOK /\ MuOK /\ ToldOK

-----------------------------------------------------------------------------
(* What a step does to an object.                                          *)

\* Two objects differ at most in the fields in F.
Alike(m, n, F) ==
    /\ "cookie" \in F \/ n.cookie = m.cookie
    /\ "refc" \in F \/ n.refc = m.refc
    /\ "mapcount" \in F \/ n.mapcount = m.mapcount
    /\ "mm" \in F \/ n.mm = m.mm
    /\ "guarded" \in F \/ n.guarded = m.guarded
    /\ "releasing" \in F \/ n.releasing = m.releasing
    /\ "release_frees" \in F \/ n.release_frees = m.release_frees

\* A step writes at most the fields in F, of at most the object o.
Writes(o, F) ==
    /\ o \in Mobjs /\ shm[o] \in Mobj /\ shm'[o] \in Mobj
    /\ Live(o) /\ Live(o)'
    /\ Alike(shm[o], shm'[o], F)
    /\ shm' \in [Mobjs -> Mobj \cup {NULL}]
    /\ \A p \in Mobjs \ {o} : shm'[p] = shm[p]

\* A store to o that keeps the other fields writes only the fields in F.
LEMMA Store ==
    ASSUME TypeOK, NEW o \in Mobjs, Live(o), NEW n \in Mobj, NEW F,
           Alike(shm[o], n, F), shm' = [shm EXCEPT ![o] = n]
    PROVE  Writes(o, F) /\ shm'[o] = n
<1>1. shm \in [Mobjs -> Mobj \cup {NULL}]
  BY DEF TypeOK
<1>2. /\ shm' \in [Mobjs -> Mobj \cup {NULL}]
      /\ shm'[o] = n
      /\ \A p \in Mobjs \ {o} : shm'[p] = shm[p]
  BY <1>1, Zenon
<1>3. n # NULL /\ shm[o] \in Mobj
  BY <1>1, NullFresh, Zenon DEF Live
<1> QED
  BY <1>2, <1>3, Zenon DEF Writes, Live


\* Changing a field leaves a struct mobj_reg_shm and its other fields.
LEMMA RecordFields ==
    ASSUME NEW m \in Mobj
    PROVE  /\ \A x \in Nat :
                LET n == [m EXCEPT !.refc = x]
                IN  n \in Mobj /\ n.refc = x /\ Alike(m, n, {"refc"})
           /\ \A x \in Nat :
                LET n == [m EXCEPT !.mapcount = x]
                IN  n \in Mobj /\ n.mapcount = x /\ Alike(m, n, {"mapcount"})
           /\ \A x \in BOOLEAN :
                LET n == [m EXCEPT !.mm = x]
                IN  n \in Mobj /\ n.mm = x /\ Alike(m, n, {"mm"})
           /\ \A x \in BOOLEAN :
                LET n == [m EXCEPT !.guarded = x]
                IN  n \in Mobj /\ n.guarded = x /\ Alike(m, n, {"guarded"})
           /\ \A x \in BOOLEAN :
                LET n == [m EXCEPT !.releasing = x]
                IN  n \in Mobj /\ n.releasing = x /\ Alike(m, n, {"releasing"})
           /\ \A x \in BOOLEAN :
                LET n == [m EXCEPT !.release_frees = x]
                IN  /\ n \in Mobj /\ n.release_frees = x
                    /\ Alike(m, n, {"release_frees"})
           /\ LET n == [m EXCEPT !.mapcount = 1, !.mm = TRUE]
              IN  /\ n \in Mobj /\ n.mapcount = 1 /\ n.mm = TRUE
                  /\ Alike(m, n, {"mapcount", "mm"})
BY DEF Mobj, Alike

\* A store to refc writes that field only.
LEMMA WriteRefc ==
    ASSUME TypeOK, NEW o \in Mobjs, Live(o), NEW k \in Nat,
           shm' = [shm EXCEPT ![o].refc = k]
    PROVE  Writes(o, {"refc"}) /\ shm'[o].refc = k
<1>1. PICK m \in Mobj : m = shm[o]
  BY DEF Live, TypeOK
<1>2. PICK n \in Mobj : /\ n = [m EXCEPT !.refc = k]
                       /\ n.refc = k /\ Alike(m, n, {"refc"})
  BY RecordFields, Zenon
<1>3. shm' = [shm EXCEPT ![o] = n]
  BY <1>1, <1>2, Zenon
<1> QED
  BY <1>1, <1>2, <1>3, Store, Zenon

\* A store to mapcount writes that field only.
LEMMA WriteMapcount ==
    ASSUME TypeOK, NEW o \in Mobjs, Live(o), NEW k \in Nat,
           shm' = [shm EXCEPT ![o].mapcount = k]
    PROVE  Writes(o, {"mapcount"}) /\ shm'[o].mapcount = k
<1>1. PICK m \in Mobj : m = shm[o]
  BY DEF Live, TypeOK
<1>2. PICK n \in Mobj : /\ n = [m EXCEPT !.mapcount = k]
                       /\ n.mapcount = k /\ Alike(m, n, {"mapcount"})
  BY RecordFields, Zenon
<1>3. shm' = [shm EXCEPT ![o] = n]
  BY <1>1, <1>2, Zenon
<1> QED
  BY <1>1, <1>2, <1>3, Store, Zenon

\* A store to mm writes that field only.
LEMMA WriteMm ==
    ASSUME TypeOK, NEW o \in Mobjs, Live(o), NEW b \in BOOLEAN,
           shm' = [shm EXCEPT ![o].mm = b]
    PROVE  Writes(o, {"mm"}) /\ shm'[o].mm = b
<1>1. PICK m \in Mobj : m = shm[o]
  BY DEF Live, TypeOK
<1>2. PICK n \in Mobj : /\ n = [m EXCEPT !.mm = b]
                       /\ n.mm = b /\ Alike(m, n, {"mm"})
  BY RecordFields, Zenon
<1>3. shm' = [shm EXCEPT ![o] = n]
  BY <1>1, <1>2, Zenon
<1> QED
  BY <1>1, <1>2, <1>3, Store, Zenon

\* A store to guarded writes that field only.
LEMMA WriteGuarded ==
    ASSUME TypeOK, NEW o \in Mobjs, Live(o), NEW b \in BOOLEAN,
           shm' = [shm EXCEPT ![o].guarded = b]
    PROVE  Writes(o, {"guarded"}) /\ shm'[o].guarded = b
<1>1. PICK m \in Mobj : m = shm[o]
  BY DEF Live, TypeOK
<1>2. PICK n \in Mobj : /\ n = [m EXCEPT !.guarded = b]
                       /\ n.guarded = b /\ Alike(m, n, {"guarded"})
  BY RecordFields, Zenon
<1>3. shm' = [shm EXCEPT ![o] = n]
  BY <1>1, <1>2, Zenon
<1> QED
  BY <1>1, <1>2, <1>3, Store, Zenon

\* A store to releasing writes that field only.
LEMMA WriteReleasing ==
    ASSUME TypeOK, NEW o \in Mobjs, Live(o), NEW b \in BOOLEAN,
           shm' = [shm EXCEPT ![o].releasing = b]
    PROVE  Writes(o, {"releasing"}) /\ shm'[o].releasing = b
<1>1. PICK m \in Mobj : m = shm[o]
  BY DEF Live, TypeOK
<1>2. PICK n \in Mobj : /\ n = [m EXCEPT !.releasing = b]
                       /\ n.releasing = b /\ Alike(m, n, {"releasing"})
  BY RecordFields, Zenon
<1>3. shm' = [shm EXCEPT ![o] = n]
  BY <1>1, <1>2, Zenon
<1> QED
  BY <1>1, <1>2, <1>3, Store, Zenon

\* A store to release_frees writes that field only.
LEMMA WriteReleaseFrees ==
    ASSUME TypeOK, NEW o \in Mobjs, Live(o), NEW b \in BOOLEAN,
           shm' = [shm EXCEPT ![o].release_frees = b]
    PROVE  Writes(o, {"release_frees"}) /\ shm'[o].release_frees = b
<1>1. PICK m \in Mobj : m = shm[o]
  BY DEF Live, TypeOK
<1>2. PICK n \in Mobj : /\ n = [m EXCEPT !.release_frees = b]
                       /\ n.release_frees = b /\ Alike(m, n, {"release_frees"})
  BY RecordFields, Zenon
<1>3. shm' = [shm EXCEPT ![o] = n]
  BY <1>1, <1>2, Zenon
<1> QED
  BY <1>1, <1>2, <1>3, Store, Zenon

\* Mapping writes mapcount and mm.
LEMMA WriteMap ==
    ASSUME TypeOK, NEW o \in Mobjs, Live(o),
           shm' = [shm EXCEPT ![o] = [@ EXCEPT !.mapcount = 1, !.mm = TRUE]]
    PROVE  /\ Writes(o, {"mapcount", "mm"})
           /\ shm'[o].mapcount = 1 /\ shm'[o].mm = TRUE
<1>1. PICK m \in Mobj : m = shm[o]
  BY DEF Live, TypeOK
<1>2. PICK n \in Mobj :
         /\ n = [m EXCEPT !.mapcount = 1, !.mm = TRUE]
         /\ n.mapcount = 1 /\ n.mm = TRUE /\ Alike(m, n, {"mapcount", "mm"})
  BY RecordFields, Zenon
<1>3. shm' = [shm EXCEPT ![o] = n]
  BY <1>1, <1>2, Zenon
<1> QED
  BY <1>1, <1>2, <1>3, Store, Zenon

-----------------------------------------------------------------------------
(* Counting threads.                                                       *)

\* What a thread adds to or takes from a set of threads, it adds to or takes
\* from its size.
LEMMA Counting ==
    ASSUME NEW S \in SUBSET Threads, NEW R \in SUBSET Threads,
           NEW t \in Threads, \A u \in Threads \ {t} : u \in R <=> u \in S
    PROVE  /\ Cardinality(S) \in Nat
           /\ Cardinality(R) = Cardinality(S) + (IF t \in R THEN 1 ELSE 0)
                                              - (IF t \in S THEN 1 ELSE 0)
           /\ t \in S => Cardinality(S) > 0
<1>1. IsFiniteSet(S) /\ IsFiniteSet(R)
  BY ThreadsFinite, FS_Subset
<1>2. Cardinality(S) \in Nat /\ Cardinality(R) \in Nat
  BY <1>1, FS_CardinalityType
<1>3. CASE t \in R /\ t \notin S
  <2>1. R = S \cup {t}
    BY <1>3
  <2> QED
    BY <1>1, <1>2, <1>3, <2>1, FS_AddElement
<1>4. CASE t \notin R /\ t \in S
  <2>1. R = S \ {t}
    BY <1>4
  <2> QED
    BY <1>1, <1>2, <1>4, <2>1, FS_RemoveElement
<1>5. CASE t \in R /\ t \in S
  <2>1. R = S
    BY <1>5
  <2>2. Cardinality(S \ {t}) = Cardinality(S) - 1 /\ IsFiniteSet(S \ {t})
    BY <1>1, <1>5, FS_RemoveElement
  <2>3. Cardinality(S \ {t}) \in Nat
    BY <2>2, FS_CardinalityType
  <2> QED
    BY <1>2, <1>5, <2>1, <2>2, <2>3
<1>6. CASE t \notin R /\ t \notin S
  <2>1. R = S
    BY <1>6
  <2> QED
    BY <1>2, <1>6, <2>1
<1> QED
  BY <1>3, <1>4, <1>5, <1>6

\* Only t moves.
Others(t) ==
    \A u \in Threads \ {t} :
        /\ pc'[u] = pc[u]
        /\ ptr'[u] = ptr[u]
        /\ mapped'[u] = mapped[u]
        /\ role'[u] = role[u]

\* What t contributes to the counters of o.
Ref(t, o) == IF ptr[t] = o /\ pc[t] \in OwnsRef THEN 1 ELSE 0
Map(t, o) == IF ptr[t] = o /\ mapped[t] THEN 1 ELSE 0

\* If only t moves the counters follow t.
LEMMA CountersMove ==
    ASSUME NEW t \in Threads, NEW o, Others(t)
    PROVE  /\ Cardinality(Owners(o)) \in Nat
           /\ Cardinality(Owners(o))' =
                Cardinality(Owners(o)) + Ref(t, o)' - Ref(t, o)
           /\ Ref(t, o) = 1 => Cardinality(Owners(o)) > 0
           /\ Cardinality(Mappers(o)) \in Nat
           /\ Cardinality(Mappers(o))' =
                Cardinality(Mappers(o)) + Map(t, o)' - Map(t, o)
           /\ Map(t, o) = 1 => Cardinality(Mappers(o)) > 0
<1>1. PICK S \in SUBSET Threads : S = Owners(o)
  BY DEF Owners
<1>2. PICK R \in SUBSET Threads : R = Owners(o)'
  BY DEF Owners
<1>3. \A u \in Threads \ {t} : u \in R <=> u \in S
  BY <1>1, <1>2 DEF Others, Owners
<1>4. /\ Ref(t, o) = IF t \in S THEN 1 ELSE 0
      /\ Ref(t, o)' = IF t \in R THEN 1 ELSE 0
  BY <1>1, <1>2 DEF Ref, Owners
<1>5. PICK P \in SUBSET Threads : P = Mappers(o)
  BY DEF Mappers
<1>6. PICK Q \in SUBSET Threads : Q = Mappers(o)'
  BY DEF Mappers
<1>7. \A u \in Threads \ {t} : u \in Q <=> u \in P
  BY <1>5, <1>6 DEF Others, Mappers
<1>8. /\ Map(t, o) = IF t \in P THEN 1 ELSE 0
      /\ Map(t, o)' = IF t \in Q THEN 1 ELSE 0
  BY <1>5, <1>6 DEF Map, Mappers
<1>9. /\ Cardinality(S) \in Nat
      /\ Cardinality(R) = Cardinality(S) + (IF t \in R THEN 1 ELSE 0)
                                         - (IF t \in S THEN 1 ELSE 0)
      /\ t \in S => Cardinality(S) > 0
  BY <1>3, Counting
<1>10. /\ Cardinality(P) \in Nat
       /\ Cardinality(Q) = Cardinality(P) + (IF t \in Q THEN 1 ELSE 0)
                                          - (IF t \in P THEN 1 ELSE 0)
       /\ t \in P => Cardinality(P) > 0
  BY <1>7, Counting
<1> QED
  BY <1>1, <1>2, <1>4, <1>5, <1>6, <1>8, <1>9, <1>10

\* A thread that owns a reference is counted, and so is one with a mapping.
LEMMA OwnerCounted ==
    ASSUME Inv, NEW t \in Threads
    PROVE  /\ pc[t] \in OwnsRef => /\ Alive(t)
                                   /\ shm[ptr[t]] \in Mobj
                                   /\ shm[ptr[t]].refc > 0
           /\ mapped[t] => /\ Alive(t)
                           /\ shm[ptr[t]].mapcount > 0
                           /\ shm[ptr[t]].mm
<1>1. ASSUME pc[t] \in OwnsRef
      PROVE  Alive(t) /\ shm[ptr[t]] \in Mobj /\ shm[ptr[t]].refc > 0
  <2>1. PICK o \in Mobjs : o = ptr[t] /\ Live(o) /\ shm[o] \in Mobj
    BY <1>1 DEF Inv, Shape, PtrOK, Alive, TypeOK, Live
  <2>2. PICK S \in SUBSET Threads : S = Owners(o) /\ t \in S
    BY <1>1, <2>1 DEF Owners
  <2>3. Cardinality(S) \in Nat /\ Cardinality(S) > 0
    BY <2>2, Counting
  <2> QED
    BY <2>1, <2>2, <2>3 DEF Inv, Counts, RefCountExact, Alive, Live
<1>2. ASSUME mapped[t]
      PROVE  Alive(t) /\ shm[ptr[t]].mapcount > 0 /\ shm[ptr[t]].mm
  <2>1. PICK o \in Mobjs : o = ptr[t] /\ Live(o) /\ shm[o] \in Mobj
    BY <1>2 DEF Inv, Shape, PtrOK, RoleOK, Alive, TypeOK, Live, OwnsRef
  <2>2. PICK S \in SUBSET Threads : S = Mappers(o) /\ t \in S
    <3>1. t \in Mappers(o)
      BY <1>2, <2>1, Zenon DEF Mappers
    <3> QED
      BY <3>1 DEF Mappers
  <2>3. Cardinality(S) \in Nat /\ Cardinality(S) > 0
    BY <2>2, Counting
  <2>4. shm[o].mapcount \in Nat /\ shm[o].mapcount >= Cardinality(S)
    BY <2>1, <2>2 DEF Inv, Counts, MapCountOK, Mobj
  <2>5. shm[o].mapcount > 0
    BY <2>3, <2>4
  <2> QED
    BY <2>1, <2>5 DEF Inv, Shape, FlagsOK, Alive
<1> QED
  BY <1>1, <1>2
-----------------------------------------------------------------------------
(* What every step does to the threads and the mutex.                      *)

\* What the operations on shm_mu do.
LEMMA MutexOps ==
    ASSUME TypeOK, NEW t \in Threads
    PROVE  /\ ShmMu!Try(t, "write") =>
                /\ \A u \in Threads : mu[u] # "own"
                /\ mu' = [mu EXCEPT ![t] = "own"]
           /\ ShmMu!Grant(t) =>
                /\ \A u \in Threads : mu[u] # "own"
                /\ mu' = [mu EXCEPT ![t] = "own"]
           /\ ShmMu!Release(t) => mu' = [mu EXCEPT ![t] = "out"]
           /\ ShmMu!Wait(t, "shm_cv") => mu' = [mu EXCEPT ![t] = "wait"]
           /\ ShmMu!Broadcast(t, "shm_cv") =>
                mu' = [u \in Threads |-> IF mu[u] = "wait" THEN "want"
                                         ELSE mu[u]]
<1>1. ShmMu!Try(t, "write") \/ ShmMu!Grant(t) =>
        /\ \A u \in Threads : mu[u] # "own"
        /\ mu' = [mu EXCEPT ![t] = "own"]
  BY DEF ShmMu!Try, ShmMu!Grant, ShmMu!Grantable
<1>2. ShmMu!Broadcast(t, "shm_cv") =>
        mu' = [u \in Threads |-> IF mu[u] = "wait" THEN "want" ELSE mu[u]]
  BY DEF ShmMu!Broadcast, ShmMu!EndWait, ShmMu!Waiting
<1> QED
  BY <1>1, <1>2 DEF ShmMu!Release, ShmMu!Wait

\* A thread's step.
Step(t) == Progress(t) \/ Request(t) \/ GiveBack(t)

\* One thread moves in a step.
LEMMA OnlyOneMoves ==
    ASSUME TypeOK, NEW t \in Threads, Step(t)
    PROVE  Others(t)
<1> USE DEF TypeOK, Others, Goto, Done
<1>1. CASE Progress(t)
  BY <1>1 DEF Progress, Unguard, Get, GetInvalid, IncMap, MapSection, MapFails,
     UnmapSection, FreeDecide, FreeGuarded, SetReleaseFrees, NotifyLock,
     NotifyWaiters, NotifyUnlock, ReleasePut, ReleaseLock, ReleaseCheck,
     ReleaseWait, ReleaseWake, ReleaseEnd
<1>2. CASE Request(t) \/ GiveBack(t)
  BY <1>2 DEF Request, GiveBack, Lookup, ReleaseStart, Register,
     AllocTemporary, AllocMapped, MapRequest, DecMap, Put
<1> QED
  BY <1>1, <1>2 DEF Step

\* The locals of the threads have their types after a step.
LocalTypes ==
    /\ pc' \in [Threads -> PC]
    /\ ptr' \in [Threads -> Mobjs \cup {NULL}]
    /\ mapped' \in [Threads -> BOOLEAN]
    /\ role' \in [Threads -> {"user", "mapper", "releaser"}]

\* Every step keeps the types of the locals.
LEMMA LocalTypesStep ==
    ASSUME TypeOK, NEW t \in Threads, Step(t)
    PROVE  LocalTypes
<1> USE DEF TypeOK, LocalTypes, Goto, Done, PC, OwnsRef
<1>1. CASE Progress(t)
  BY <1>1 DEF Progress, Unguard, Get, GetInvalid, IncMap, MapSection, MapFails,
     UnmapSection, FreeDecide, FreeGuarded, SetReleaseFrees, NotifyLock,
     NotifyWaiters, NotifyUnlock, ReleasePut, ReleaseLock, ReleaseCheck,
     ReleaseWait, ReleaseWake, ReleaseEnd
<1>2. CASE Request(t)
  BY <1>2 DEF Request, Lookup, ReleaseStart, Register, AllocTemporary,
     AllocMapped, MapRequest
<1>3. CASE GiveBack(t)
  BY <1>3 DEF GiveBack, DecMap, Put
<1> QED
  BY <1>1, <1>2, <1>3 DEF Step

\* A thread's role agrees with its steps.
LEMMA RoleStep ==
    ASSUME Inv, NEW t \in Threads, Step(t)
    PROVE  RoleOK'
<1> USE DEF RoleOK, RelPC, Freeing, Goto, Done
<1>0. TypeOK /\ RoleOK
  BY DEF Inv, Shape
<1>1. CASE FreeDecide(t)
  <2>1. /\ role[t] = "mapper" =>
             shm[ptr[t]].guarded /\ ~shm[ptr[t]].releasing
        /\ role[t] = "releaser" => shm[ptr[t]].releasing
    BY <1>1 DEF FreeDecide, Inv, Shape, MakeOK, Makes, FlagsOK, PtrOK, Alive,
       ReleaseOK, Releases
  <2>2. /\ pc[t] = "free"
        /\ \/ Goto(t, "freelock") /\ role[t] # "releaser"
           \/ Goto(t, "frees") /\ role[t] # "mapper"
        /\ UNCHANGED <<mapped, role>>
    BY <1>1, <2>1, Zenon DEF FreeDecide
  <2> QED
    BY <1>0, <2>2 DEF TypeOK
<1>2. CASE Progress(t) /\ ~FreeDecide(t)
  BY <1>0, <1>2 DEF TypeOK, Progress, Unguard, Get, GetInvalid, IncMap,
     MapSection, MapFails, UnmapSection, FreeGuarded, SetReleaseFrees,
     NotifyLock, NotifyWaiters, NotifyUnlock, ReleasePut, ReleaseLock,
     ReleaseCheck, ReleaseWait, ReleaseWake, ReleaseEnd
<1>3. CASE Request(t) \/ GiveBack(t)
  BY <1>0, <1>3 DEF TypeOK, Request, GiveBack, Lookup, ReleaseStart, Register,
     AllocTemporary, AllocMapped, MapRequest, DecMap, Put
<1> QED
  BY <1>1, <1>2, <1>3 DEF Step

\* shm_mu and the thread's steps agree.
LEMMA MuStep ==
    ASSUME Inv, NEW t \in Threads, Step(t)
    PROVE  MuOK' /\ mu' \in [Threads -> {"out", "want", "own", "wait"}]
<1> USE DEF MuOK, WithMu, Goto, Done
<1>0. TypeOK /\ MuOK
  BY DEF Inv
<1>1. CASE \/ NotifyLock(t) \/ NotifyWaiters(t) \/ NotifyUnlock(t)
           \/ ReleaseLock(t) \/ ReleaseWait(t) \/ ReleaseWake(t)
           \/ ReleaseEnd(t)
  <2>1. CASE NotifyLock(t) \/ ReleaseLock(t) \/ ReleaseWake(t)
    BY <1>0, <2>1, MutexOps DEF TypeOK, NotifyLock, ReleaseLock, ReleaseWake
  <2>2. CASE NotifyWaiters(t)
    BY <1>0, <2>2, MutexOps DEF TypeOK, NotifyWaiters
  <2>3. CASE NotifyUnlock(t) \/ ReleaseEnd(t)
    BY <1>0, <2>3, MutexOps DEF TypeOK, NotifyUnlock, ReleaseEnd
  <2>4. CASE ReleaseWait(t)
    BY <1>0, <2>4, MutexOps DEF TypeOK, ReleaseWait
  <2> QED
    BY <1>1, <2>1, <2>2, <2>3, <2>4
<1>2. CASE \/ Unguard(t) \/ Get(t) \/ GetInvalid(t)
           \/ IncMap(t) \/ MapSection(t) \/ MapFails(t) \/ UnmapSection(t)
           \/ FreeDecide(t) \/ FreeGuarded(t) \/ SetReleaseFrees(t)
           \/ ReleasePut(t) \/ ReleaseCheck(t)
  BY <1>0, <1>2 DEF TypeOK, Unguard, Get, GetInvalid, IncMap, MapSection,
     MapFails, UnmapSection, FreeDecide, FreeGuarded, SetReleaseFrees,
     ReleasePut, ReleaseCheck
<1>3. CASE Request(t) \/ GiveBack(t)
  BY <1>0, <1>3 DEF TypeOK, Request, GiveBack, Lookup, ReleaseStart, Register,
     AllocTemporary, AllocMapped, MapRequest, DecMap, Put
<1> QED
  BY <1>1, <1>2, <1>3 DEF Step, Progress

\* shm_release_waiters is exact.
LEMMA WaitersStep ==
    ASSUME Inv, NEW t \in Threads, Step(t)
    PROVE  WaitersOK' /\ waiters' \in Nat
<1> DEFINE In(u) == pc[u] \in {"relcheck", "relwait", "relwake", "relend"}
<1>0. TypeOK /\ Others(t) /\ WaitersOK
  BY OnlyOneMoves DEF Inv, Counts
<1>1. PICK S \in SUBSET Threads : S = Counted
  BY DEF Counted
<1>2. PICK R \in SUBSET Threads : R = Counted'
  BY DEF Counted
<1>3. \A u \in Threads \ {t} : u \in R <=> u \in S
  BY <1>0, <1>1, <1>2 DEF Others, Counted
<1>4. /\ t \in S <=> In(t)
      /\ t \in R <=> In(t)'
  BY <1>1, <1>2 DEF Counted
<1>5. waiters' = waiters + (IF In(t)' THEN 1 ELSE 0) - (IF In(t) THEN 1 ELSE 0)
  <2> USE DEF Goto, Done
  <2>1. CASE Progress(t)
    BY <1>0, <2>1 DEF TypeOK, Progress, Unguard, Get, GetInvalid, IncMap,
       MapSection, MapFails, UnmapSection, FreeDecide, FreeGuarded,
       SetReleaseFrees, NotifyLock, NotifyWaiters, NotifyUnlock, ReleasePut,
       ReleaseLock, ReleaseCheck, ReleaseWait, ReleaseWake, ReleaseEnd
  <2>2. CASE Request(t) \/ GiveBack(t)
    BY <1>0, <2>2 DEF TypeOK, Request, GiveBack, Lookup, ReleaseStart,
       Register, AllocTemporary, AllocMapped, MapRequest, DecMap, Put
  <2> QED
    BY <2>1, <2>2 DEF Step
<1>6. /\ Cardinality(S) \in Nat
      /\ Cardinality(R) = Cardinality(S) + (IF t \in R THEN 1 ELSE 0)
                                         - (IF t \in S THEN 1 ELSE 0)
  BY <1>3, Counting
<1>7. Cardinality(R) \in Nat
  BY ThreadsFinite, FS_Subset, FS_CardinalityType
<1>8. waiters = Cardinality(S)
  BY <1>0, <1>1 DEF WaitersOK
<1> HIDE DEF In
<1>9. waiters' = Cardinality(R)
  BY <1>4, <1>5, <1>6, <1>8
<1> QED
  BY <1>2, <1>7, <1>9 DEF WaitersOK
-----------------------------------------------------------------------------
(* Steps that change no object.                                            *)

\* The part of the invariant that is about the objects.
Heap ==
    /\ shm \in [Mobjs -> Mobj \cup {NULL}]
    /\ list \in Seq(Mobjs)
    /\ PtrOK
    /\ FlagsOK
    /\ FreeOK
    /\ ReleaseOK
    /\ MakeOK
    /\ RefCountExact
    /\ MapCountOK
    /\ ListOK

\* What a step of t does to the objects: it keeps that part, and only the
\* last mobj_put() sets release_frees.
HeapStep(t) ==
    /\ Heap'
    /\ \A p \in Mobjs : Live(p) /\ Live(p)' /\ shm'[p].release_frees =>
                         shm[p].release_frees \/ pc'[t] = "notify"

\* t moves on, and takes or drops nothing of an object.
Keeps(t) ==
    /\ pc'[t] \in OwnsRef <=> pc[t] \in OwnsRef
    /\ pc'[t] \in Freeing => pc[t] \in Freeing
    /\ Releases(t)' => Releases(t)
    /\ Makes(t)' => Makes(t)
    /\ mapped'[t] => mapped[t]
    /\ \/ ptr'[t] = ptr[t]
       \/ /\ pc'[t] \notin OwnsRef \cup Freeing
          /\ ~Releases(t)' /\ ~Makes(t)' /\ ~mapped'[t]
    /\ pc'[t] = "get" => ptr'[t] \in Mobjs
    /\ pc'[t] = "freelock" => pc[t] = "freelock" \/ shm[ptr[t]].guarded
    /\ pc'[t] = "frees" => pc[t] = "frees" \/ shm[ptr[t]].releasing

\* Such a step keeps the objects in order.
LEMMA QuietStep ==
    ASSUME Inv, NEW t \in Threads, Others(t), Keeps(t), UNCHANGED <<shm, list>>
    PROVE  HeapStep(t)
<1>1. /\ shm' \in [Mobjs -> Mobj \cup {NULL}]
      /\ list' \in Seq(Mobjs)
      /\ FlagsOK' /\ ListOK'
  BY DEF Inv, TypeOK, Shape, FlagsOK, ListOK, Live
<1>2. PtrOK'
  <2>1. \A u \in Threads : /\ Releases(u)' => Releases(u) /\ ptr'[u] = ptr[u]
                           /\ pc'[u] \in OwnsRef \cup Freeing =>
                                /\ pc[u] \in OwnsRef \cup Freeing
                                /\ ptr'[u] = ptr[u]
    BY DEF Others, Keeps, Releases
  <2>2. \A u \in Threads : pc'[u] = "get" => ptr'[u] \in Mobjs
    BY DEF Others, Keeps, Inv, Shape, PtrOK
  <2> QED
    BY <2>1, <2>2 DEF PtrOK, Alive, Live, Inv, Shape
<1>3. FreeOK'
  <2>1. \A u \in Threads : pc'[u] \in Freeing =>
          /\ pc[u] \in Freeing
          /\ ptr'[u] = ptr[u]
          /\ pc'[u] = "freelock" => shm[ptr[u]].guarded
          /\ pc'[u] = "frees" => shm[ptr[u]].releasing
    BY DEF Others, Keeps, Inv, Shape, FreeOK
  <2> QED
    BY <2>1 DEF FreeOK, Inv, Shape
<1>4. ReleaseOK'
  <2>1. \A u \in Threads : Releases(u)' => Releases(u) /\ ptr'[u] = ptr[u]
    BY DEF Others, Keeps, Releases
  <2> QED
    BY <2>1 DEF ReleaseOK, Inv, Shape
<1>5. MakeOK'
  <2>1. \A u \in Threads : Makes(u)' => Makes(u) /\ ptr'[u] = ptr[u]
    BY DEF Others, Keeps, Makes
  <2> QED
    BY <2>1 DEF MakeOK, Inv, Shape
<1>6. RefCountExact'
  <2> SUFFICES ASSUME NEW p \in Mobjs, Live(p)'
               PROVE  shm'[p].refc = Cardinality(Owners(p))'
                                     + IF Registered(p)' THEN 1 ELSE 0
    BY DEF RefCountExact
  <2>1. Ref(t, p)' = Ref(t, p)
    BY DEF Ref, Keeps
  <2>2. Cardinality(Owners(p))' = Cardinality(Owners(p))
    BY <2>1, CountersMove DEF Ref
  <2> QED
    BY <2>2 DEF Inv, Counts, RefCountExact, Live, Registered
<1>7. MapCountOK'
  <2> SUFFICES ASSUME NEW p \in Mobjs, Live(p)'
               PROVE  shm'[p].mapcount >= Cardinality(Mappers(p))'
    BY DEF MapCountOK
  <2>1. Map(t, p)' = 0 \/ Map(t, p)' = Map(t, p)
    BY Zenon DEF Map, Keeps
  <2>2. Cardinality(Mappers(p))' <= Cardinality(Mappers(p))
    BY <2>1, CountersMove DEF Map
  <2>3. /\ shm[p].mapcount \in Nat
        /\ shm[p].mapcount >= Cardinality(Mappers(p))
        /\ Cardinality(Mappers(p)) \in Nat
        /\ Cardinality(Mappers(p))' \in Int
    BY CountersMove DEF Inv, Counts, MapCountOK, TypeOK, Live, Mobj, Map
  <2> QED
    BY <2>2, <2>3
<1> QED
  BY <1>1, <1>2, <1>3, <1>4, <1>5, <1>6, <1>7 DEF Heap, HeapStep

\* The steps that change no object: calls, failures, decisions and the
\* operations on shm_mu.
Quiet(t) ==
    \/ GetInvalid(t) \/ MapFails(t) \/ FreeDecide(t) \/ MapRequest(t)
    \/ NotifyLock(t) \/ NotifyWaiters(t) \/ NotifyUnlock(t)
    \/ ReleaseLock(t) \/ ReleaseWait(t) \/ ReleaseWake(t) \/ ReleaseEnd(t)
    \/ IncMap(t) /\ ~(shm[ptr[t]].mapcount # 0)
    \/ MapSection(t) /\ shm[ptr[t]].mapcount # 0
    \/ UnmapSection(t) /\ shm[ptr[t]].mapcount # 0
    \/ ReleaseCheck(t) /\ ~shm[ptr[t]].release_frees
    \/ \E c \in Cookies : Lookup(t, c)

\* They take and drop nothing.  FreeDecide needs RefCountExact: an object
\* without references that is not guarded is being released.
LEMMA QuietHeap ==
    ASSUME Inv, NEW t \in Threads, Step(t), Quiet(t)
    PROVE  HeapStep(t)
<1>1. UNCHANGED <<shm, list>>
  BY Zenon DEF Quiet, GetInvalid, MapFails, FreeDecide, MapRequest, NotifyLock,
     NotifyWaiters, NotifyUnlock, ReleaseLock, ReleaseWait, ReleaseWake,
     ReleaseEnd, IncMap, MapSection, UnmapSection, ReleaseCheck, Lookup
<1>2. Others(t)
  BY OnlyOneMoves DEF Inv
<1>3. Keeps(t)
  <2> USE DEF Keeps, OwnsRef, Freeing, Releases, Makes, Goto, Done
  <2>0. /\ pc \in [Threads -> PC] /\ ptr \in [Threads -> Mobjs \cup {NULL}]
        /\ mapped \in [Threads -> BOOLEAN]
        /\ role \in [Threads -> {"user", "mapper", "releaser"}]
        /\ RoleOK /\ PtrOK
    BY DEF Inv, TypeOK, Shape
  <2>1. CASE FreeDecide(t)
    <3>1. shm[ptr[t]].guarded \/ shm[ptr[t]].releasing
      <4>1. PICK o \in Mobjs : o = ptr[t] /\ Live(o) /\ shm[o] \in Mobj
        BY <2>1 DEF FreeDecide, Inv, Shape, PtrOK, Alive, TypeOK, Live
      <4>2. shm[o].refc = 0
        BY <2>1, <4>1 DEF FreeDecide, Inv, Shape, FreeOK
      <4>3. ~Registered(o)
        BY <1>2, <4>1, <4>2, CountersMove
           DEF Inv, Counts, RefCountExact
      <4> QED
        BY <4>1, <4>3, Zenon DEF Registered
    <3>2. /\ pc[t] = "free"
          /\ \/ Goto(t, "freelock") /\ shm[ptr[t]].guarded
             \/ Goto(t, "frees") /\ shm[ptr[t]].releasing
          /\ UNCHANGED <<ptr, mapped, role>>
      BY <2>1, <3>1, Zenon DEF FreeDecide
    <3> QED
      BY <2>0, <3>2
  <2>2. CASE NotifyUnlock(t)
    BY <2>0, <2>2 DEF NotifyUnlock, RoleOK, RelPC
  <2>3. CASE \E c \in Cookies : Lookup(t, c)
    BY <2>0, <2>3 DEF Lookup, RoleOK, RelPC
  <2>4. CASE NotifyLock(t) \/ NotifyWaiters(t) \/ ReleaseLock(t)
             \/ ReleaseWait(t) \/ ReleaseWake(t) \/ ReleaseEnd(t)
    BY <2>0, <2>4 DEF NotifyLock, NotifyWaiters, ReleaseLock, ReleaseWait,
       ReleaseWake, ReleaseEnd, RoleOK, RelPC
  <2>5. CASE GetInvalid(t) \/ MapFails(t) \/ MapRequest(t)
    BY <2>0, <2>5 DEF GetInvalid, MapFails, MapRequest, PtrOK
  <2>6. CASE \/ IncMap(t) /\ ~(shm[ptr[t]].mapcount # 0)
             \/ MapSection(t) /\ shm[ptr[t]].mapcount # 0
             \/ UnmapSection(t) /\ shm[ptr[t]].mapcount # 0
             \/ ReleaseCheck(t) /\ ~shm[ptr[t]].release_frees
    <3>1. /\ \/ pc[t] \in {"mapinc", "maplock", "unmap"} /\
                (Goto(t, "maplock") \/ Goto(t, "mapinc") \/ Goto(t, "held"))
             \/ pc[t] = "relcheck" /\ Goto(t, "relwait")
          /\ UNCHANGED <<ptr, mapped, role>>
      BY <2>6, Zenon DEF IncMap, MapSection, UnmapSection, ReleaseCheck
    <3> QED
      BY <2>0, <3>1
  <2> QED
    BY <2>1, <2>2, <2>3, <2>4, <2>5, <2>6 DEF Quiet
<1> QED
  BY <1>1, <1>2, <1>3, QuietStep
-----------------------------------------------------------------------------
(* Steps that write fields of one object.                                  *)

\* What normal world contributes to the reference counter of o.
Reg(o) == IF Registered(o) THEN 1 ELSE 0

\* What makes it harmless that t writes fields of o: nobody else is about to
\* free o, the flags of o still agree with each other and with
\* what t does, and t lets go of nothing but o.
Harmless(t, o) ==
    /\ \A u \in Threads \ {t} : pc[u] \in Freeing => ptr[u] # o
    /\ shm'[o].guarded => ~shm'[o].releasing
    /\ shm'[o].release_frees => shm'[o].releasing /\ shm'[o].refc = 0
    /\ shm'[o].mapcount > 0 => shm'[o].mm
    /\ shm'[o].release_frees => shm[o].release_frees \/ pc'[t] = "notify"
    /\ shm[o].releasing => shm'[o].releasing
    /\ shm[o].guarded => shm'[o].guarded \/ (Makes(t) /\ ptr[t] = o)
    /\ ptr[t] = o \/ (pc[t] \notin OwnsRef /\ ~mapped[t])
    /\ \/ ptr'[t] = o /\ pc'[t] # "get"
       \/ pc'[t] = "idle" /\ role'[t] = "user" /\ ~mapped'[t]
    /\ pc'[t] \in Freeing => /\ pc'[t] = "free"
                             /\ shm'[o].refc = 0
                             /\ ~shm'[o].release_frees
    /\ Releases(t)' => /\ shm'[o].releasing
                       /\ (Releases(t) /\ ptr[t] = o) \/ ~shm[o].releasing
    /\ Makes(t)' => Makes(t) /\ ptr[t] = o /\ shm'[o].guarded

\* The counters of o change by what t, or normal world, contributes to them.
Balanced(t, o) ==
    /\ shm'[o].refc - Ref(t, o)' - Reg(o)' = shm[o].refc - Ref(t, o) - Reg(o)
    /\ shm'[o].mapcount - Map(t, o)' >= shm[o].mapcount - Map(t, o)

\* A harmless step that balances the counters keeps the objects in order.
LEMMA WriteStep ==
    ASSUME Inv, NEW t \in Threads, NEW o \in Mobjs, NEW F, Others(t),
           Writes(o, F), Harmless(t, o), Balanced(t, o), UNCHANGED list
    PROVE  HeapStep(t)
<1>1. /\ shm' \in [Mobjs -> Mobj \cup {NULL}]
      /\ list' \in Seq(Mobjs)
      /\ \A p \in Mobjs : Live(p)' <=> Live(p)
  BY DEF Inv, TypeOK, Writes, Live
<1>2. ListOK'
  BY <1>1 DEF Inv, ListOK
<1>3. FlagsOK'
  BY <1>1 DEF Inv, Shape, FlagsOK, Writes, Harmless, Live
<1>4. PtrOK'
  <2> SUFFICES ASSUME NEW u \in Threads
               PROVE  /\ pc'[u] \in OwnsRef \cup Freeing => Alive(u)'
                      /\ Releases(u)' => Alive(u)'
                      /\ pc'[u] = "get" => ptr'[u] \in Mobjs
    BY DEF PtrOK
  <2>1. CASE u # t
    BY <1>1, <2>1 DEF Others, Inv, Shape, PtrOK, Alive, Releases
  <2>2. CASE u = t
    <3>1. CASE ptr'[t] = o /\ pc'[t] # "get"
      BY <2>2, <3>1 DEF Alive, Writes
    <3>2. CASE pc'[t] = "idle" /\ role'[t] = "user"
      BY <2>2, <3>2 DEF OwnsRef, Freeing, Releases
    <3> QED
      BY <3>1, <3>2 DEF Harmless
  <2> QED
    BY <2>1, <2>2
<1>5. FreeOK'
  <2>1. pc'[t] \in Freeing => ptr'[t] = o
    BY DEF Harmless, Freeing
  <2>2. \A u \in Threads \ {t} : pc'[u] \in Freeing =>
          /\ pc[u] \in Freeing
          /\ ptr'[u] = ptr[u]
          /\ ptr[u] # o
          /\ shm'[ptr[u]] = shm[ptr[u]]
    BY DEF Others, Harmless, Writes, Inv, Shape, PtrOK, Alive
  <2> QED
    BY <2>1, <2>2 DEF FreeOK, Harmless, Inv, Shape, Others
<1>6. ReleaseOK'
  <2>1. Releases(t)' => ptr'[t] = o
    BY DEF Harmless, Releases
  <2>2. \A u \in Threads \ {t} : Releases(u)' =>
          /\ Releases(u)
          /\ ptr'[u] = ptr[u]
          /\ ptr[u] \in Mobjs
          /\ shm[ptr[u]].releasing
          /\ shm'[ptr[u]].releasing
    <3> SUFFICES ASSUME NEW u \in Threads \ {t}, Releases(u)'
                 PROVE  /\ Releases(u)
                        /\ ptr'[u] = ptr[u]
                        /\ ptr[u] \in Mobjs
                        /\ shm[ptr[u]].releasing
                        /\ shm'[ptr[u]].releasing
      BY Zenon
    <3>1. Releases(u) /\ ptr'[u] = ptr[u]
      BY DEF Others, Releases
    <3>2. ptr[u] \in Mobjs /\ shm[ptr[u]].releasing
      BY <3>1 DEF Inv, Shape, ReleaseOK, PtrOK, Alive
    <3>3. shm'[ptr[u]].releasing
      BY <3>2, Zenon DEF Writes, Harmless
    <3> QED
      BY <3>1, <3>2, <3>3
  <2> QED
    BY <2>1, <2>2 DEF ReleaseOK, Harmless, Inv, Shape
<1>7. MakeOK'
  <2>1. Makes(t)' => ptr'[t] = o /\ Makes(t) /\ ptr[t] = o /\ shm'[o].guarded
    BY DEF Harmless, Makes
  <2>2. \A u \in Threads \ {t} : Makes(u)' =>
          /\ Makes(u)
          /\ ptr'[u] = ptr[u]
          /\ shm'[ptr[u]].guarded
    <3> SUFFICES ASSUME NEW u \in Threads \ {t}, Makes(u)'
                 PROVE  /\ Makes(u)
                        /\ ptr'[u] = ptr[u]
                        /\ shm'[ptr[u]].guarded
      BY Zenon
    <3>1. Makes(u) /\ ptr'[u] = ptr[u]
      BY DEF Others, Makes
    <3>2. ptr[u] \in Mobjs /\ shm[ptr[u]].guarded
      BY <3>1 DEF Inv, Shape, MakeOK, Makes, RoleOK, PtrOK, Alive, OwnsRef,
         Freeing
    <3>3. CASE ptr[u] # o
      BY <3>1, <3>2, <3>3 DEF Writes
    <3>4. CASE ptr[u] = o
      BY <3>1, <3>2, <3>4 DEF Harmless, Inv, Shape, MakeOK
    <3> QED
      BY <3>1, <3>3, <3>4
  <2> QED
    BY <2>1, <2>2 DEF MakeOK, Inv, Shape
<1>8. RefCountExact'
  <2> SUFFICES ASSUME NEW p \in Mobjs, Live(p)'
               PROVE  shm'[p].refc = Cardinality(Owners(p))' + Reg(p)'
    BY DEF RefCountExact, Reg
  <2>1. /\ shm[p].refc = Cardinality(Owners(p)) + Reg(p)
        /\ shm[p].refc \in Nat
    BY <1>1 DEF Inv, Counts, RefCountExact, Reg, TypeOK, Live, Mobj
  <2>2. /\ Cardinality(Owners(p)) \in Nat
        /\ Cardinality(Owners(p))' =
             Cardinality(Owners(p)) + Ref(t, p)' - Ref(t, p)
    BY CountersMove
  <2>3. CASE p = o
    BY <2>1, <2>2, <2>3 DEF Balanced, Ref, Reg, Writes, Mobj
  <2>4. CASE p # o
    <3>1. Ref(t, p) = 0 /\ Ref(t, p)' = 0
      BY <2>4 DEF Ref, Harmless, OwnsRef
    <3>2. shm'[p] = shm[p] /\ Reg(p)' = Reg(p)
      BY <2>4 DEF Writes, Reg, Registered
    <3> QED
      BY <2>1, <2>2, <3>1, <3>2
  <2> QED
    BY <2>3, <2>4
<1>9. MapCountOK'
  <2> SUFFICES ASSUME NEW p \in Mobjs, Live(p)'
               PROVE  shm'[p].mapcount >= Cardinality(Mappers(p))'
    BY DEF MapCountOK
  <2>1. /\ shm[p].mapcount >= Cardinality(Mappers(p))
        /\ shm[p].mapcount \in Nat /\ shm'[p].mapcount \in Nat
    BY <1>1 DEF Inv, Counts, MapCountOK, TypeOK, Live, Mobj
  <2>2. /\ Cardinality(Mappers(p)) \in Nat
        /\ Cardinality(Mappers(p))' =
             Cardinality(Mappers(p)) + Map(t, p)' - Map(t, p)
        /\ Map(t, p) \in Nat /\ Map(t, p)' \in Nat
    BY CountersMove DEF Map
  <2>3. CASE p = o
    BY <2>1, <2>2, <2>3 DEF Balanced
  <2>4. CASE p # o
    <3>1. Map(t, p) = 0 /\ Map(t, p)' = 0
      BY <2>4, Zenon DEF Map, Harmless
    <3>2. shm'[p] = shm[p]
      BY <2>4 DEF Writes
    <3> QED
      BY <2>1, <2>2, <3>1, <3>2
  <2> QED
    BY <2>3, <2>4
<1>10. \A p \in Mobjs : Live(p) /\ Live(p)' /\ shm'[p].release_frees =>
                         shm[p].release_frees \/ pc'[t] = "notify"
  BY DEF Harmless, Writes
<1> QED
  BY <1>1, <1>2, <1>3, <1>4, <1>5, <1>6, <1>7, <1>8, <1>9, <1>10
     DEF Heap, HeapStep

\* While o has references nobody is about to free it.
LEMMA NobodyFrees ==
    ASSUME Inv, NEW o \in Mobjs, shm[o].refc > 0, NEW u \in Threads,
           pc[u] \in Freeing
    PROVE  ptr[u] # o
BY DEF Inv, Shape, FreeOK

\* What is known of an object with references.
Sound(o) ==
    /\ shm[o] \in Mobj
    /\ shm[o].guarded => ~shm[o].releasing
    /\ shm[o].release_frees = FALSE
    /\ shm[o].mapcount > 0 => shm[o].mm
    /\ \A u \in Threads : pc[u] \in Freeing => ptr[u] # o

\* It holds for each of them.
LEMMA Referenced ==
    ASSUME Inv, NEW o \in Mobjs, Live(o), shm[o].refc > 0
    PROVE  Sound(o)
<1>1. shm[o] \in Mobj
  BY DEF Inv, TypeOK, Live
<1>2. shm[o].release_frees = FALSE
  BY <1>1 DEF Inv, Shape, FlagsOK, Mobj
<1> QED
  BY <1>1, <1>2, NobodyFrees DEF Sound, Inv, Shape, FlagsOK

\* mobj_reg_shm_unguard(): the reference passes to normal world.
LEMMA UnguardHeap ==
    ASSUME Inv, NEW t \in Threads, Step(t), Unguard(t)
    PROVE  HeapStep(t)
<1>1. PICK o \in Mobjs : o = ptr[t] /\ Live(o) /\ shm[o].refc > 0
  BY OwnerCounted DEF Unguard, OwnsRef, Alive
<1>2. Sound(o)
  BY <1>1, Referenced
<1>3. Writes(o, {"guarded"}) /\ shm'[o].guarded = FALSE
  <2>1. shm' = [shm EXCEPT ![o].guarded = FALSE]
    BY <1>1, Zenon DEF Unguard
  <2> QED
    BY <1>1, <2>1, WriteGuarded DEF Inv
<1>4. /\ pc[t] = "unguard" /\ pc'[t] = "idle"
      /\ role'[t] = "user" /\ ptr'[t] = NULL
      /\ mapped[t] = FALSE /\ mapped'[t] = FALSE
      /\ shm[o].guarded
  BY <1>1
     DEF Unguard, Done, Inv, TypeOK, Shape, RoleOK, Freeing, MakeOK, Makes
<1>5. /\ Ref(t, o) = 1 /\ Ref(t, o)' = 0
      /\ Map(t, o) = 0 /\ Map(t, o)' = 0
      /\ Reg(o) = 0 /\ Reg(o)' = 1
  BY <1>1, <1>2, <1>3, <1>4
     DEF Sound, Ref, Map, Reg, Registered, OwnsRef, Writes, Alike
<1>6. Balanced(t, o)
  BY <1>2, <1>3, <1>5 DEF Balanced, Sound, Writes, Alike, Mobj
<1>7. Harmless(t, o)
  BY <1>1, <1>2, <1>3, <1>4
     DEF Harmless, Sound, Writes, Alike, Mobj, Releases, Makes, Freeing
<1> QED
  BY <1>3, <1>6, <1>7, OnlyOneMoves, WriteStep DEF Inv, Unguard

\* mobj_get().
LEMMA GetHeap ==
    ASSUME Inv, NEW t \in Threads, Step(t), Get(t)
    PROVE  HeapStep(t)
<1>1. PICK o \in Mobjs : o = ptr[t] /\ Live(o) /\ shm[o].refc > 0
  BY DEF Get, Inv, Shape, PtrOK, TypeOK, Live, Mobj
<1>2. Sound(o)
  BY <1>1, Referenced
<1>3. Writes(o, {"refc"}) /\ shm'[o].refc = shm[o].refc + 1
  <2>1. PICK k \in Nat : k = shm[o].refc + 1
    BY <1>1, <1>2 DEF Sound, Mobj
  <2>2. shm' = [shm EXCEPT ![o].refc = k]
    BY <1>1, <2>1, Zenon DEF Get
  <2> QED
    BY <1>1, <2>1, <2>2, WriteRefc DEF Inv
<1>4. /\ pc[t] = "get" /\ pc'[t] = "held"
      /\ ptr'[t] = o /\ role[t] = "user" /\ role'[t] = "user"
      /\ mapped[t] = FALSE /\ mapped'[t] = FALSE
  BY <1>1 DEF Get, Goto, Done, Inv, TypeOK, Shape, RoleOK, RelPC, Freeing
<1>5. /\ Ref(t, o) = 0 /\ Ref(t, o)' = 1
      /\ Map(t, o) = 0 /\ Map(t, o)' = 0
      /\ Reg(o)' = Reg(o) /\ Reg(o) \in Nat
  BY <1>1, <1>2, <1>3, <1>4
     DEF Sound, Ref, Map, Reg, Registered, OwnsRef, Writes, Alike
<1>6. Balanced(t, o)
  BY <1>2, <1>3, <1>5 DEF Balanced, Sound, Writes, Alike, Mobj
<1>7. Harmless(t, o)
  BY <1>1, <1>2, <1>3, <1>4
     DEF Harmless, Sound, Writes, Alike, Mobj, Releases, Makes, Freeing
<1> QED
  BY <1>3, <1>6, <1>7, OnlyOneMoves, WriteStep DEF Inv, Get

\* refcount_inc() of a map counter that is not 0.
LEMMA IncMapHeap ==
    ASSUME Inv, NEW t \in Threads, Step(t), IncMap(t), shm[ptr[t]].mapcount # 0
    PROVE  HeapStep(t)
<1>1. PICK o \in Mobjs : o = ptr[t] /\ Live(o) /\ shm[o].refc > 0
  BY OwnerCounted DEF IncMap, OwnsRef, Alive
<1>2. Sound(o)
  BY <1>1, Referenced
<1>3. Writes(o, {"mapcount"}) /\ shm'[o].mapcount = shm[o].mapcount + 1
  <2>1. PICK k \in Nat : k = shm[o].mapcount + 1
    BY <1>1, <1>2 DEF Sound, Mobj
  <2>2. shm' = [shm EXCEPT ![o].mapcount = k]
    BY <1>1, <2>1, Zenon DEF IncMap
  <2> QED
    BY <1>1, <2>1, <2>2, WriteMapcount DEF Inv
<1>4. /\ pc[t] = "mapinc" /\ pc'[t] = "held"
      /\ ptr'[t] = o /\ role'[t] = role[t] /\ role[t] # "releaser"
      /\ mapped[t] = FALSE /\ mapped'[t] = TRUE
      /\ shm[o].mapcount > 0
      /\ role[t] = "mapper" => shm[o].guarded
  <2>1. shm[o].mapcount > 0
    BY <1>1, <1>2 DEF Sound, Mobj
  <2>2. role[t] = "mapper" => shm[o].guarded
    BY <1>1 DEF Inv, Shape, MakeOK, Makes
  <2>3. /\ pc[t] = "mapinc" /\ Goto(t, "held")
        /\ mapped' = [mapped EXCEPT ![t] = TRUE]
        /\ UNCHANGED <<ptr, role>>
    BY Zenon DEF IncMap
  <2> QED
    BY <1>1, <2>1, <2>2, <2>3
       DEF Goto, Inv, TypeOK, Shape, RoleOK, RelPC, Freeing
<1>5. /\ Ref(t, o) = 1 /\ Ref(t, o)' = 1
      /\ Map(t, o) = 0 /\ Map(t, o)' = 1
      /\ Reg(o)' = Reg(o) /\ Reg(o) \in Nat
  BY <1>1, <1>2, <1>3, <1>4
     DEF Sound, Ref, Map, Reg, Registered, OwnsRef, Writes, Alike
<1>6. Balanced(t, o)
  BY <1>2, <1>3, <1>5 DEF Balanced, Sound, Writes, Alike, Mobj
<1>7. Harmless(t, o)
  BY <1>1, <1>2, <1>3, <1>4
     DEF Harmless, Sound, Writes, Alike, Mobj, Releases, Makes, Freeing
<1> QED
  BY <1>3, <1>6, <1>7, OnlyOneMoves, WriteStep DEF Inv, IncMap

\* The section of mobj_reg_shm_inc_map() that maps.
LEMMA MapSectionHeap ==
    ASSUME Inv, NEW t \in Threads, Step(t), MapSection(t),
           shm[ptr[t]].mapcount = 0
    PROVE  HeapStep(t)
<1>1. PICK o \in Mobjs : o = ptr[t] /\ Live(o) /\ shm[o].refc > 0
  BY OwnerCounted DEF MapSection, OwnsRef, Alive
<1>2. Sound(o)
  BY <1>1, Referenced
<1>3. /\ Writes(o, {"mapcount", "mm"})
      /\ shm'[o].mapcount = 1 /\ shm'[o].mm = TRUE
  <2>2. shm' = [shm EXCEPT ![o] = [@ EXCEPT !.mapcount = 1, !.mm = TRUE]]
    BY <1>1, Zenon DEF MapSection
  <2> QED
    BY <1>1, <2>2, WriteMap DEF Inv
<1>4. /\ pc[t] = "maplock" /\ pc'[t] = "held"
      /\ ptr'[t] = o /\ role'[t] = role[t] /\ role[t] # "releaser"
      /\ mapped[t] = FALSE /\ mapped'[t] = TRUE
      /\ role[t] = "mapper" => shm[o].guarded
      /\ shm[o].mapcount = 0
  BY <1>1, <1>2 DEF MapSection, Sound, Goto, Inv, TypeOK, Shape, RoleOK, RelPC,
     Freeing, Mobj, MakeOK, Makes
<1>5. /\ Ref(t, o) = 1 /\ Ref(t, o)' = 1
      /\ Map(t, o) = 0 /\ Map(t, o)' = 1
      /\ Reg(o)' = Reg(o) /\ Reg(o) \in Nat
  BY <1>1, <1>2, <1>3, <1>4
     DEF Sound, Ref, Map, Reg, Registered, OwnsRef, Writes, Alike
<1>6. Balanced(t, o)
  BY <1>2, <1>3, <1>4, <1>5 DEF Balanced, Sound, Writes, Alike, Mobj
<1>7. Harmless(t, o)
  BY <1>1, <1>2, <1>3, <1>4
     DEF Harmless, Sound, Writes, Alike, Mobj, Releases, Makes, Freeing
<1> QED
  BY <1>3, <1>6, <1>7, OnlyOneMoves, WriteStep DEF Inv, MapSection

\* The section of mobj_reg_shm_dec_map() that unmaps.
LEMMA UnmapSectionHeap ==
    ASSUME Inv, NEW t \in Threads, Step(t), UnmapSection(t),
           shm[ptr[t]].mapcount = 0
    PROVE  HeapStep(t)
<1>1. PICK o \in Mobjs : o = ptr[t] /\ Live(o) /\ shm[o].refc > 0
  BY OwnerCounted DEF UnmapSection, OwnsRef, Alive
<1>2. Sound(o)
  BY <1>1, Referenced
<1>3. Writes(o, {"mm"}) /\ shm'[o].mm = FALSE
  <2>2. shm' = [shm EXCEPT ![o].mm = FALSE]
    BY <1>1, Zenon DEF UnmapSection
  <2> QED
    BY <1>1, <2>2, WriteMm DEF Inv
<1>4. /\ pc[t] = "unmap" /\ pc'[t] = "held"
      /\ ptr'[t] = o /\ role[t] = "user" /\ role'[t] = "user"
      /\ mapped[t] = FALSE /\ mapped'[t] = FALSE
      /\ shm[o].mapcount = 0
  BY <1>1 DEF UnmapSection, Goto, Inv, TypeOK, Shape, RoleOK, RelPC, Freeing
<1>5. /\ Ref(t, o) = 1 /\ Ref(t, o)' = 1
      /\ Map(t, o) = 0 /\ Map(t, o)' = 0
      /\ Reg(o)' = Reg(o) /\ Reg(o) \in Nat
  BY <1>1, <1>2, <1>3, <1>4
     DEF Sound, Ref, Map, Reg, Registered, OwnsRef, Writes, Alike
<1>6. Balanced(t, o)
  BY <1>2, <1>3, <1>5 DEF Balanced, Sound, Writes, Alike, Mobj
<1>7. Harmless(t, o)
  BY <1>1, <1>2, <1>3, <1>4
     DEF Harmless, Sound, Writes, Alike, Mobj, Releases, Makes, Freeing
<1> QED
  BY <1>3, <1>6, <1>7, OnlyOneMoves, WriteStep DEF Inv, UnmapSection

\* refcount_dec() of the map counter.
LEMMA DecMapHeap ==
    ASSUME Inv, NEW t \in Threads, Step(t), DecMap(t)
    PROVE  HeapStep(t)
<1>1. PICK o \in Mobjs : o = ptr[t] /\ Live(o) /\ shm[o].refc > 0
  BY OwnerCounted DEF DecMap, OwnsRef, Alive
<1>2. Sound(o)
  BY <1>1, Referenced
<1>3. Writes(o, {"mapcount"}) /\ shm'[o].mapcount = shm[o].mapcount - 1
  <2>1. PICK k \in Nat : k = shm[o].mapcount - 1
    BY <1>1, <1>2, OwnerCounted DEF Sound, Mobj, DecMap
  <2>2. shm' = [shm EXCEPT ![o].mapcount = k]
    BY <1>1, <2>1, Zenon DEF DecMap
  <2> QED
    BY <1>1, <2>1, <2>2, WriteMapcount DEF Inv
<1>4. /\ pc[t] = "held" /\ pc'[t] \in {"unmap", "held"}
      /\ ptr'[t] = o /\ role[t] = "user" /\ role'[t] = "user"
      /\ mapped[t] = TRUE /\ mapped'[t] = FALSE
      /\ shm[o].mapcount \in Nat
  BY <1>1, <1>2 DEF DecMap, Sound, Goto, Inv, TypeOK, Shape, RoleOK, RelPC,
     Freeing, Mobj
<1>5. /\ Ref(t, o) = 1 /\ Ref(t, o)' = 1
      /\ Map(t, o) = 1 /\ Map(t, o)' = 0
      /\ Reg(o)' = Reg(o) /\ Reg(o) \in Nat
  BY <1>1, <1>2, <1>3, <1>4
     DEF Sound, Ref, Map, Reg, Registered, OwnsRef, Writes, Alike
<1>6. Balanced(t, o)
  BY <1>2, <1>3, <1>5 DEF Balanced, Sound, Writes, Alike, Mobj
<1>7. Harmless(t, o)
  <2>1. /\ shm'[o].mapcount > 0 => shm'[o].mm
        /\ shm'[o].release_frees = FALSE
        /\ shm'[o].guarded = shm[o].guarded
        /\ shm'[o].releasing = shm[o].releasing
    BY <1>2, <1>3, <1>4 DEF Sound, Writes, Alike, Mobj
  <2> QED
    BY <1>1, <1>2, <1>4, <2>1
       DEF Harmless, Sound, Releases, Makes, Freeing
<1> QED
  BY <1>3, <1>6, <1>7, OnlyOneMoves, WriteStep DEF Inv, DecMap

\* mobj_put() by the owner of a reference.
LEMMA PutHeap ==
    ASSUME Inv, NEW t \in Threads, Step(t), Put(t)
    PROVE  HeapStep(t)
<1>1. PICK o \in Mobjs : o = ptr[t] /\ Live(o) /\ shm[o].refc > 0
  BY OwnerCounted DEF Put, OwnsRef, Alive
<1>2. Sound(o)
  BY <1>1, Referenced
<1>3. Writes(o, {"refc"}) /\ shm'[o].refc = shm[o].refc - 1
  <2>1. PICK k \in Nat : k = shm[o].refc - 1
    BY <1>1, <1>2 DEF Sound, Mobj
  <2>2. shm' = [shm EXCEPT ![o].refc = k]
    BY <1>1, <2>1, Zenon DEF Put
  <2> QED
    BY <1>1, <2>1, <2>2, WriteRefc DEF Inv
<1>4. /\ pc[t] = "held" /\ role[t] # "releaser"
      /\ \/ /\ pc'[t] = "free" /\ shm[o].refc = 1 /\ ptr'[t] = o
            /\ mapped'[t] = mapped[t] /\ role'[t] = role[t]
         \/ pc'[t] = "idle" /\ mapped'[t] = FALSE /\ role'[t] = "user"
      /\ role[t] = "mapper" => shm[o].guarded
  BY <1>1 DEF Put, Goto, Done, Inv, TypeOK, Shape, RoleOK, RelPC, Freeing,
     MakeOK, Makes
<1>5. /\ Ref(t, o) = 1 /\ Ref(t, o)' = 0
      /\ Map(t, o) \in Nat /\ Map(t, o)' \in Nat /\ Map(t, o)' <= Map(t, o)
      /\ Reg(o)' = Reg(o) /\ Reg(o) \in Nat
  BY <1>1, <1>2, <1>3, <1>4
     DEF Sound, Ref, Map, Reg, Registered, OwnsRef, Writes, Alike
<1>6. Balanced(t, o)
  BY <1>2, <1>3, <1>5 DEF Balanced, Sound, Writes, Alike, Mobj
<1>7. Harmless(t, o)
  <2>1. /\ shm'[o].mapcount > 0 => shm'[o].mm
        /\ shm'[o].release_frees = FALSE
        /\ shm'[o].guarded = shm[o].guarded
        /\ shm'[o].releasing = shm[o].releasing
    BY <1>2, <1>3 DEF Sound, Writes, Alike, Mobj
  <2>2. pc'[t] = "free" => shm'[o].refc = 0
    BY <1>3, <1>4
  <2> QED
    BY <1>1, <1>2, <1>4, <2>1, <2>2
       DEF Harmless, Sound, Releases, Makes, Freeing
<1> QED
  BY <1>3, <1>6, <1>7, OnlyOneMoves, WriteStep DEF Inv, Put

\* The mobj_put() of mobj_reg_shm_release_by_cookie().
LEMMA ReleasePutHeap ==
    ASSUME Inv, NEW t \in Threads, Step(t), ReleasePut(t)
    PROVE  HeapStep(t)
<1>1. PICK o \in Mobjs : o = ptr[t] /\ Live(o) /\ shm[o].refc > 0
  BY OwnerCounted DEF ReleasePut, OwnsRef, Alive
<1>2. Sound(o)
  BY <1>1, Referenced
<1>3. Writes(o, {"refc"}) /\ shm'[o].refc = shm[o].refc - 1
  <2>1. PICK k \in Nat : k = shm[o].refc - 1
    BY <1>1, <1>2 DEF Sound, Mobj
  <2>2. shm' = [shm EXCEPT ![o].refc = k]
    BY <1>1, <2>1, Zenon DEF ReleasePut
  <2> QED
    BY <1>1, <2>1, <2>2, WriteRefc DEF Inv
<1>4. /\ pc[t] = "relput" /\ role[t] = "releaser"
      /\ (pc'[t] = "free" /\ shm[o].refc = 1) \/ pc'[t] = "rel"
      /\ ptr'[t] = o /\ role'[t] = "releaser"
      /\ mapped[t] = FALSE /\ mapped'[t] = FALSE
      /\ shm[o].releasing
  BY <1>1 DEF ReleasePut, Goto, Inv, TypeOK, Shape, RoleOK, RelPC, Freeing,
     ReleaseOK, Releases
<1>5. /\ Ref(t, o) = 1 /\ Ref(t, o)' = 0
      /\ Map(t, o) = 0 /\ Map(t, o)' = 0
      /\ Reg(o)' = Reg(o) /\ Reg(o) \in Nat
  BY <1>1, <1>2, <1>3, <1>4
     DEF Sound, Ref, Map, Reg, Registered, OwnsRef, Writes, Alike
<1>6. Balanced(t, o)
  BY <1>2, <1>3, <1>5 DEF Balanced, Sound, Writes, Alike, Mobj
<1>7. Harmless(t, o)
  <2>1. /\ shm'[o].mapcount > 0 => shm'[o].mm
        /\ shm'[o].release_frees = FALSE
        /\ shm'[o].guarded = shm[o].guarded
        /\ shm'[o].releasing = shm[o].releasing
    BY <1>2, <1>3 DEF Sound, Writes, Alike, Mobj
  <2>2. pc'[t] = "free" => shm'[o].refc = 0
    BY <1>3, <1>4
  <2> QED
    BY <1>1, <1>2, <1>4, <2>1, <2>2
       DEF Harmless, Sound, Releases, Makes, Freeing
<1> QED
  BY <1>3, <1>6, <1>7, OnlyOneMoves, WriteStep DEF Inv, ReleasePut

\* mobj_reg_shm_free() of a registered object.
LEMMA SetReleaseFreesHeap ==
    ASSUME Inv, NEW t \in Threads, Step(t), SetReleaseFrees(t)
    PROVE  HeapStep(t)
<1>1. PICK o \in Mobjs : o = ptr[t] /\ Live(o) /\ shm[o] \in Mobj
  BY DEF SetReleaseFrees, Inv, Shape, PtrOK, Alive, Freeing, TypeOK, Live
<1>2. Writes(o, {"release_frees"}) /\ shm'[o].release_frees = TRUE
  <2>1. shm' = [shm EXCEPT ![o].release_frees = TRUE]
    BY <1>1, Zenon DEF SetReleaseFrees
  <2> QED
    BY <1>1, <2>1, WriteReleaseFrees DEF Inv
<1>3. /\ pc[t] = "frees" /\ pc'[t] = "notify" /\ ptr'[t] = o
      /\ role'[t] = role[t] /\ role[t] # "mapper"
      /\ mapped[t] = FALSE /\ mapped'[t] = FALSE
  BY <1>1 DEF SetReleaseFrees, Goto, Inv, TypeOK, Shape, RoleOK, Freeing
<1>4. /\ shm[o].refc = 0
      /\ shm[o].releasing = TRUE
      /\ shm[o].guarded = FALSE
      /\ shm[o].mapcount > 0 => shm[o].mm
      /\ \A u \in Threads \ {t} : pc[u] \in Freeing => ptr[u] # o
  BY <1>1, <1>3 DEF Inv, Shape, FreeOK, FlagsOK, Freeing, Mobj
<1>5. /\ Ref(t, o) = 0 /\ Ref(t, o)' = 0
      /\ Map(t, o) = 0 /\ Map(t, o)' = 0
      /\ Reg(o) = 0 /\ Reg(o)' = 0
  BY <1>2, <1>3, <1>4
     DEF Ref, Map, Reg, Registered, OwnsRef, Writes, Alike
<1>6. Balanced(t, o)
  BY <1>1, <1>2, <1>5 DEF Balanced, Writes, Alike, Mobj
<1>7. Harmless(t, o)
  BY <1>1, <1>2, <1>3, <1>4
     DEF Harmless, Writes, Alike, Mobj, Releases, Makes, Freeing
<1> QED
  BY <1>2, <1>6, <1>7, OnlyOneMoves, WriteStep DEF Inv, SetReleaseFrees

\* mobj_reg_shm_release_by_cookie() takes normal world's reference.
LEMMA ReleaseStartHeap ==
    ASSUME Inv, NEW t \in Threads, Step(t), NEW c \in Cookies,
           ReleaseStart(t, c)
    PROVE  HeapStep(t)
<1>1. PICK o \in Mobjs :
         /\ Found(o, c)
         /\ ~shm[o].guarded
         /\ ~shm[o].releasing
         /\ shm' = [shm EXCEPT ![o].releasing = TRUE]
         /\ ptr' = [ptr EXCEPT ![t] = o]
  BY Zenon DEF ReleaseStart
<1>2. Live(o) /\ shm[o].refc > 0
  <2>1. Live(o) /\ shm[o] \in Mobj
    BY <1>1 DEF Found, Inv, ListOK, Range, TypeOK, Live
  <2>2. Cardinality(Owners(o)) \in Nat
    BY OnlyOneMoves, CountersMove DEF Inv
  <2> QED
    BY <1>1, <2>1, <2>2 DEF Inv, Counts, RefCountExact, Registered
<1>3. Sound(o)
  BY <1>2, Referenced
<1>4. Writes(o, {"releasing"}) /\ shm'[o].releasing = TRUE
  BY <1>1, <1>2, WriteReleasing DEF Inv
<1>5. /\ pc[t] = "idle" /\ pc'[t] = "relput" /\ ptr'[t] = o
      /\ role'[t] = "releaser"
      /\ mapped[t] = FALSE /\ mapped'[t] = FALSE
  BY <1>1 DEF ReleaseStart, Goto, Inv, TypeOK, Shape, RoleOK, Freeing
<1>6. /\ Ref(t, o) = 0 /\ Ref(t, o)' = 1
      /\ Map(t, o) = 0 /\ Map(t, o)' = 0
      /\ Reg(o) = 1 /\ Reg(o)' = 0
  BY <1>1, <1>4, <1>5
     DEF Ref, Map, Reg, Registered, OwnsRef, Writes, Alike
<1>7. Balanced(t, o)
  BY <1>3, <1>4, <1>6 DEF Balanced, Sound, Writes, Alike, Mobj
<1>8. Harmless(t, o)
  <2>1. /\ shm'[o].mapcount > 0 => shm'[o].mm
        /\ shm'[o].release_frees = FALSE
        /\ shm'[o].guarded = shm[o].guarded
    BY <1>3, <1>4 DEF Sound, Writes, Alike, Mobj
  <2> QED
    BY <1>1, <1>3, <1>4, <1>5, <2>1
       DEF Harmless, Sound, OwnsRef, Releases, Makes, Freeing
<1> QED
  BY <1>4, <1>7, <1>8, OnlyOneMoves, WriteStep DEF Inv, ReleaseStart
-----------------------------------------------------------------------------
(* Steps that allocate or free an object.                                  *)

\* A thread with a mapping, or one that allocated its object, owns a
\* reference or is about to free the object.
LEMMA Holds ==
    ASSUME Inv, NEW u \in Threads, Makes(u) \/ mapped[u]
    PROVE  pc[u] \in OwnsRef \cup Freeing
BY DEF Inv, Shape, RoleOK, Makes, OwnsRef, Freeing

\* u has a hold on o that reg_shm_free_helper() must not break.
Holding(u, o) ==
    /\ ptr[u] = o
    /\ pc[u] \in OwnsRef \cup Freeing \/ Releases(u)

\* mobj_reg_shm_alloc().
LEMMA AllocHeap ==
    ASSUME Inv, NEW t \in Threads, NEW o \in Mobjs, NEW c \in Cookies,
           Others(t), Alloc(o, c), pc[t] = "idle", ptr'[t] = o,
           pc'[t] \in {"unguard", "held", "mapinc"},
           role'[t] \in {"user", "mapper"}, mapped'[t] = FALSE
    PROVE  HeapStep(t)
<1>1. PICK n \in Mobj : /\ shm' = [shm EXCEPT ![o] = n]
                        /\ n.refc = 1 /\ n.mapcount = 0 /\ n.guarded
                        /\ ~n.releasing /\ ~n.release_frees
  <2> DEFINE n == [cookie |-> c, refc |-> 1, mapcount |-> 0, mm |-> FALSE,
                   guarded |-> TRUE, releasing |-> FALSE,
                   release_frees |-> FALSE]
  <2>1. n \in Mobj
    BY DEF Mobj
  <2>2. /\ n.refc = 1 /\ n.mapcount = 0 /\ n.guarded
        /\ ~n.releasing /\ ~n.release_frees
    OBVIOUS
  <2>3. shm' = [shm EXCEPT ![o] = n]
    BY Zenon DEF Alloc
  <2> HIDE DEF n
  <2> QED
    BY <2>1, <2>2, <2>3, Zenon
<1>2. /\ shm' \in [Mobjs -> Mobj \cup {NULL}]
      /\ ~Live(o) /\ Live(o)' /\ shm'[o] = n
      /\ \A p \in Mobjs \ {o} : shm'[p] = shm[p] /\ (Live(p)' <=> Live(p))
  <2>1. shm \in [Mobjs -> Mobj \cup {NULL}] /\ n # NULL
    BY NullFresh DEF Inv, TypeOK
  <2>2. /\ shm' \in [Mobjs -> Mobj \cup {NULL}]
        /\ shm'[o] = n
        /\ \A p \in Mobjs \ {o} : shm'[p] = shm[p]
    BY <1>1, <2>1, Zenon
  <2> QED
    BY <2>1, <2>2, Zenon DEF Live, Alloc
<1>3. \A u \in Threads : /\ ~Holding(u, o)
                         /\ Makes(u) \/ mapped[u] => ptr[u] # o
  BY <1>2, Holds DEF Holding, Inv, Shape, PtrOK, Alive
<1>4. list' \in Seq(Mobjs) /\ ListOK'
  <2>1. list \in Seq(Mobjs) /\ o \notin Range(list) /\ NoDuplicates(list)
        /\ Range(list) = {p \in Mobjs : Live(p)}
    BY <1>2 DEF Inv, TypeOK, ListOK
  <2>2. list' \in Seq(Mobjs) /\ NoDuplicates(list')
        /\ Range(list') = Range(list) \cup {o}
    BY <2>1, PrependElement DEF Alloc
  <2>3. \A p \in Mobjs : Live(p)' <=> Live(p) \/ p = o
    BY <1>2
  <2> QED
    BY <2>1, <2>2, <2>3 DEF ListOK
<1>5. FlagsOK'
  <2> SUFFICES ASSUME NEW p \in Mobjs, Live(p)'
               PROVE  /\ shm'[p].guarded => ~shm'[p].releasing
                      /\ shm'[p].release_frees =>
                           shm'[p].releasing /\ shm'[p].refc = 0
                      /\ shm'[p].mapcount > 0 => shm'[p].mm
    BY DEF FlagsOK
  <2>1. CASE p = o
    BY <1>1, <1>2, <2>1
  <2>2. CASE p # o
    BY <1>2, <2>2 DEF Inv, Shape, FlagsOK
  <2> QED
    BY <2>1, <2>2
<1>6. \A u \in Threads \ {t} :
        /\ pc'[u] = pc[u] /\ ptr'[u] = ptr[u]
        /\ Releases(u)' <=> Releases(u)
        /\ Makes(u)' <=> Makes(u)
  BY DEF Others, Releases, Makes
<1>7. pc'[t] \notin Freeing /\ ~Releases(t)' /\ pc'[t] # "get"
  BY DEF Freeing, Releases
<1>8. PtrOK'
  <2>1. Alive(t)'
    BY <1>2 DEF Alive
  <2>2. ASSUME NEW u \in Threads \ {t}
        PROVE  /\ pc'[u] \in OwnsRef \cup Freeing \/ Releases(u)' => Alive(u)'
               /\ pc'[u] = "get" => ptr'[u] \in Mobjs
    BY <1>2, <1>6 DEF Inv, Shape, PtrOK, Alive
  <2> QED
    BY <1>7, <2>1, <2>2 DEF PtrOK
<1>9. FreeOK'
  <2>1. \A u \in Threads \ {t} : pc'[u] \in Freeing =>
          pc[u] \in Freeing /\ shm'[ptr[u]] = shm[ptr[u]]
    BY <1>2, <1>3, <1>6 DEF Holding, Inv, Shape, PtrOK, Alive
  <2> QED
    BY <1>6, <1>7, <2>1 DEF FreeOK, Inv, Shape
<1>10. ReleaseOK'
  <2>1. \A u \in Threads \ {t} : Releases(u)' =>
          Releases(u) /\ shm'[ptr[u]] = shm[ptr[u]]
    BY <1>2, <1>3, <1>6 DEF Holding, Inv, Shape, PtrOK, Alive
  <2> QED
    BY <1>6, <1>7, <2>1 DEF ReleaseOK, Inv, Shape
<1>11. MakeOK'
  <2>1. \A u \in Threads \ {t} : Makes(u)' =>
          Makes(u) /\ ptr[u] # o /\ shm'[ptr[u]] = shm[ptr[u]]
    BY <1>2, <1>3, <1>6, Holds DEF Inv, Shape, PtrOK, Alive
  <2>2. shm'[ptr'[t]].guarded
    BY <1>1, <1>2
  <2> QED
    BY <1>6, <2>1, <2>2 DEF MakeOK, Inv, Shape
<1>12. Cardinality(Owners(o)) = 0 /\ Cardinality(Mappers(o)) = 0
  <2>1. Owners(o) = {} /\ Mappers(o) = {}
    BY <1>3 DEF Owners, Mappers, Holding
  <2> QED
    BY <2>1, FS_EmptySet
<1>13. RefCountExact'
  <2> SUFFICES ASSUME NEW p \in Mobjs, Live(p)'
               PROVE  shm'[p].refc = Cardinality(Owners(p))' + Reg(p)'
    BY DEF RefCountExact, Reg
  <2>1. CASE p = o
    <3>1. Ref(t, o) = 0 /\ Ref(t, o)' = 1 /\ Reg(o)' = 0
      BY <1>1, <1>2 DEF Ref, OwnsRef, Reg, Registered
    <3> QED
      BY <1>1, <1>2, <1>12, <2>1, <3>1, CountersMove
  <2>2. CASE p # o
    <3>1. Ref(t, p) = 0 /\ Ref(t, p)' = 0 /\ Reg(p)' = Reg(p)
      BY <1>2, <2>2 DEF Ref, OwnsRef, Reg, Registered
    <3> QED
      BY <1>2, <2>2, <3>1, CountersMove
         DEF Inv, Counts, RefCountExact, Reg
  <2> QED
    BY <2>1, <2>2
<1>14. MapCountOK'
  <2> SUFFICES ASSUME NEW p \in Mobjs, Live(p)'
               PROVE  shm'[p].mapcount >= Cardinality(Mappers(p))'
    BY DEF MapCountOK
  <2>1. Map(t, p)' = 0 /\ Map(t, p) \in {0, 1}
    BY Zenon DEF Map
  <2>2. /\ Cardinality(Mappers(p)) \in Nat
        /\ Cardinality(Mappers(p))' = Cardinality(Mappers(p)) - Map(t, p)
    BY <2>1, CountersMove
  <2>3. CASE p = o
    BY <1>1, <1>2, <1>12, <2>1, <2>2, <2>3
  <2>4. CASE p # o
    <3>1. /\ shm'[p].mapcount \in Nat
          /\ shm'[p].mapcount >= Cardinality(Mappers(p))
      BY <1>2, <2>4 DEF Inv, Counts, MapCountOK, Mobj, Live
    <3> QED
      BY <2>1, <2>2, <3>1
  <2> QED
    BY <2>3, <2>4
<1> QED
  BY <1>2, <1>4, <1>5, <1>8, <1>9, <1>10, <1>11, <1>13, <1>14
     DEF Heap, HeapStep

\* reg_shm_free_helper(), if nobody else has a hold on the object.
LEMMA FreeHeap ==
    ASSUME Inv, NEW t \in Threads, NEW o \in Mobjs, Live(o), FreeHelper(o),
           Others(t), \A u \in Threads \ {t} : ~Holding(u, o),
           pc[t] \notin OwnsRef, pc'[t] \in {"idle", "relend"},
           ~Releases(t)', ~Makes(t)', mapped'[t] = FALSE
    PROVE  HeapStep(t)
<1>1. /\ shm' \in [Mobjs -> Mobj \cup {NULL}]
      /\ ~Live(o)'
      /\ \A p \in Mobjs \ {o} : shm'[p] = shm[p] /\ (Live(p)' <=> Live(p))
  <2>1. shm \in [Mobjs -> Mobj \cup {NULL}]
    BY DEF Inv, TypeOK
  <2>2. /\ shm' \in [Mobjs -> Mobj \cup {NULL}]
        /\ shm'[o] = NULL
        /\ \A p \in Mobjs \ {o} : shm'[p] = shm[p]
    BY <2>1, Zenon DEF FreeHelper
  <2> QED
    BY <2>2, Zenon DEF Live
<1>2. list' \in Seq(Mobjs) /\ ListOK'
  <2>1. /\ list \in Seq(Mobjs) /\ NoDuplicates(list)
        /\ Range(list) = {p \in Mobjs : Live(p)}
    BY DEF Inv, TypeOK, ListOK
  <2>2. PICK i \in DOMAIN list : list[i] = o /\ list' = RemoveAt(list, i)
    BY DEF FreeHelper
  <2>3. list' \in Seq(Mobjs) /\ NoDuplicates(list')
        /\ Range(list') = Range(list) \ {o}
    BY <2>1, <2>2, RemoveElement
  <2>4. \A p \in Mobjs : Live(p)' <=> Live(p) /\ p # o
    BY <1>1
  <2> QED
    BY <2>1, <2>3, <2>4 DEF ListOK
<1>3. \A u \in Threads \ {t} :
        /\ pc'[u] = pc[u] /\ ptr'[u] = ptr[u]
        /\ Releases(u)' <=> Releases(u)
        /\ Makes(u)' <=> Makes(u)
  BY DEF Others, Releases, Makes
<1>4. pc'[t] \notin OwnsRef \cup Freeing /\ pc'[t] # "get"
  BY DEF OwnsRef, Freeing
<1>5. \A u \in Threads \ {t} :
        pc[u] \in OwnsRef \cup Freeing \/ Releases(u) \/ Makes(u) =>
          ptr[u] \in Mobjs \ {o} /\ shm'[ptr[u]] = shm[ptr[u]]
  BY <1>1, Holds DEF Holding, Inv, Shape, PtrOK, Alive
<1>6. PtrOK'
  <2>1. ASSUME NEW u \in Threads \ {t}
        PROVE  /\ pc'[u] \in OwnsRef \cup Freeing \/ Releases(u)' => Alive(u)'
               /\ pc'[u] = "get" => ptr'[u] \in Mobjs
    BY <1>1, <1>3, <1>5 DEF Inv, Shape, PtrOK, Alive
  <2> QED
    BY <1>4, <2>1 DEF PtrOK
<1>7. FlagsOK'
  BY <1>1 DEF Inv, Shape, FlagsOK
<1>8. FreeOK'
  BY <1>3, <1>4, <1>5 DEF FreeOK, Inv, Shape
<1>9. ReleaseOK'
  BY <1>3, <1>5 DEF ReleaseOK, Inv, Shape
<1>10. MakeOK'
  BY <1>3, <1>5 DEF MakeOK, Inv, Shape
<1>11. RefCountExact'
  <2> SUFFICES ASSUME NEW p \in Mobjs, Live(p)'
               PROVE  shm'[p].refc = Cardinality(Owners(p))' + Reg(p)'
    BY DEF RefCountExact, Reg
  <2>1. p # o
    BY <1>1
  <2>2. Ref(t, p) = 0 /\ Ref(t, p)' = 0 /\ Reg(p)' = Reg(p)
    BY <1>1, <1>4, <2>1 DEF Ref, Reg, Registered
  <2> QED
    BY <1>1, <2>1, <2>2, CountersMove DEF Inv, Counts, RefCountExact, Reg
<1>12. MapCountOK'
  <2> SUFFICES ASSUME NEW p \in Mobjs, Live(p)'
               PROVE  shm'[p].mapcount >= Cardinality(Mappers(p))'
    BY DEF MapCountOK
  <2>1. Map(t, p)' = 0 /\ Map(t, p) \in {0, 1}
    BY Zenon DEF Map
  <2>2. /\ Cardinality(Mappers(p)) \in Nat
        /\ Cardinality(Mappers(p))' = Cardinality(Mappers(p)) - Map(t, p)
    BY <2>1, CountersMove
  <2>3. /\ shm'[p].mapcount \in Nat
        /\ shm'[p].mapcount >= Cardinality(Mappers(p))
    BY <1>1 DEF Inv, Counts, MapCountOK, Mobj, Live
  <2> QED
    BY <2>1, <2>2, <2>3
<1> QED
  BY <1>1, <1>2, <1>6, <1>7, <1>8, <1>9, <1>10, <1>11, <1>12
     DEF Heap, HeapStep

\* mobj_reg_shm_free() of a guarded object.
LEMMA FreeGuardedHeap ==
    ASSUME Inv, NEW t \in Threads, Step(t), FreeGuarded(t)
    PROVE  HeapStep(t)
<1>1. PICK o \in Mobjs : o = ptr[t] /\ Live(o)
  BY DEF FreeGuarded, Inv, Shape, PtrOK, Alive, Freeing
<1>2. /\ shm[o].refc = 0 /\ shm[o].guarded /\ ~shm[o].releasing
      /\ \A u \in Threads : pc[u] \in Freeing /\ ptr[u] = o => u = t
  BY <1>1 DEF FreeGuarded, Inv, Shape, FreeOK, FlagsOK, Freeing
<1>3. \A u \in Threads \ {t} : ~Holding(u, o)
  <2>1. \A u \in Threads : pc[u] \in OwnsRef => ptr[u] # o
    BY <1>2, OwnerCounted
  <2>2. \A u \in Threads : Releases(u) => ptr[u] # o
    BY <1>2 DEF Inv, Shape, ReleaseOK
  <2> QED
    BY <1>2, <2>1, <2>2 DEF Holding
<1>4. /\ pc[t] \notin OwnsRef /\ pc'[t] = "idle" /\ role'[t] = "user"
      /\ mapped'[t] = FALSE
  BY DEF FreeGuarded, Done, Inv, TypeOK, OwnsRef
<1>5. ~Releases(t)' /\ ~Makes(t)'
  BY <1>4 DEF Releases, Makes
<1> QED
  BY <1>1, <1>3, <1>4, <1>5, OnlyOneMoves, FreeHeap DEF FreeGuarded, Inv

\* mobj_reg_shm_release_by_cookie() frees the object.
LEMMA ReleaseCheckHeap ==
    ASSUME Inv, NEW t \in Threads, Step(t), ReleaseCheck(t),
           shm[ptr[t]].release_frees
    PROVE  HeapStep(t)
<1>1. /\ pc[t] = "relcheck" /\ role[t] = "releaser" /\ mapped[t] = FALSE
      /\ Releases(t)
  BY DEF ReleaseCheck, Inv, TypeOK, Shape, RoleOK, RelPC, Releases, Freeing
<1>2. PICK o \in Mobjs : o = ptr[t] /\ Live(o)
  BY <1>1 DEF Inv, Shape, PtrOK, Alive
<1>3. shm[o].release_frees /\ shm[o].refc = 0
  BY <1>2 DEF Inv, Shape, FlagsOK
<1>4. \A u \in Threads \ {t} : ~Holding(u, o)
  <2>1. \A u \in Threads : pc[u] \in OwnsRef => ptr[u] # o
    BY <1>3, OwnerCounted
  <2>2. \A u \in Threads : pc[u] \in Freeing => ptr[u] # o
    BY <1>3 DEF Inv, Shape, FreeOK
  <2>3. \A u \in Threads \ {t} : Releases(u) => ptr[u] # o
    BY <1>1, <1>2 DEF Inv, Shape, ReleaseOK
  <2> QED
    BY <2>1, <2>2, <2>3 DEF Holding
<1>5. /\ pc[t] \notin OwnsRef /\ pc'[t] = "relend" /\ role'[t] = "releaser"
      /\ mapped'[t] = FALSE
  BY <1>1 DEF ReleaseCheck, Goto, Inv, TypeOK, OwnsRef
<1>6. ~Releases(t)' /\ ~Makes(t)'
  BY <1>5 DEF Releases, Makes
<1>7. FreeHelper(o)
  BY <1>2, Zenon DEF ReleaseCheck
<1> QED
  BY <1>2, <1>4, <1>5, <1>6, <1>7, OnlyOneMoves, FreeHeap DEF Inv

\* register_shm(), msg_param_mobj_from_noncontig(), mobj_mapped_shm_alloc().
LEMMA AllocationHeap ==
    ASSUME Inv, NEW t \in Threads, Step(t), NEW o \in Mobjs, NEW c \in Cookies,
           Register(t, o, c) \/ AllocTemporary(t, o, c) \/ AllocMapped(t, o, c)
    PROVE  HeapStep(t)
<1>1. /\ Alloc(o, c) /\ pc[t] = "idle"
      /\ ptr' = [ptr EXCEPT ![t] = o]
      /\ \/ Goto(t, "unguard") /\ UNCHANGED <<role, mapped>>
         \/ Goto(t, "held") /\ UNCHANGED <<role, mapped>>
         \/ Goto(t, "mapinc") /\ role' = [role EXCEPT ![t] = "mapper"]
            /\ UNCHANGED mapped
  BY Zenon DEF Register, AllocTemporary, AllocMapped
<1>2. /\ ptr'[t] = o /\ pc'[t] \in {"unguard", "held", "mapinc"}
      /\ role'[t] \in {"user", "mapper"} /\ mapped'[t] = FALSE
  BY <1>1 DEF Goto, Inv, TypeOK, Shape, RoleOK, RelPC, Freeing
<1> QED
  BY <1>1, <1>2, OnlyOneMoves, AllocHeap DEF Inv
-----------------------------------------------------------------------------
(* Every step.                                                             *)

\* Every step of a thread keeps the objects in order.
LEMMA HeapStepAll ==
    ASSUME Inv, NEW t \in Threads, Step(t)
    PROVE  HeapStep(t)
<1>1. CASE Quiet(t)
  BY <1>1, QuietHeap
<1>2. CASE Unguard(t) \/ Get(t) \/ SetReleaseFrees(t) \/ FreeGuarded(t)
           \/ DecMap(t) \/ Put(t) \/ ReleasePut(t)
  BY <1>2, UnguardHeap, GetHeap, SetReleaseFreesHeap, FreeGuardedHeap,
     DecMapHeap, PutHeap, ReleasePutHeap
<1>3. CASE IncMap(t)
  BY <1>1, <1>3, IncMapHeap, Zenon DEF Quiet
<1>4. CASE MapSection(t)
  BY <1>1, <1>4, MapSectionHeap, Zenon DEF Quiet
<1>5. CASE UnmapSection(t)
  BY <1>1, <1>5, UnmapSectionHeap, Zenon DEF Quiet
<1>6. CASE ReleaseCheck(t)
  BY <1>1, <1>6, ReleaseCheckHeap, Zenon DEF Quiet
<1>7. CASE \E c \in Cookies : ReleaseStart(t, c)
  BY <1>7, ReleaseStartHeap
<1>8. CASE \E o \in Mobjs, c \in Cookies :
             Register(t, o, c) \/ AllocTemporary(t, o, c)
             \/ AllocMapped(t, o, c)
  BY <1>8, AllocationHeap
<1> QED
  BY <1>1, <1>2, <1>3, <1>4, <1>5, <1>6, <1>7, <1>8, Zenon
     DEF Step, Progress, Request, GiveBack, Quiet

\* A releaser that waits, or is about to.
Waits(u) == pc[u] = "relwait" \/ mu[u] = "wait"

\* A step that tells nobody keeps the promise to tell.
LEMMA ToldKept ==
    ASSUME Inv, NEW t \in Threads, Step(t), HeapStep(t), RoleOK', MuOK',
           pc[t] \notin {"notify", "notifying"} \/ pc'[t] = "notifying",
           \A u \in Threads : Waits(u)' /\ shm'[ptr'[u]].release_frees =>
              Waits(u) /\ ptr'[u] = ptr[u]
    PROVE  ToldOK'
<1> SUFFICES ASSUME NEW u \in Threads, Waits(u)', shm'[ptr'[u]].release_frees
             PROVE  \E v \in Threads : pc'[v] \in {"notify", "notifying"}
  BY DEF ToldOK, Waits
<1>1. Others(t)
  BY OnlyOneMoves DEF Inv
<1>2. Waits(u) /\ ptr'[u] = ptr[u]
  OBVIOUS
<1>3. Releases(u) /\ Releases(u)'
  BY <1>2 DEF Waits, Releases, MuOK, RoleOK, RelPC, Inv, Shape
<1>4. ptr[u] \in Mobjs /\ Live(ptr[u]) /\ shm'[ptr[u]] # NULL
  BY <1>2, <1>3 DEF HeapStep, Heap, PtrOK, Alive, Inv, Shape, Live
<1>5. shm[ptr[u]].release_frees \/ pc'[t] = "notify"
  BY <1>2, <1>4 DEF HeapStep, Live
<1>6. CASE pc'[t] \in {"notify", "notifying"}
  BY <1>6
<1>7. CASE pc'[t] \notin {"notify", "notifying"}
  <2>1. PICK v \in Threads : pc[v] \in {"notify", "notifying"}
    BY <1>2, <1>5, <1>7 DEF Inv, ToldOK, Waits
  <2>2. v # t
    BY <1>7, <2>1
  <2> QED
    BY <1>1, <2>1, <2>2 DEF Others
<1> QED
  BY <1>6, <1>7

\* mobj_reg_shm_free() sets release_frees before it locks shm_mu, and the
\* waiter checks it with shm_mu locked: no waiter is forgotten.
LEMMA ToldStep ==
    ASSUME Inv, NEW t \in Threads, Step(t), HeapStep(t), RoleOK', MuOK'
    PROVE  ToldOK'
<1>0. /\ mu \in [Threads -> {"out", "want", "own", "wait"}]
      /\ pc \in [Threads -> PC] /\ ptr \in [Threads -> Mobjs \cup {NULL}]
      /\ TypeOK
  BY DEF Inv, TypeOK
<1>1. CASE NotifyWaiters(t)
  <2>1. /\ pc[t] = "notifying" /\ mu[t] = "own"
        /\ pc' = [pc EXCEPT ![t] = "notified"]
    BY <1>1 DEF NotifyWaiters, Goto, Inv, MuOK, WithMu
  <2>2. \A u \in Threads : pc'[u] # "relwait"
    BY <1>0, <2>1 DEF Inv, MuOK, WithMu
  <2>3. \A u \in Threads : mu'[u] # "wait"
    <3>1. CASE waiters # 0
      BY <1>0, <1>1, <3>1, MutexOps DEF NotifyWaiters
    <3>2. CASE waiters = 0
      <4>1. PICK S \in SUBSET Threads : S = Counted
        BY DEF Counted
      <4>2. \A u \in Threads : u \notin S
        <5> SUFFICES ASSUME NEW u \in Threads, u \in S PROVE FALSE
          OBVIOUS
        <5>1. Cardinality(S) > 0
          BY Counting
        <5>2. Cardinality(S) = 0
          BY <3>2, <4>1 DEF Inv, Counts, WaitersOK
        <5> QED
          BY <5>1, <5>2
      <4>3. mu' = mu
        BY <1>1, <3>2 DEF NotifyWaiters
      <4> QED
        BY <4>1, <4>2, <4>3 DEF Counted, Inv, MuOK
    <3> QED
      BY <3>1, <3>2
  <2> QED
    BY <2>2, <2>3 DEF ToldOK
<1>2. CASE ReleaseCheck(t)
  <2>1. /\ pc[t] = "relcheck" /\ mu[t] = "own" /\ UNCHANGED <<mu, ptr>>
        /\ \/ Goto(t, "relend")
           \/ ~shm[ptr[t]].release_frees /\ UNCHANGED shm
    BY <1>2, Zenon DEF ReleaseCheck, Inv, MuOK, WithMu
  <2>2. Waits(t)' => ~shm'[ptr'[t]].release_frees
    BY <1>0, <2>1 DEF Waits, Goto
  <2>3. Others(t)
    BY <1>0, OnlyOneMoves
  <2>4. \A u \in Threads : Waits(u)' /\ shm'[ptr'[u]].release_frees =>
                             Waits(u) /\ ptr'[u] = ptr[u]
    BY <2>1, <2>2, <2>3 DEF Waits, Others
  <2> QED
    BY <2>1, <2>4, ToldKept
<1>3. CASE NotifyLock(t) \/ NotifyUnlock(t) \/ ReleaseLock(t) \/ ReleaseWait(t)
           \/ ReleaseWake(t) \/ ReleaseEnd(t)
  <2>1. \A u \in Threads : Waits(u)' => Waits(u) /\ ptr'[u] = ptr[u]
    BY <1>0, <1>3, MutexOps DEF Waits, NotifyLock, NotifyUnlock, ReleaseLock,
       ReleaseWait, ReleaseWake, ReleaseEnd, Goto, Done
  <2>2. pc[t] \notin {"notify", "notifying"} \/ pc'[t] = "notifying"
    BY <1>0, <1>3 DEF NotifyLock, NotifyUnlock, ReleaseLock,
       ReleaseWait, ReleaseWake, ReleaseEnd, Goto
  <2> QED
    BY <2>1, <2>2, ToldKept
<1>4. CASE \/ Unguard(t) \/ Get(t) \/ GetInvalid(t)
           \/ IncMap(t) \/ MapSection(t) \/ MapFails(t) \/ UnmapSection(t)
           \/ FreeDecide(t) \/ FreeGuarded(t) \/ SetReleaseFrees(t)
           \/ ReleasePut(t) \/ Request(t) \/ GiveBack(t)
  <2>1. /\ pc[t] \notin {"notify", "notifying"}
        /\ pc'[t] # "relwait"
        /\ mu[t] # "wait"
        /\ UNCHANGED mu
    <3>1. /\ UNCHANGED mu
          /\ pc[t] \notin {"notify", "notifying", "relwake"}
          /\ pc'[t] # "relwait"
      <4> USE DEF Goto, Done
      <4>1. CASE Request(t) \/ GiveBack(t)
        BY <1>0, <4>1 DEF Request, GiveBack, Lookup, ReleaseStart, Register,
           AllocTemporary, AllocMapped, MapRequest, DecMap, Put
      <4>2. CASE ~Request(t) /\ ~GiveBack(t)
        BY <1>0, <1>4, <4>2 DEF Unguard, Get, GetInvalid, IncMap, MapSection,
           MapFails, UnmapSection, FreeDecide, FreeGuarded, SetReleaseFrees,
           ReleasePut
      <4> QED
        BY <4>1, <4>2
    <3> QED
      BY <3>1 DEF Inv, MuOK
  <2>2. Others(t)
    BY <1>0, OnlyOneMoves
  <2>3. \A u \in Threads : Waits(u)' => Waits(u) /\ ptr'[u] = ptr[u]
    BY <2>1, <2>2 DEF Waits, Others
  <2> QED
    BY <2>1, <2>3, ToldKept
<1> QED
  BY <1>1, <1>2, <1>3, <1>4 DEF Step, Progress

-----------------------------------------------------------------------------
(* The theorems.                                                           *)

\* The initial state satisfies the invariant.
LEMMA InitInv == Init => Inv
<1> SUFFICES ASSUME Init PROVE Inv
  OBVIOUS
<1>1. \A t \in Threads : /\ pc[t] = "idle" /\ role[t] = "user"
                         /\ mapped[t] = FALSE /\ mu[t] = "out"
  BY Zenon DEF Init
<1>2. \A o \in Mobjs : ~Live(o)
  BY Zenon DEF Init, Live
<1>3. TypeOK
  <2>1. shm \in [Mobjs -> Mobj \cup {NULL}]
    BY Zenon DEF Init
  <2>2. ptr \in [Threads -> Mobjs \cup {NULL}]
    BY Zenon DEF Init
  <2>3. pc \in [Threads -> PC]
    BY DEF Init, PC
  <2>4. /\ mu \in [Threads -> {"out", "want", "own", "wait"}]
        /\ mapped \in [Threads -> BOOLEAN]
        /\ role \in [Threads -> {"user", "mapper", "releaser"}]
    BY DEF Init
  <2>5. list \in Seq(Mobjs) /\ waiters \in Nat /\ panic \in BOOLEAN
    <3>1. list = <<>> /\ waiters = 0 /\ panic = FALSE
      BY DEF Init
    <3>2. list \in Seq(Mobjs)
      BY <3>1, EmptySeq
    <3> QED
      BY <3>1, <3>2
  <2> QED
    BY <2>1, <2>2, <2>3, <2>4, <2>5 DEF TypeOK
<1>4. Shape
  BY <1>1, <1>2 DEF Shape, RoleOK, RelPC, Freeing, PtrOK, OwnsRef, Releases,
     FlagsOK, FreeOK, ReleaseOK, MakeOK, Makes
<1>5. Counts
  <2>1. Counted = {}
    BY <1>1 DEF Counted
  <2> QED
    BY <1>2, <2>1, FS_EmptySet DEF Counts, RefCountExact, MapCountOK,
       WaitersOK, Init
<1>6. ListOK
  <2>1. list = <<>> /\ DOMAIN list = {}
    BY DEF Init
  <2> QED
    BY <1>2, <2>1 DEF ListOK, Range, NoDuplicates
<1>7. MuOK /\ ToldOK
  BY <1>1 DEF MuOK, WithMu, ToldOK
<1> QED
  BY <1>3, <1>4, <1>5, <1>6, <1>7 DEF Inv

\* Every step keeps it.
LEMMA NextInv == Inv /\ [Next]_vars => Inv'
<1> SUFFICES ASSUME Inv, [Next]_vars PROVE Inv'
  OBVIOUS
<1>1. CASE UNCHANGED vars
  BY <1>1 DEF vars, Inv, TypeOK, Shape, RoleOK, PtrOK, Alive, Live, Releases,
     Makes, FlagsOK, FreeOK, ReleaseOK, MakeOK, Counts, RefCountExact, Owners,
     Registered, MapCountOK, Mappers, WaitersOK, Counted, ListOK, MuOK, ToldOK
<1>2. ASSUME NEW t \in Threads, Step(t) PROVE Inv'
  <2>1. LocalTypes /\ RoleOK' /\ HeapStep(t)
    BY <1>2, LocalTypesStep, RoleStep, HeapStepAll DEF Inv
  <2>2. /\ MuOK' /\ mu' \in [Threads -> {"out", "want", "own", "wait"}]
        /\ WaitersOK' /\ waiters' \in Nat
    BY <1>2, MuStep, WaitersStep
  <2>3. ToldOK'
    BY <1>2, <2>1, <2>2, ToldStep
  <2>4. panic' \in BOOLEAN
    <3>1. CASE UnmapSection(t) \/ GetInvalid(t)
      BY <3>1, Zenon DEF UnmapSection, GetInvalid, Inv, TypeOK
    <3>2. CASE ~UnmapSection(t) /\ ~GetInvalid(t)
      <4>1. panic' = panic
        BY <1>2, <3>2, Zenon DEF Step, Progress, Request, GiveBack, Unguard,
           Get, IncMap, MapSection, MapFails, FreeDecide, FreeGuarded,
           SetReleaseFrees, NotifyLock, NotifyWaiters, NotifyUnlock,
           ReleasePut, ReleaseLock, ReleaseCheck, ReleaseWait, ReleaseWake,
           ReleaseEnd, Lookup, ReleaseStart, Register, AllocTemporary,
           AllocMapped, MapRequest, DecMap, Put
      <4> QED
        BY <4>1 DEF Inv, TypeOK
    <3> QED
      BY <3>1, <3>2
  <2>5. TypeOK'
    BY <2>1, <2>2, <2>4 DEF TypeOK, LocalTypes, HeapStep, Heap
  <2> QED
    BY <2>1, <2>2, <2>3, <2>5 DEF Inv, Shape, Counts, HeapStep, Heap
<1> QED
  BY <1>1, <1>2 DEF Next, Step

\* The counters of an object stay natural numbers: no refcount_dec() counts
\* below 0, and every local of a thread keeps its type.
THEOREM RegShmTypeCorrect == Spec => []TypeOK
<1>1. Inv => TypeOK
  BY DEF Inv
<1> QED
  BY InitInv, NextInv, <1>1, PTL DEF Spec

\* The reference counter of every object is the number of its users:
\* mobj_get(), mobj_put(), mobj_reg_shm_unguard() and
\* mobj_reg_shm_release_by_cookie() keep it exact.
THEOREM RefCountCorrect == Spec => []RefCountExact
<1>1. Inv => RefCountExact
  BY DEF Inv, Counts
<1> QED
  BY InitInv, NextInv, <1>1, PTL DEF Spec

\* reg_shm_free_helper() is called once for an object, when no thread will use
\* it again, and the list holds just the objects in the heap.
THEOREM FreeCorrect == Spec => []NoUseAfterFree
<1>1. Inv => NoUseAfterFree
  <2> SUFFICES ASSUME Inv PROVE NoUseAfterFree
    OBVIOUS
  <2>1. \A t \in Threads : Uses(t) => Live(ptr[t])
    BY DEF Inv, Shape, PtrOK, Alive, Uses, Releases, Freeing
  <2> QED
    BY <2>1 DEF Inv, ListOK, NoDuplicates, NoUseAfterFree
<1> QED
  BY InitInv, NextInv, <1>1, PTL DEF Spec

\* Between mobj_inc_map() and mobj_dec_map() the object stays mapped, although
\* the map counter is changed outside reg_shm_map_lock.
THEOREM MappingCorrect == Spec => []MappingStays
<1>1. Inv => MappingStays
  BY OwnerCounted DEF MappingStays, Alive
<1> QED
  BY InitInv, NextInv, <1>1, PTL DEF Spec

\* A thread that waits in mobj_reg_shm_release_by_cookie() when the last
\* reference is gone is about to be told: condvar_broadcast() is not missed.
THEOREM ReleaseCorrect == Spec => []NoMissedRelease
<1>1. Inv => NoMissedRelease
  BY DEF Inv, ToldOK, NoMissedRelease
<1> QED
  BY InitInv, NextInv, <1>1, PTL DEF Spec
=============================================================================
