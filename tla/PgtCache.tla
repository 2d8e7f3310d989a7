------------------------------ MODULE PgtCache ------------------------------
(***************************************************************************)
(* The pool of page tables for user mode contexts (mm/pgt_cache.c with     *)
(* CFG_PAGED_USER_TA) and its users: vm_set_ctx(), the mapping of          *)
(* parameters and of memory (mm/vm.c, mm/core_mmu.c) and the destruction   *)
(* of contexts.                                                            *)
(*                                                                         *)
(* A thread gives its tables back whenever it leaves a context; tables     *)
(* with paged entries are kept in a cache for the context.  A thread that  *)
(* gets too few gives them all back and waits.  The pager adds and removes *)
(* paged entries at any time, through pointers of its own to the tables.   *)
(* The lists are sets; a region lies in one slot of the page directory or  *)
(* in several, and regions share slots.                                    *)
(***************************************************************************)
EXTENDS Integers, FiniteSets, Sequences

CONSTANTS
    PgtThreads, \* threads of the TEE core
    Ctxs,       \* contexts; one that was destroyed may be created again
    Tables,     \* pgt_entries[]: the numbers of its elements
    NSlots,     \* slots of the user page directory
    ParamSlots, \* the slots that parameters are mapped in
    MaxNest,    \* a bound on the contexts a thread is in
    MaxPaged,   \* a bound on the paged regions of a context
    LongCtxs,   \* contexts that map regions of several slots: a bound
    NIL

ASSUME PgtAssumption ==
    /\ Tables \subseteq Nat /\ IsFiniteSet(Tables)
    /\ NSlots \in Nat \ {0} /\ ParamSlots \subseteq 1..NSlots
    /\ MaxNest \in Nat /\ MaxPaged \in Nat
    /\ NIL \notin Tables /\ NIL \notin Ctxs
    /\ "free" \notin PgtThreads /\ "cache" \notin PgtThreads

VARIABLES
    pgt_mu,   \* pgt_mu and pgt_cv: where each thread is (the phases of Monitor)
    tab,      \* the tables: the list, ctx, vabase and entries of each
    array,    \* pgt_array[] of a context's paged regions
    regs,     \* vm_info.regions of each context
    live,     \* contexts that exist
    stack,    \* sess_stack of each thread
    cur,      \* tsd->ctx
    dir,      \* the page directory of each thread that is in use
    rem,      \* the region that a thread maps or removes
    stale,    \* threads whose page directory was left as it is although tables
              \* behind it have changed: no state of the code
    at        \* where each thread is

pgtVars == <<pgt_mu, tab, array, regs, live, stack, cur, dir, rem, stale, at>>

Slots == 1..NSlots
Region == {r \in [first : Slots, last : Slots, kind : {"paged", "param"}] :
              r.first <= r.last}
PagedRegion == {r \in Region : r.kind = "paged"}
ParamRegion == {r \in Region : r.kind = "param" /\ r.first..r.last \subseteq ParamSlots}
NoDir == [s \in Slots |-> NIL]
NoTable == [at |-> "free", ctx |-> NIL, base |-> 0, tbl |-> {}]
Heap == [first |-> NSlots, last |-> NSlots, kind |-> "paged"]

\* The slots that a region lies in, and the regions that fit beside those in R.
Span(r) == r.first..r.last
Fits(r, R) == \A q \in R : q # r /\ (r.last <= q.first \/ q.last <= r.first)

\* struct pgt
Pgt == [at : {"free", "cache"} \cup PgtThreads, ctx : Ctxs \cup {NIL},
        base : Slots \cup {0}, tbl : SUBSET Region]

PgtTypeOK ==
    /\ pgt_mu \in [PgtThreads -> {"out", "want", "own", "wait"}]
    /\ tab \in [Tables -> Pgt]
    /\ array \in [Ctxs -> [Slots -> Tables \cup {NIL}]]
    /\ regs \in [Ctxs -> SUBSET Region]
    /\ live \subseteq Ctxs
    /\ stack \in [PgtThreads -> Seq(Ctxs)]
    /\ \A t \in PgtThreads : Len(stack[t]) <= MaxNest
    /\ cur \in [PgtThreads -> Ctxs \cup {NIL}]
    /\ dir \in [PgtThreads -> [Slots -> Tables \cup {NIL}]]
    /\ rem \in [PgtThreads -> Region \cup {NIL}]
    /\ stale \subseteq PgtThreads
    /\ at \in [PgtThreads -> {"kernel", "free", "alloc", "pop", "sleep", "user",
                           "return", "clear", "flush"}]

PgtInit ==
    /\ pgt_mu = [t \in PgtThreads |-> "out"]
    /\ tab = [p \in Tables |-> NoTable]
    /\ array = [c \in Ctxs |-> NoDir]
    /\ regs = [c \in Ctxs |-> {}]
    /\ live = {}
    /\ stack = [t \in PgtThreads |-> <<>>]
    /\ cur = [t \in PgtThreads |-> NIL]
    /\ dir = [t \in PgtThreads |-> NoDir]
    /\ rem = [t \in PgtThreads |-> NIL]
    /\ stale = {}
    /\ at = [t \in PgtThreads |-> "kernel"]

PgtMu == INSTANCE Monitor WITH
          Threads <- PgtThreads,
          NULL <- NIL,
          Condvars <- {"pgt_cv"},
          phase <- pgt_mu,
          how <- [t \in PgtThreads |-> "write"],
          cv <- [t \in PgtThreads |-> IF pgt_mu[t] = "wait" THEN "pgt_cv" ELSE NIL]

\* The page directory is cleared, to be filled again.
ResetDir(t) == dir' = [dir EXCEPT ![t] = NoDir] /\ stale' = stale \ {t}

GoesTo(t, l) == at' = [at EXCEPT ![t] = l]

\* The context that the thread runs, or is about to run: the last it entered.
Top(t) == IF stack[t] = <<>> THEN NIL ELSE stack[t][Len(stack[t])]

Own(t) == {p \in Tables : tab[p].at = t}
Cached == {p \in Tables : tab[p].at = "cache"}
Avail == {p \in Tables : tab[p].at \in {"free", "cache"}}
Used(p) == Cardinality({r \in tab[p].tbl : r.kind = "paged"})

\* The parameters that are mapped in a context: VM_FLAG_EPHEMERAL.
Params(c) == {r \in regs[c] : r.kind = "param"}

\* The slots between the first and the last region of a context.
Need(R) == {s \in Slots : \E a, b \in R : a.first <= s /\ s <= b.last}

-----------------------------------------------------------------------------
(* Lists of tables, with pgt_mu locked.                                    *)

\* Mutant: the pager keeps its pointers.
ForgetNothing(S) == array' = [c \in Ctxs |-> array[c]]

\* tee_pager_pgt_save_and_release_entries(): the pager forgets the tables.
Forget(S) ==
    array' = [c \in Ctxs |-> [s \in Slots |->
                 IF array[c][s] \in S THEN NIL ELSE array[c][s]]]

\* A table that has been released in the free list; what is not paged stays.
ReleasedTable(p) ==
    [NoTable EXCEPT !.tbl = {r \in tab[p].tbl : r.kind # "paged"}]

\* The tables in S go to the free list, except those in K, which are cached.
GiveBack(S, K) ==
    /\ tab' = [p \in Tables |-> IF p \in K THEN [tab[p] EXCEPT !.at = "cache"]
                                ELSE IF p \in S THEN ReleasedTable(p)
                                ELSE tab[p]]
    /\ Forget(S \ K)

\* pgt_free_unlocked() for a user TA.
FreeUnlocked(t) == GiveBack(Own(t), {p \in Own(t) : Used(p) > 0})

\* pop_from_some_list(): the tables that can be taken for slot s of context c.
\* Free tables are alike, and one of them is taken.
Matching(c, s) == {p \in Cached : tab[p].ctx = c /\ tab[p].base = s}

\* Mutant: the cache is looked at only when no table is free.
PopFromFreeFirst(c, s) ==
    LET all == {p \in Tables : tab[p].at = "free"}
    IN  IF all # {} THEN {p \in all : \A q \in all : p <= q}
        ELSE IF Matching(c, s) # {} THEN Matching(c, s)
        ELSE {p \in Cached : \A q \in Cached : Used(p) <= Used(q)}

PopFrom(c, s) ==
    LET all == {p \in Tables : tab[p].at = "free"}
        free == {p \in all : \A q \in all : p <= q}
        least == {p \in Cached : \A q \in Cached : Used(p) <= Used(q)}
    IN  IF Matching(c, s) # {} THEN Matching(c, s)
        ELSE IF free # {} THEN free
        ELSE least

\* Mutant: the entries of a table are not cleared.
TakenForUncleared(t, p, c, s) ==
    [tab[p] EXCEPT !.at = t, !.ctx = c, !.base = s]

\* The table p is taken for slot s of context c; only one that matches keeps
\* its entries.
TakenFor(t, p, c, s) ==
    IF p \in Matching(c, s) THEN [tab[p] EXCEPT !.at = t]
    ELSE [at |-> t, ctx |-> c, base |-> s, tbl |-> {}]

-----------------------------------------------------------------------------
(* vm_set_ctx()                                                            *)

\* Mutant: nobody is told.
FreeQuietly(t) ==
    /\ at[t] = "free"
    /\ Own(t) # {} => PgtMu!Grantable("write")
    /\ FreeUnlocked(t)
    /\ cur' = IF Top(t) = NIL THEN [cur EXCEPT ![t] = NIL] ELSE cur
    /\ GoesTo(t, IF Top(t) = NIL THEN "kernel" ELSE "alloc")
    /\ UNCHANGED <<pgt_mu, regs, live, stack, dir, rem, stale>>

\* pgt_free() of the tables of the context that the thread leaves.
Free(t) ==
    /\ at[t] = "free"
    /\ Own(t) # {} => PgtMu!Grantable("write")
    /\ FreeUnlocked(t)
    /\ IF Own(t) = {} THEN UNCHANGED pgt_mu ELSE PgtMu!EndWait(PgtMu!Waiting("pgt_cv"))
    /\ cur' = IF Top(t) = NIL THEN [cur EXCEPT ![t] = NIL] ELSE cur
    /\ GoesTo(t, IF Top(t) = NIL THEN "kernel" ELSE "alloc")
    /\ UNCHANGED <<regs, live, stack, dir, rem, stale>>

\* pgt_alloc() locks the mutex, the first time or after its wait.
Lock(t) ==
    /\ at[t] = "alloc"
    /\ PgtMu!Grant(t) \/ PgtMu!Try(t, "write")
    /\ FreeUnlocked(t)
    /\ GoesTo(t, "pop")
    /\ UNCHANGED <<regs, live, stack, cur, dir, rem, stale>>

\* The first slot of the context for which t has no table yet.
Missing(t, s) ==
    LET M == Need(regs[Top(t)]) \ {tab[p].base : p \in Own(t)}
    IN  s \in M /\ \A u \in M : s <= u

Pop(t) ==
    /\ at[t] = "pop"
    /\ \E s \in Slots : Missing(t, s) /\
         \E p \in PopFrom(Top(t), s) :
           /\ tab' = [tab EXCEPT ![p] = TakenFor(t, p, Top(t), s)]
           /\ Forget({p} \ Matching(Top(t), s))
    /\ UNCHANGED <<pgt_mu, regs, live, stack, cur, dir, rem, stale, at>>

\* Mutant: the thread waits for more tables with those that it has.
FailKeeps(t) ==
    /\ at[t] = "pop"
    /\ \E s \in Slots : Missing(t, s) /\ PopFrom(Top(t), s) = {}
    /\ PgtMu!Broadcast(t, "pgt_cv")
    /\ GoesTo(t, "sleep")
    /\ UNCHANGED <<tab, array, regs, live, stack, cur, dir, rem, stale>>

\* There is none: the thread gives back what it has and tells the others ...
Fail(t) ==
    /\ at[t] = "pop"
    /\ \E s \in Slots : Missing(t, s) /\ PopFrom(Top(t), s) = {}
    /\ FreeUnlocked(t)
    /\ PgtMu!Broadcast(t, "pgt_cv")
    /\ GoesTo(t, "sleep")
    /\ UNCHANGED <<regs, live, stack, cur, dir, rem, stale>>

\* ... and waits.
Sleep(t) ==
    /\ at[t] = "sleep"
    /\ PgtMu!Wait(t, "pgt_cv")
    /\ GoesTo(t, "alloc")
    /\ UNCHANGED <<tab, array, regs, live, stack, cur, dir, rem, stale>>

\* tee_pager_assign_um_tables(): the pager's pointers that are not set yet.
Assign(t, c) ==
    array' = [array EXCEPT ![c] = [s \in Slots |->
                 IF @[s] = NIL /\ \E r \in regs[c] : r.kind = "paged" /\ s \in Span(r)
                 THEN CHOOSE p \in Own(t) : tab[p].base = s
                 ELSE @[s]]]

\* Mutant: the context is not set again.
AllocatedOnly(t) ==
    /\ at[t] = "pop"
    /\ \A s \in Slots : ~Missing(t, s)
    /\ dir[t] # NoDir
    /\ PgtMu!Release(t)
    /\ Assign(t, Top(t))
    /\ rem' = [rem EXCEPT ![t] = NIL]
    /\ GoesTo(t, "user")
    /\ UNCHANGED <<tab, regs, live, stack, cur, dir, stale>>

\* pgt_alloc() returns to vm_map(): the pager learns of the new region and the
\* context is set again ...
Allocated(t) ==
    /\ at[t] = "pop"
    /\ \A s \in Slots : ~Missing(t, s)
    /\ dir[t] # NoDir
    /\ PgtMu!Release(t)
    /\ Assign(t, Top(t))
    /\ ResetDir(t)
    /\ rem' = [rem EXCEPT ![t] = NIL]
    /\ GoesTo(t, "free")
    /\ UNCHANGED <<tab, regs, live, stack, cur>>

\* ... or the pager has no memory for it: the region is removed and the context
\* not set again, although its tables may be others than before.
MapFails(t) ==
    /\ at[t] = "pop"
    /\ \A s \in Slots : ~Missing(t, s)
    /\ dir[t] # NoDir
    /\ PgtMu!Release(t)
    /\ regs' = [regs EXCEPT ![cur[t]] = @ \ {rem[t]}]
    /\ rem' = [rem EXCEPT ![t] = NIL]
    /\ stale' = stale \cup {t}
    /\ GoesTo(t, "user")
    /\ UNCHANGED <<tab, array, live, stack, cur, dir>>

\* pgt_alloc() returns to core_mmu_populate_user_map().
Mapped(t) ==
    /\ at[t] = "pop"
    /\ \A s \in Slots : ~Missing(t, s)
    /\ dir[t] = NoDir
    /\ PgtMu!Release(t)
    /\ LET c == Top(t)
       IN  /\ tab' = [p \in Tables |->
                IF p \notin Own(t) THEN tab[p]
                ELSE [tab[p] EXCEPT !.tbl = @ \cup {r \in Params(c) : tab[p].base \in Span(r)}]]
           /\ dir' = [dir EXCEPT ![t] = [s \in Slots |->
                IF \A r \in regs[c] : s \notin Span(r) THEN NIL
                ELSE CHOOSE p \in Own(t) : tab[p].base = s]]
           /\ Assign(t, c)
           /\ cur' = [cur EXCEPT ![t] = c]
    /\ GoesTo(t, "user")
    /\ UNCHANGED <<regs, live, stack, rem, stale>>

-----------------------------------------------------------------------------
(* User mode contexts.                                                     *)

\* A context is busy until the thread that entered it has left it.
Inside(t, c) == cur[t] = c \/ \E i \in DOMAIN stack[t] : stack[t][i] = c
Busy(c) == \E t \in PgtThreads : Inside(t, c)

\* A context is created with paged memory.
Create(c) ==
    /\ c \notin live
    /\ live' = live \cup {c}
    /\ regs' = [regs EXCEPT ![c] = {Heap}]
    /\ UNCHANGED <<pgt_mu, tab, array, stack, cur, dir, rem, stale, at>>

\* pgt_flush_ctx() for a context that is destroyed.
Destroy(c) ==
    /\ c \in live /\ ~Busy(c)
    /\ PgtMu!Grantable("write")
    /\ GiveBack({p \in Cached : tab[p].ctx = c}, {})
    /\ live' = live \ {c}
    /\ regs' = [regs EXCEPT ![c] = {}]
    /\ UNCHANGED <<pgt_mu, stack, cur, dir, rem, stale, at>>

\* user_ta_enter(): the parameters are mapped and the context becomes current.
Enter(t, c, P) ==
    /\ at[t] \in {"kernel", "user"}
    /\ Len(stack[t]) < MaxNest
    /\ c \in live /\ ~Busy(c)
    /\ \A r \in P : Fits(r, (regs[c] \cup P) \ {r})
    /\ Cardinality(Need(regs[c] \cup P)) <= Cardinality(Tables)
    /\ regs' = [regs EXCEPT ![c] = @ \cup P]
    /\ stack' = [stack EXCEPT ![t] = Append(@, c)]
    /\ ResetDir(t)
    /\ GoesTo(t, "free")
    /\ UNCHANGED <<pgt_mu, tab, array, live, cur, rem>>

\* vm_map() of memory for the current context: alloc_pgt().
Map(t, r) ==
    /\ at[t] = "user" /\ Fits(r, regs[cur[t]])
    /\ Cardinality(regs[cur[t]] \ Params(cur[t])) < MaxPaged
    /\ r.first = r.last \/ cur[t] \in LongCtxs
    /\ Cardinality(Need(regs[cur[t]] \cup {r})) <= Cardinality(Tables)
    /\ regs' = [regs EXCEPT ![cur[t]] = @ \cup {r}]
    /\ rem' = [rem EXCEPT ![t] = r]
    /\ GoesTo(t, "alloc")
    /\ UNCHANGED <<pgt_mu, tab, array, live, stack, cur, dir, stale>>

\* vm_unmap() of that memory.
Unmap(t, r) ==
    /\ at[t] = "user" /\ r \in regs[cur[t]] /\ r # Heap
    /\ rem' = [rem EXCEPT ![t] = r]
    /\ GoesTo(t, "clear")
    /\ UNCHANGED <<pgt_mu, tab, array, regs, live, stack, cur, dir, stale>>

\* The TA returns to user_ta_enter().
Return(t) ==
    /\ at[t] = "user"
    /\ GoesTo(t, "return")
    /\ UNCHANGED <<pgt_mu, tab, array, regs, live, stack, cur, dir, rem, stale>>

\* vm_clean_param() removes the parameters one by one.
CleanParam(t) ==
    /\ at[t] = "return"
    /\ \E r \in Params(cur[t]) : rem' = [rem EXCEPT ![t] = r]
    /\ GoesTo(t, "clear")
    /\ UNCHANGED <<pgt_mu, tab, array, regs, live, stack, cur, dir, stale>>

\* The session is popped: vm_set_ctx() for the context before it, or for none.
Leave(t) ==
    /\ at[t] = "return"
    /\ Params(cur[t]) = {}
    /\ stack' = [stack EXCEPT ![t] = SubSeq(@, 1, Len(@) - 1)]
    /\ ResetDir(t)
    /\ GoesTo(t, "free")
    /\ UNCHANGED <<pgt_mu, tab, array, regs, live, cur, rem>>

\* Another region of the context, of one of the kinds, lies in slot s.
Shared(c, r, s, kinds) ==
    \E q \in regs[c] \ {r} : q.kind \in kinds /\ s \in Span(q)

\* rem_um_region(): tee_pager_rem_um_region(), or pgt_clear_ctx_range() for the
\* thread's tables and the cache.
Clear(t) ==
    /\ at[t] = "clear"
    /\ LET c == cur[t]
           r == rem[t]
       IN  /\ r.kind = "param" => PgtMu!Grantable("write")
           /\ tab' = [p \in Tables |->
                IF tab[p].ctx = c /\ tab[p].at \in {t, "cache"}
                THEN [tab[p] EXCEPT !.tbl = @ \ {r}] ELSE tab[p]]
           /\ array' = IF r.kind = "param" THEN array
                       ELSE [array EXCEPT ![c] = [s \in Slots |->
                              IF s \in Span(r) /\ ~Shared(c, r, s, {"paged"}) THEN NIL
                              ELSE @[s]]]
    /\ GoesTo(t, "flush")
    /\ UNCHANGED <<pgt_mu, regs, live, stack, cur, dir, rem, stale>>

\* The slots whose first page is a page of the region: the first one is if the region
\* begins there, which it does not behind another region.
Flushed(c, r) ==
    LET later == (r.first + 1)..r.last
    IN  {later} \cup IF Shared(c, r, r.first, {"paged", "param"}) THEN {}
                     ELSE {later \cup {r.first}}

\* If no other region is in one of the slots, pgt_flush_ctx_range() gives the tables
\* of the region's slots back, also one that the next region shares.
Flush(t) ==
    /\ at[t] = "flush"
    /\ LET c == cur[t]
           r == rem[t]
           shared == {s \in Span(r) : Shared(c, r, s, {"paged", "param"})}
       IN  /\ \/ /\ shared # Span(r)
                 /\ PgtMu!Grantable("write")
                 /\ PgtMu!EndWait(PgtMu!Waiting("pgt_cv"))
                 /\ \E F \in Flushed(c, r) :
                       /\ GiveBack({p \in Own(t) \cup Cached :
                                     tab[p].ctx = c /\ tab[p].base \in F}, {})
                       /\ stale' = IF F \cap shared = {} THEN stale ELSE stale \cup {t}
              \/ shared = Span(r) /\ UNCHANGED <<pgt_mu, tab, array, stale>>
           /\ regs' = [regs EXCEPT ![c] = @ \ {r}]
           /\ rem' = [rem EXCEPT ![t] = NIL]
    /\ GoesTo(t, IF rem[t].kind = "param" THEN "return" ELSE "user")
    /\ UNCHANGED <<live, stack, cur, dir>>

-----------------------------------------------------------------------------
(* The pager.                                                              *)

\* A page fault in the running context.
PageIn(t, r, s) ==
    /\ at[t] = "user" /\ r \in regs[cur[t]]
    /\ LET p == array[cur[t]][s]
       IN  /\ p # NIL /\ r \notin tab[p].tbl
           /\ tab' = [tab EXCEPT ![p].tbl = @ \cup {r}]
    /\ UNCHANGED <<pgt_mu, array, regs, live, stack, cur, dir, rem, stale, at>>

\* The pager takes a page from a context, wherever its table is.
PageOut(c, r, s) ==
    /\ r \in regs[c]
    /\ LET p == array[c][s]
       IN  /\ p # NIL /\ r \in tab[p].tbl
           /\ tab' = [tab EXCEPT ![p].tbl = @ \ {r}]
    /\ UNCHANGED <<pgt_mu, array, regs, live, stack, cur, dir, rem, stale, at>>

-----------------------------------------------------------------------------
Step(t) ==
    \/ Free(t) \/ Lock(t) \/ Pop(t) \/ Fail(t) \/ Sleep(t)
    \/ Allocated(t) \/ MapFails(t) \/ Mapped(t) \/ Return(t) \/ CleanParam(t) \/ Leave(t)
    \/ Clear(t) \/ Flush(t)

PgtNext ==
    \/ \E t \in PgtThreads :
         \/ Step(t)
         \/ \E c \in Ctxs, P \in SUBSET ParamRegion : Enter(t, c, P)
         \/ \E r \in PagedRegion :
              Map(t, r) \/ Unmap(t, r) \/ \E s \in Span(r) : PageIn(t, r, s)
    \/ \E c \in Ctxs : Create(c) \/ Destroy(c)
    \/ \E c \in Ctxs, r \in PagedRegion : \E s \in Span(r) : PageOut(c, r, s)

\* Threads go on, the mutex is given to everyone who asks for it, and TAs return.
PgtFairness == \A t \in PgtThreads : SF_pgtVars(Step(t))

PgtSpec == PgtInit /\ [][PgtNext]_pgtVars /\ PgtFairness

-----------------------------------------------------------------------------
(* Safety.                                                                 *)

\* A table that is in use or cached belongs to a context that exists and maps
\* nothing that the context does not: not what another context, or this one
\* before, had in its place.
EntriesCurrent ==
    \A p \in Tables : tab[p].at # "free" =>
        /\ tab[p].ctx \in live
        /\ tab[p].tbl \subseteq {r \in regs[tab[p].ctx] : tab[p].base \in Span(r)}

\* The pager's pointers lead to the tables of the context, also to those which
\* are cached: the assertion of tee_pager_assign_um_tables() holds.
PagerPointers ==
    \A c \in Ctxs, s \in Slots :
        LET p == array[c][s]
        IN  p # NIL => tab[p].at # "free" /\ tab[p].ctx = c /\ tab[p].base = s

\* A slot of a context has one table at most: none is allocated while another,
\* with entries, is in the cache.
OneTablePerSlot ==
    \A p, q \in Tables :
        /\ tab[p].at # "free" /\ tab[q].at # "free"
        /\ tab[p].ctx = tab[q].ctx /\ tab[p].base = tab[q].base
        => p = q

\* The page directory of a thread in user mode leads, for every region of the
\* context, to a table of the thread and the context: the tables were given back
\* while the region was mapped and may have been taken by other threads.  And the
\* pager works on the same table.  Not so once the code has left the directory stale.
UserMapOwned ==
    \A t \in PgtThreads : at[t] = "user" /\ t \notin stale =>
        \A r \in regs[cur[t]] : \A s \in Span(r) :
            LET p == dir[t][s]
            IN  /\ p # NIL
                /\ tab[p].at = t /\ tab[p].ctx = cur[t] /\ tab[p].base = s
                /\ r.kind = "paged" => array[cur[t]][s] = p

\* vm.c:318, "If the context currently is active set it again to update the mapping":
\* user mode never runs with a stale page directory.  It does after vm_map() has
\* failed with its tables exchanged, and after vm_unmap() of a region of several slots
\* has given back the table of its last slot, which the next region shares.
NeverStale == \A t \in PgtThreads : at[t] = "user" => t \notin stale

\* The page directory leads to no other table.  It does after vm_unmap(), which
\* does not set the context again when it has given a table back.
NothingElseMapped ==
    \A t \in PgtThreads, s \in Slots :
        at[t] = "user" /\ dir[t][s] # NIL => tab[dir[t][s]].at = t

\* A thread does not wait for tables that are there, unless a thread that gives
\* tables back, or takes them, will tell it, or one whose vm_map() has failed: the
\* tables that it gave up for those it keeps it tells nobody of.
NoForgottenWaiter ==
    \A t \in PgtThreads :
        /\ pgt_mu[t] = "wait"
        /\ Cardinality(Avail) >= Cardinality(Need(regs[Top(t)]))
        => \E u \in PgtThreads : at[u] \in {"pop", "free"} \/ u \in stale

\* pgt_cache.c and its users: a table in use or in the cache maps only what its
\* context has mapped, and is the only one of its slot; the pager's pointers lead to
\* the tables of their context, and user mode runs with tables of its own for all
\* regions; no thread waits in pgt_alloc() for tables that nobody will tell it of.
PageTablesSafe ==
    /\ PgtTypeOK
    /\ EntriesCurrent /\ OneTablePerSlot
    /\ PagerPointers /\ UserMapOwned
    /\ NoForgottenWaiter

-----------------------------------------------------------------------------
(* Liveness.                                                               *)

\* pgt_alloc(): a thread gets its tables if the others leave user mode for good:
\* threads that wait for tables do not keep any.
EveryoneMaps ==
    \A t \in PgtThreads :
        <>[](\A u \in PgtThreads \ {t} : at[u] # "user")
            => (at[t] = "alloc" ~> at[t] = "user")
=============================================================================
