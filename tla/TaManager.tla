----------------------------- MODULE TaManager -----------------------------
(***************************************************************************)
(* Sessions and contexts of trusted applications: kernel/tee_ta_manager.c  *)
(* with the user TA contexts of kernel/user_ta.c, the session commands of  *)
(* tee/entry_std.c and the system calls with which a TA calls another one  *)
(* (tee/tee_svc.c).                                                        *)
(*                                                                         *)
(* A step is one section under tee_ta_mutex with the unlocked code next to *)
(* it, or a visit of user mode.  A section that waits for a condition      *)
(* variable ends there; the thread goes on when it has been signalled.     *)
(* The mutex itself is Monitor, which Mutex implements.                    *)
(*                                                                         *)
(* A thread has a stack of calls: a TA that runs may call another TA, and  *)
(* tee_ta_close_session() is also called when an open fails and when a     *)
(* context with sessions of its own is destroyed.                          *)
(***************************************************************************)
EXTENDS Integers, FiniteSets, SequencesExt

CONSTANTS
    Threads,        \* the threads
    Sessions,       \* the addresses of struct tee_ta_session
    Ctxs,           \* the addresses of struct user_ta_ctx
    TAs,            \* the UUIDs of the installed user TAs
    Single,         \* TAs with TA_FLAG_SINGLE_INSTANCE
    MultiSession,   \* TAs with TA_FLAG_MULTI_SESSION
    KeepAlive,      \* TAs with TA_FLAG_INSTANCE_KEEP_ALIVE
    Concurrent,     \* TAs with TA_FLAG_CONCURRENT
    Clients,        \* the TAs that normal world opens sessions to
    Calls,          \* pairs <<a, b>>: TA a opens sessions to TA b
    TaMayPanic,     \* TAs may panic
    AnyId,          \* clients also use ids that they were not told of, and
                    \* close a session that is being closed
    IdMax,          \* the largest session id (UINT32_MAX in the code)
    MaxRecursion,   \* CFG_CORE_MAX_SYSCALL_RECURSION
    NULL

NSEC == "nsec"              \* tee_open_sessions, the list of normal world
Heads == Ctxs \cup {NSEC}   \* the lists of open sessions
Ids == 1..IdMax

ASSUME TaManagerAssumption ==
    /\ Single \cup MultiSession \cup KeepAlive \cup Concurrent \cup Clients
          \subseteq TAs
    /\ Calls \subseteq TAs \X TAs
    /\ TaMayPanic \in BOOLEAN /\ AnyId \in BOOLEAN
    /\ IdMax \in Nat \ {0} /\ MaxRecursion \in Nat \ {0}
    /\ NULL \notin Threads \cup Sessions \cup Heads \cup TAs
    /\ NSEC \notin Ctxs

VARIABLES
    sess,     \* the sessions in the heap, NULL where there is none
    ctxs,     \* the contexts in the heap, NULL where there is none
    heads,    \* the lists of open sessions
    ctxes,    \* tee_ctxes
    single,   \* tee_ta_single_instance_thread and _count
    stack,    \* the calls of each thread, the innermost first
    wait,     \* the condition variable that a thread waits for
    fault     \* why the core has stopped, "none" as long as it has not

vars == <<sess, ctxs, heads, ctxes, single, stack, wait, fault>>

\* A session.  told is no field of the code: the client knows the id.
Session == [id : Ids, ctx : Ctxs \cup {NULL}, ref : Nat,
            lock : Threads \cup {NULL}, unlink : BOOLEAN, cancel : BOOLEAN,
            told : BOOLEAN]

Ctx == [ta : TAs, ref : Nat, busy : BOOLEAN, panicked : BOOLEAN,
        init : BOOLEAN]

ASSUME NullAssumption == NULL \notin Session /\ NULL \notin Ctx

\* Where a call is.
PC == {"load", "loading", "fail", "init", "opened", "dead", "origin",
       "get", "lock", "begin", "setbusy", "enter", "run", "clear", "after",
       "put", "unlink", "refc", "release", "destroyctx", "destroy", "cancel"}

\* A call: the list and the session it works on, the context once it is known,
\* and the result of the TA's entry point.
Call == [op : {"open", "invoke", "close", "cancel"}, pc : PC, h : Heads,
         ta : TAs \cup {NULL},
         s : Sessions \cup {NULL}, c : Ctxs \cup {NULL},
         res : {"none", "ok", "error", "busy", "panicked"}]

Condvars == {"init", "single"} \X {NULL}
            \cup {"busy"} \X Ctxs \cup {"lock", "refc"} \X Sessions

ASSUME WaitAssumption == NULL \notin Condvars

TypeOK ==
    /\ sess \in [Sessions -> Session \cup {NULL}]
    /\ ctxs \in [Ctxs -> Ctx \cup {NULL}]
    /\ heads \in [Heads -> Seq(Sessions)]
    /\ ctxes \in Seq(Ctxs)
    /\ single \in [owner : Threads \cup {NULL}, count : Nat]
    /\ stack \in [Threads -> Seq(Call)]
    /\ wait \in [Threads -> Condvars \cup {NULL}]
    /\ fault \in {"none", "freed", "assert", "count", "panic", "condvar", "init"}

Init ==
    /\ sess = [s \in Sessions |-> NULL]
    /\ ctxs = [c \in Ctxs |-> NULL]
    /\ heads = [h \in Heads |-> <<>>]
    /\ ctxes = <<>>
    /\ single = [owner |-> NULL, count |-> 0]
    /\ stack = [t \in Threads |-> <<>>]
    /\ wait = [t \in Threads |-> NULL]
    /\ fault = "none"

-----------------------------------------------------------------------------
(* Calls and condition variables.                                          *)

Top(t) == Head(stack[t])

\* The session and the context that the call goes on to access.
UsedSession(f) ==
    IF \/ f.pc \in {"dead", "origin", "release"}
       \/ f.op = "close" /\ f.pc \in {"clear", "destroy"}
    THEN NULL ELSE f.s
UsedCtx(f) ==
    IF f.pc \in {"opened", "begin"} THEN sess[f.s].ctx
    ELSE IF \/ f.pc \in {"loading", "setbusy", "enter", "run", "clear", "after",
                         "unlink", "refc", "release", "destroyctx", "destroy"}
            \/ f.op = "open" /\ f.pc = "put"
    THEN f.c ELSE NULL

\* All calls of all threads.
CallsIn == UNION {{<<t, i>> : i \in DOMAIN stack[t]} : t \in Threads}
CallsThat(P(_)) == {x \in CallsIn : P(stack[x[1]][x[2]])}

\* A call other than the innermost one of t goes on to access the session s, or
\* the context c, or a session other than r refers to c.
SessionUsed(t, s) ==
    CallsThat(LAMBDA f : UsedSession(f) = s) \ {<<t, 1>>} # {}
CtxUsed(t, c, r) ==
    \/ CallsThat(LAMBDA f : UsedCtx(f) = c) \ {<<t, 1>>} # {}
    \/ \E s \in Sessions \ {r} : sess[s] # NULL /\ sess[s].ctx = c

\* The innermost call of t is at label l and t does not wait.
At(t, l) ==
    /\ stack[t] # <<>>
    /\ Top(t).pc = l
    /\ wait[t] = NULL

\* The innermost call becomes f, calls f, or returns.
Become(t, f) == stack' = [stack EXCEPT ![t] = <<f>> \o Tail(@)]
Goto(t, l) == Become(t, [Top(t) EXCEPT !.pc = l])
Calling(t, f, g) == stack' = [stack EXCEPT ![t] = <<g, f>> \o Tail(@)]
Return(t) == stack' = [stack EXCEPT ![t] = Tail(@)]

\* condvar_wait(), condvar_signal() and condvar_broadcast().  Signalling ends
\* the wait of one thread, if there is one.
WaitFor(t, cv) == wait' = [wait EXCEPT ![t] = cv]
Waiters(cv) == {u \in Threads : wait[u] = cv}
Signal(cv) == IF Waiters(cv) = {} THEN {{}} ELSE {{u} : u \in Waiters(cv)}
Wake(W) == wait' = [u \in Threads |-> IF u \in W THEN NULL ELSE wait[u]]

\* The core stops: an assertion or panic(), or memory is freed that is still
\* used, or a TA is used that is being loaded, after which no behaviour is
\* modelled.
Stop(why) ==
    /\ fault' = why
    /\ UNCHANGED <<sess, ctxs, heads, ctxes, single, stack, wait>>

\* tee_ta_close_session() for the session s of the list h.
CloseCall(h, s) == [op |-> "close", pc |-> "get", h |-> h, ta |-> NULL,
                    s |-> s, c |-> NULL, res |-> "none"]

-----------------------------------------------------------------------------
(* Lists.                                                                  *)

\* tee_ta_find_session_nolock() looks for the first session with this id.
Find(h, id) == {i \in DOMAIN heads[h] : sess[heads[h][i]].id = id}

\* TAILQ_REMOVE().
Without(q, e) ==
    IF e \in Range(q) THEN RemoveAt(q, CHOOSE i \in DOMAIN q : q[i] = e) ELSE q

\* Mutant: the id after the one of the last session, used or not.
NewIdNext(h, id) ==
    id = IF heads[h] = <<>> THEN 1 ELSE (sess[Last(heads[h])].id % IdMax) + 1

\* new_session_id(): the first unused id after the one of the last session,
\* going round past IdMax; 0 is not an id.
NewId(h, id) ==
    LET start == IF heads[h] = <<>> THEN 1
                 ELSE (sess[Last(heads[h])].id % IdMax) + 1
        Nth(k) == ((start - 1 + k) % IdMax) + 1
    IN  \E k \in 0..(IdMax - 1) :
            /\ id = Nth(k)
            /\ Find(h, id) = {}
            /\ \A j \in 0..(k - 1) : Find(h, Nth(j)) # {}

\* tee_ta_context_find(): the first context of the TA.
CtxFind(ta) ==
    LET found == {i \in DOMAIN ctxes : ctxs[ctxes[i]].ta = ta}
    IN  IF found = {} THEN NULL ELSE ctxes[Min(found)]

\* Mutant: the signal comes with the last reference, not with the last but one.
RefSignalLast(s) == IF sess[s].ref = 1 THEN Signal(<<"refc", s>>) ELSE {{}}

\* The part of dec_session_ref_count() that signals.
RefSignal(s) == IF sess[s].ref = 2 THEN Signal(<<"refc", s>>) ELSE {{}}

\* Mutant: the session is unlocked whoever locked it.
PutSessionUnlocks(t, s, S) ==
    /\ sess' = [S EXCEPT ![s].ref = @ - 1, ![s].lock = NULL]
    /\ \E V \in Signal(<<"lock", s>>), W \in RefSignal(s) : Wake(V \cup W)

\* tee_ta_put_session() of the thread t on the sessions S, the woken threads
\* being W.
PutSession(t, s, S) ==
    /\ sess' = [S EXCEPT ![s].ref = @ - 1,
                         ![s].lock = IF @ = t THEN NULL ELSE @]
    /\ \E V \in IF sess[s].lock = t THEN Signal(<<"lock", s>>) ELSE {{}},
          W \in RefSignal(s) : Wake(V \cup W)

-----------------------------------------------------------------------------
(* Opening a session.                                                      *)

\* The owner of the list h may call: normal world with a thread that is free,
\* a TA with the thread that runs it.
MayCall(t, h) ==
    IF stack[t] = <<>> THEN h = NSEC ELSE At(t, "run") /\ Top(t).c = h

\* tee_ta_init_session_with_context() for the call f of t, the sessions being
\* S: join the TA's single instance, wait until it is initialized, load a new
\* instance, or give up because the TA accepts one session only.
InitWithContext(t, f, rest, S) ==
    LET c == CtxFind(f.ta)
        verdict == IF c = NULL THEN "load"
                   ELSE IF ctxs[c].init THEN "init"
                   ELSE IF f.ta \notin Single THEN "load"
                   ELSE IF f.ta \notin MultiSession /\ ctxs[c].ref > 0 THEN "fail"
                   ELSE "opened"
    IN  /\ stack' = [stack EXCEPT ![t] = <<[f EXCEPT !.pc = verdict]>> \o rest]
        /\ ctxs' = IF verdict = "opened" THEN [ctxs EXCEPT ![c].ref = @ + 1] ELSE ctxs
        /\ sess' = IF verdict = "opened" THEN [S EXCEPT ![f.s].ctx = c] ELSE S
        /\ wait' = IF verdict = "init" THEN [wait EXCEPT ![t] = <<"init", NULL>>]
                   ELSE wait

\* tee_ta_open_session() is called: the first section of tee_ta_init_session().
Open(t, h, ta, s) ==
    /\ MayCall(t, h)
    /\ IF h = NSEC THEN ta \in Clients ELSE <<ctxs[h].ta, ta>> \in Calls
    /\ sess[s] = NULL
    /\ \E id \in Ids :
         /\ NewId(h, id)
         /\ InitWithContext(t,
              [op |-> "open", pc |-> "init", h |-> h, ta |-> ta,
               s |-> s, c |-> NULL, res |-> "none"],
              stack[t],
              [sess EXCEPT ![s] = [id |-> id, ctx |-> NULL, ref |-> 1, lock |-> NULL,
                                   unlink |-> FALSE, cancel |-> FALSE,
                                   told |-> FALSE]])
    /\ heads' = [heads EXCEPT ![h] = Append(@, s)]
    /\ UNCHANGED <<ctxes, single, fault>>

\* The wait for tee_ta_init_cv is over: look for the context again.
OpenRetry(t) ==
    /\ At(t, "init")
    /\ InitWithContext(t, Top(t), Tail(stack[t]), sess)
    /\ UNCHANGED <<heads, ctxes, single, fault>>

\* tee_ta_init_user_ta_session(): a new context, not initialized yet ...
LoadStart(t, c) ==
    /\ At(t, "load")
    /\ ctxs[c] = NULL
    /\ ctxs' = [ctxs EXCEPT ![c] = [ta |-> Top(t).ta, ref |-> 1, busy |-> FALSE,
                                    panicked |-> FALSE, init |-> TRUE]]
    /\ ctxes' = Append(ctxes, c)
    /\ sess' = [sess EXCEPT ![Top(t).s].ctx = c]
    /\ Become(t, [Top(t) EXCEPT !.pc = "loading", !.c = c])
    /\ UNCHANGED <<heads, single, wait, fault>>

\* ... or none, without memory.
LoadNone(t) ==
    /\ At(t, "load")
    /\ Goto(t, "fail")
    /\ UNCHANGED <<sess, ctxs, heads, ctxes, single, wait, fault>>

\* ldelf has loaded the TA.
Loaded(t) ==
    /\ At(t, "loading")
    /\ ctxs' = [ctxs EXCEPT ![Top(t).c].init = FALSE]
    /\ Wake(Waiters(<<"init", NULL>>))
    /\ Goto(t, "opened")
    /\ UNCHANGED <<sess, heads, ctxes, single, fault>>

\* It has not: the context is removed and freed.
LoadFails(t) ==
    /\ At(t, "loading")
    /\ sess' = [sess EXCEPT ![Top(t).s].ctx = NULL]
    /\ ctxes' = Without(ctxes, Top(t).c)
    /\ ctxs' = [ctxs EXCEPT ![Top(t).c] = NULL]
    /\ Wake(Waiters(<<"init", NULL>>))
    /\ Become(t, [Top(t) EXCEPT !.pc = "fail", !.c = NULL])
    /\ UNCHANGED <<heads, single, fault>>

\* tee_ta_init_session() fails: the session is removed and freed.
OpenFails(t) ==
    /\ At(t, "fail")
    /\ IF SessionUsed(t, Top(t).s) THEN Stop("freed")
       ELSE /\ heads' = [heads EXCEPT ![Top(t).h] = Without(@, Top(t).s)]
            /\ sess' = [sess EXCEPT ![Top(t).s] = NULL]
            /\ Return(t)
            /\ UNCHANGED <<ctxs, ctxes, single, wait, fault>>

\* tee_ta_open_session() with an initialized session: a context that has gone
\* or panicked in the meantime makes it close the session.
Opened(t) ==
    /\ At(t, "opened")
    /\ LET c == sess[Top(t).s].ctx
           f == [Top(t) EXCEPT !.c = c]
       IN  IF c = NULL \/ ctxs[c].panicked
           THEN Calling(t, [f EXCEPT !.pc = "dead"], CloseCall(f.h, f.s))
           ELSE Become(t, [f EXCEPT !.pc = "setbusy"])
    /\ UNCHANGED <<sess, ctxs, heads, ctxes, single, wait, fault>>

\* After the TA's entry point: give the reference back, and close the session
\* if the TA refused it or panicked.
OpenPut(t) ==
    /\ At(t, "put")
    /\ Top(t).op = "open"
    /\ LET f == Top(t)
           res == IF ctxs[f.c].panicked THEN "panicked" ELSE f.res
       IN  /\ PutSession(t, f.s, [sess EXCEPT ![f.s].told = res = "ok"])
           /\ IF res = "ok" THEN Return(t)
              ELSE Calling(t, [f EXCEPT !.pc = "origin", !.res = res],
                           CloseCall(f.h, f.s))
    /\ UNCHANGED <<ctxs, heads, ctxes, single, fault>>

\* The end of an open that failed.
OpenEnd(t) ==
    /\ At(t, "dead") \/ At(t, "origin")
    /\ Return(t)
    /\ UNCHANGED <<sess, ctxs, heads, ctxes, single, wait, fault>>

-----------------------------------------------------------------------------
(* Finding and locking a session.                                          *)

\* The sessions whose ids the owner of the list h uses.
Known(h) == {s \in Range(heads[h]) : AnyId \/ sess[s].told}

\* tee_ta_get_session() finds s: the call f of t takes a reference, and locks
\* the session or waits for its lock.
Get(t, f, rest, s) ==
    /\ ~sess[s].unlink
    /\ LET free == sess[s].lock = NULL
       IN  /\ sess' = [sess EXCEPT ![s].ref = @ + 1,
                                   ![s].lock = IF free THEN t ELSE @]
           /\ stack' = [stack EXCEPT ![t] =
                <<[f EXCEPT !.s = s, !.pc = IF free THEN "begin" ELSE "lock"]>> \o rest]
           /\ wait' = IF free THEN wait ELSE [wait EXCEPT ![t] = <<"lock", s>>]
    /\ UNCHANGED <<ctxs, heads, ctxes, single, fault>>

\* entry_invoke_command() and syscall_invoke_ta_command() with the id of a
\* session; nothing happens if it is being unlinked.
Invoke(t, h, s) ==
    /\ MayCall(t, h)
    /\ s \in Known(h)
    /\ sess[s].lock # t
    /\ Get(t, [CloseCall(h, s) EXCEPT !.op = "invoke"], stack[t], s)

\* assert(s->lock_thread != thread_get_id()): the TA was called, directly or
\* not, in a session of its own that it now uses again.
InvokeAgain(t, h, s) ==
    /\ MayCall(t, h)
    /\ s \in Known(h)
    /\ sess[s].lock = t /\ ~sess[s].unlink
    /\ Stop("assert")

\* entry_close_session() and syscall_close_ta_session(): tee_ta_find_session().
\* Unless AnyId, a client closes a session once.
Close(t, h, s) ==
    /\ MayCall(t, h)
    /\ s \in Known(h)
    /\ ~AnyId => \A u \in Threads : \A i \in DOMAIN stack[u] :
                     ~(stack[u][i].op = "close" /\ stack[u][i].s = s)
    /\ stack' = [stack EXCEPT ![t] = <<CloseCall(h, heads[h][Min(Find(h, sess[s].id))])>> \o @]
    /\ UNCHANGED <<sess, ctxs, heads, ctxes, single, wait, fault>>

\* tee_ta_close_session(): look the session up again, now with its lock.
CloseGet(t) ==
    /\ At(t, "get")
    /\ LET list == heads[Top(t).h]
           found == {i \in Find(Top(t).h, sess[Top(t).s].id) : ~sess[list[i]].unlink}
           s == list[Min(found)]
       IN  IF found = {}
           THEN Return(t) /\ UNCHANGED <<sess, ctxs, heads, ctxes, single, wait, fault>>
           ELSE IF sess[s].lock = t THEN Stop("assert")
           ELSE Get(t, Top(t), Tail(stack[t]), s)

\* Mutant: a thread that finds the session unlinked keeps its reference.
LockLeaks(t) ==
    /\ At(t, "lock")
    /\ sess[Top(t).s].unlink
    /\ Return(t)
    /\ UNCHANGED <<sess, ctxs, heads, ctxes, single, wait, fault>>

\* The wait for lock_cv is over.
Lock(t) ==
    /\ At(t, "lock")
    /\ LET s == Top(t).s
       IN  \/ /\ sess[s].unlink
              /\ sess' = [sess EXCEPT ![s].ref = @ - 1]
              /\ \E W \in RefSignal(s) : Wake(W)
              /\ Return(t)
           \/ /\ ~sess[s].unlink /\ sess[s].lock # NULL
              /\ WaitFor(t, <<"lock", s>>)
              /\ UNCHANGED <<sess, stack>>
           \/ /\ ~sess[s].unlink /\ sess[s].lock = NULL
              /\ sess' = [sess EXCEPT ![s].lock = t]
              /\ Goto(t, "begin")
              /\ UNCHANGED wait
    /\ UNCHANGED <<ctxs, heads, ctxes, single, fault>>

\* entry_cancel(): take a reference without the lock ...
CancelGet(t, s) ==
    /\ stack[t] = <<>>
    /\ s \in Known(NSEC)
    /\ ~sess[s].unlink
    /\ sess' = [sess EXCEPT ![s].ref = @ + 1]
    /\ stack' = [stack EXCEPT ![t] =
                   <<[CloseCall(NSEC, s) EXCEPT !.op = "cancel", !.pc = "cancel"]>>]
    /\ UNCHANGED <<ctxs, heads, ctxes, single, wait, fault>>

\* ... tee_ta_cancel_command(), and give it back.
Cancel(t) ==
    /\ At(t, "cancel")
    /\ PutSession(t, Top(t).s, [sess EXCEPT ![Top(t).s].cancel = TRUE])
    /\ Return(t)
    /\ UNCHANGED <<ctxs, heads, ctxes, single, fault>>

-----------------------------------------------------------------------------
(* The busy flag and the single instance lock.                             *)

\* TAs without TA_FLAG_CONCURRENT are entered by one thread at a time.
TaOf(f) == ctxs[f.c].ta

\* Mutant: any unlock gives the lock away.
UnlockedSingleAll == [owner |-> NULL, count |-> single.count - 1]

\* lock_single_instance() and unlock_single_instance() by t, which may do so.
MayLockSingle(t) == single.owner \in {NULL, t}
LockedSingle(t) == [owner |-> t, count |-> single.count + 1]
UnlockedSingle == [owner |-> IF single.count = 1 THEN NULL ELSE single.owner,
                   count |-> single.count - 1]
UnlockSignal == IF single.count = 1 THEN Signal(<<"single", NULL>>) ELSE {{}}

\* has_single_instance_lock() where tee_ta_try_set_busy() asks for it.
HasSingleLock(t) ==
    IF TaOf(Top(t)) \in Single THEN MayLockSingle(t) ELSE single.owner = t

SetBusyConcurrent(t) ==
    /\ At(t, "setbusy")
    /\ TaOf(Top(t)) \in Concurrent
    /\ Goto(t, "enter")
    /\ UNCHANGED <<sess, ctxs, heads, ctxes, single, wait, fault>>

\* tee_ta_try_set_busy() waits for the single instance lock or, only if the
\* thread has no single instance lock, for the TA.
WaitBusy(t) ==
    /\ At(t, "setbusy")
    /\ TaOf(Top(t)) \notin Concurrent
    /\ ~HasSingleLock(t)
    /\ TaOf(Top(t)) \in Single \/ ctxs[Top(t).c].busy
    /\ WaitFor(t, IF TaOf(Top(t)) \in Single THEN <<"single", NULL>>
                  ELSE <<"busy", Top(t).c>>)
    /\ UNCHANGED <<sess, ctxs, heads, ctxes, single, stack, fault>>

\* Mutant: a busy TA is entered.
SetBusyAgain(t) ==
    /\ At(t, "setbusy")
    /\ TaOf(Top(t)) \notin Concurrent
    /\ TaOf(Top(t)) \in Single => MayLockSingle(t)
    /\ ctxs' = [ctxs EXCEPT ![Top(t).c].busy = TRUE]
    /\ single' = IF TaOf(Top(t)) \in Single THEN LockedSingle(t) ELSE single
    /\ Goto(t, "enter")
    /\ UNCHANGED <<sess, heads, ctxes, wait, fault>>

\* It succeeds.
SetBusy(t) ==
    /\ At(t, "setbusy")
    /\ TaOf(Top(t)) \notin Concurrent
    /\ TaOf(Top(t)) \in Single => MayLockSingle(t)
    /\ ~ctxs[Top(t).c].busy
    /\ ctxs' = [ctxs EXCEPT ![Top(t).c].busy = TRUE]
    /\ single' = IF TaOf(Top(t)) \in Single THEN LockedSingle(t) ELSE single
    /\ Goto(t, "enter")
    /\ UNCHANGED <<sess, heads, ctxes, wait, fault>>

\* It fails: waiting could be for ever.  An open goes on with an error, for
\* the others tee_ta_set_busy() panics.  A lock that was free before is taken
\* and released again.
BusyRefused(t) ==
    /\ At(t, "setbusy")
    /\ TaOf(Top(t)) \notin Concurrent
    /\ HasSingleLock(t)
    /\ ctxs[Top(t).c].busy
    /\ IF Top(t).op = "open"
       THEN /\ Become(t, [Top(t) EXCEPT !.pc = "put", !.res = "busy"])
            /\ \E W \in IF single.owner = NULL THEN Signal(<<"single", NULL>>) ELSE {{}} :
                   Wake(W)
            /\ UNCHANGED <<sess, ctxs, heads, ctxes, single, fault>>
       ELSE Stop("panic")

\* tee_ta_clear_busy().
ClearBusy(t) ==
    /\ At(t, "clear")
    /\ LET f == Top(t)
           next == CASE f.op = "open" -> "put"
                     [] f.op = "invoke" -> "after"
                     [] f.op = "close" -> "release"
       IN  /\ Goto(t, next)
           /\ IF TaOf(f) \in Concurrent
              THEN UNCHANGED <<ctxs, single, wait>>
              ELSE /\ ctxs' = [ctxs EXCEPT ![f.c].busy = FALSE]
                   /\ single' = IF TaOf(f) \in Single THEN UnlockedSingle ELSE single
                   /\ \E V \in Signal(<<"busy", f.c>>),
                         W \in IF TaOf(f) \in Single THEN UnlockSignal ELSE {{}} :
                            Wake(V \cup W)
    /\ UNCHANGED <<sess, heads, ctxes, fault>>

-----------------------------------------------------------------------------
(* Entering the TA and invoking a command.                                 *)

\* check_client(): a TA that uses a session of its list is refused as long as the
\* open has not stored whose it is.  The core's own closes are not refused.
Stranger(t) ==
    /\ Top(t).h # NSEC
    /\ stack[t][2].pc = "run"
    /\ CallsThat(LAMBDA f : /\ f.op = "open" /\ f.s = Top(t).s
                            /\ f.pc \in {"init", "load", "loading", "fail", "opened"}) # {}

Refused(t) ==
    /\ At(t, "begin")
    /\ Stranger(t)
    /\ PutSession(t, Top(t).s, sess)
    /\ Return(t)
    /\ UNCHANGED <<ctxs, heads, ctxes, single, fault>>

\* The context of the session is being loaded: its flags and its entry point are
\* not known yet, and ldelf runs in it.
LoadingCtx(s) == sess[s].ctx # NULL /\ ctxs[sess[s].ctx].init

BeginLoading(t) ==
    /\ At(t, "begin")
    /\ ~Stranger(t)
    /\ LoadingCtx(Top(t).s)
    /\ Stop("init")

\* The context of a locked session: gone, panicked, or to be entered.
Begin(t) ==
    /\ At(t, "begin")
    /\ ~Stranger(t) /\ ~LoadingCtx(Top(t).s)
    /\ LET f == [Top(t) EXCEPT !.c = sess[Top(t).s].ctx]
       IN  Become(t, [f EXCEPT !.pc =
             IF f.c # NULL /\ ~ctxs[f.c].panicked THEN "setbusy"
             ELSE IF f.op = "close" THEN "unlink"
             ELSE IF f.c = NULL THEN "put" ELSE "destroyctx"])
    /\ UNCHANGED <<sess, ctxs, heads, ctxes, single, wait, fault>>

\* syscall_recursion of the thread.
Recursion(t) == Len(SelectSeq(stack[t], LAMBDA f : f.pc = "run"))

\* user_ta_enter().
Enter(t) ==
    /\ At(t, "enter")
    /\ Recursion(t) < MaxRecursion
    /\ Goto(t, "run")
    /\ UNCHANGED <<sess, ctxs, heads, ctxes, single, wait, fault>>

\* The call comes back from user_ta_enter() with a result; the session's
\* cancellation is cleared.
Leave(t, res) ==
    /\ Become(t, [Top(t) EXCEPT !.res = res,
                    !.pc = IF Top(t).op = "close" THEN "unlink" ELSE "clear"])
    /\ sess' = [sess EXCEPT ![Top(t).s].cancel = FALSE]
    /\ UNCHANGED <<heads, ctxes, single, wait, fault>>

\* inc_recursion() refuses.
EnterTooDeep(t) ==
    /\ At(t, "enter")
    /\ Recursion(t) >= MaxRecursion
    /\ Leave(t, "error")
    /\ UNCHANGED ctxs

\* The TA returns: it may refuse a session.  thread_enter_user_mode() writes
\* the panicked flag in either case.
TaReturns(t) ==
    /\ At(t, "run")
    /\ \E res \in IF Top(t).op = "open" THEN {"ok", "error"} ELSE {"ok"} : Leave(t, res)
    /\ ctxs' = [ctxs EXCEPT ![Top(t).c].panicked = FALSE]

TaPanics(t) ==
    /\ TaMayPanic
    /\ At(t, "run")
    /\ Leave(t, "error")
    /\ ctxs' = [ctxs EXCEPT ![Top(t).c].panicked = TRUE]

\* After tee_ta_clear_busy() of an invoke: a panicked context is destroyed.
AfterPanic(t) ==
    /\ At(t, "after")
    /\ ctxs[Top(t).c].panicked
    /\ Become(t, [Top(t) EXCEPT !.pc = "destroyctx", !.c = sess[Top(t).s].ctx])
    /\ UNCHANGED <<sess, ctxs, heads, ctxes, single, wait, fault>>

\* tee_ta_put_session() at the end of an invoke.
InvokeEnd(t) ==
    /\ \/ At(t, "put") /\ Top(t).op = "invoke"
       \/ At(t, "after") /\ ~ctxs[Top(t).c].panicked
    /\ PutSession(t, Top(t).s, sess)
    /\ Return(t)
    /\ UNCHANGED <<ctxs, heads, ctxes, single, fault>>

-----------------------------------------------------------------------------
(* Closing a session and destroying a context.                             *)

\* The session has no other reference: remove and free it.
FreeSession(t) ==
    LET f == Top(t)
    IN  IF SessionUsed(t, f.s) THEN Stop("freed")
        ELSE /\ heads' = [heads EXCEPT ![f.h] = Without(@, f.s)]
             /\ sess' = [sess EXCEPT ![f.s] = NULL]
             /\ IF f.c = NULL THEN Return(t)
                ELSE Goto(t, IF f.res = "none" THEN "release" ELSE "clear")
             /\ Wake(Waiters(<<"lock", f.s>>))
             /\ UNCHANGED <<ctxs, ctxes, single, fault>>


\* tee_ta_unlink_session().
Unlink(t) ==
    /\ At(t, "unlink")
    /\ LET s == Top(t).s
       IN  IF sess[s].ref < 1 \/ sess[s].lock # t \/ sess[s].unlink
           THEN Stop("assert")
           ELSE IF sess[s].ref = 1 THEN FreeSession(t)
           ELSE /\ sess' = [sess EXCEPT ![s].unlink = TRUE]
                /\ wait' = [u \in Threads |->
                              IF u = t THEN <<"refc", s>>
                              ELSE IF wait[u] = <<"lock", s>> THEN NULL ELSE wait[u]]
                /\ Goto(t, "refc")
                /\ UNCHANGED <<ctxs, heads, ctxes, single, fault>>

\* The wait for refc_cv is over.
UnlinkWait(t) ==
    /\ At(t, "refc")
    /\ IF sess[Top(t).s].ref = 1 THEN FreeSession(t)
       ELSE /\ WaitFor(t, <<"refc", Top(t).s>>)
            /\ UNCHANGED <<sess, ctxs, heads, ctxes, single, stack, fault>>

\* Mutant: a session that is not the last one keeps its reference.
ReleaseLastOnly(t) ==
    /\ At(t, "release")
    /\ ctxs[Top(t).c].ref > 1
    /\ Return(t)
    /\ UNCHANGED <<sess, ctxs, heads, ctxes, single, wait, fault>>

\* The end of tee_ta_close_session(): the session's reference on the context.
Release(t) ==
    /\ At(t, "release")
    /\ LET c == Top(t).c
           k == ctxs[c]
       IN  IF k.ref = 0 THEN Stop("panic")
           ELSE /\ ctxs' = [ctxs EXCEPT ![c].ref = @ - 1]
                /\ IF k.ref = 1 /\ k.ta \notin KeepAlive \cap Single
                   THEN ctxes' = Without(ctxes, c) /\ Goto(t, "destroy")
                   ELSE UNCHANGED ctxes /\ Return(t)
                /\ UNCHANGED <<sess, heads, single, wait, fault>>

\* Mutant: the caller's session is met in its list and counted again.
RefsToAll(f) ==
    {s \in UNION {Range(heads[h]) : h \in {NSEC} \cup Range(ctxes)} :
        sess[s].ctx = f.c}

\* The sessions in the lists that refer to the context, except the caller's.
RefsTo(f) ==
    {s \in UNION {Range(heads[h]) : h \in {NSEC} \cup Range(ctxes)} :
        s # f.s /\ sess[s].ctx = f.c}

\* destroy_ta_ctx_from_session(), the section: no session refers to the context
\* any more, except the caller's.  Without a context ts_to_ta_ctx() stops.
DestroyTaCtx(t) ==
    /\ At(t, "destroyctx")
    /\ LET f == Top(t)
           refs == RefsTo(f)
       IN  CASE f.c = NULL -> Stop("panic")
             [] f.c # NULL /\ Cardinality(refs) + 1 # ctxs[f.c].ref -> Stop("count")
             [] OTHER ->
                  /\ sess' = [s \in Sessions |->
                        IF s \in refs THEN [sess[s] EXCEPT !.ctx = NULL] ELSE sess[s]]
                  /\ ctxes' = Without(ctxes, f.c)
                  /\ Goto(t, "destroy")
                  /\ UNCHANGED <<ctxs, heads, single, wait, fault>>

\* Mutant: the session keeps its context.
DestroyContextStale(t) ==
    /\ At(t, "destroy")
    /\ Top(t).op # "close"
    /\ ctxs' = [ctxs EXCEPT ![Top(t).c] = NULL]
    /\ Goto(t, "put")
    /\ UNCHANGED <<sess, heads, ctxes, single, wait, fault>>

\* destroy_context(): close the sessions that the TA has opened, one by one,
\* and free the context.
DestroyContext(t) ==
    /\ At(t, "destroy")
    /\ LET f == Top(t)
       IN  IF Waiters(<<"busy", f.c>>) # {} THEN Stop("condvar")
           ELSE IF heads[f.c] # <<>>
           THEN /\ Calling(t, f, CloseCall(f.c, Head(heads[f.c])))
                /\ UNCHANGED <<sess, ctxs, heads, ctxes, single, wait, fault>>
           ELSE IF CtxUsed(t, f.c, f.s) THEN Stop("freed")
           ELSE /\ ctxs' = [ctxs EXCEPT ![f.c] = NULL]
                /\ IF f.op = "close" THEN Return(t) /\ UNCHANGED sess
                   ELSE /\ Become(t, [f EXCEPT !.pc = "put", !.c = NULL])
                        /\ sess' = [sess EXCEPT ![f.s].ctx = NULL]
                /\ UNCHANGED <<heads, ctxes, single, wait, fault>>

-----------------------------------------------------------------------------
\* What normal world and the TAs ask for.
Request(t) ==
    \/ \E h \in Heads, ta \in TAs, s \in Sessions : Open(t, h, ta, s)
    \/ \E h \in Heads, s \in Sessions :
           Invoke(t, h, s) \/ InvokeAgain(t, h, s) \/ Close(t, h, s)
    \/ \E s \in Sessions : CancelGet(t, s)

\* The steps of a call in the core.
Progress(t) ==
    \/ OpenRetry(t) \/ (\E c \in Ctxs : LoadStart(t, c)) \/ LoadNone(t)
    \/ Loaded(t) \/ LoadFails(t) \/ OpenFails(t) \/ Opened(t) \/ OpenPut(t)
    \/ OpenEnd(t)
    \/ CloseGet(t) \/ Lock(t) \/ Cancel(t)
    \/ SetBusyConcurrent(t) \/ WaitBusy(t) \/ SetBusy(t) \/ BusyRefused(t)
    \/ ClearBusy(t)
    \/ Refused(t) \/ BeginLoading(t) \/ Begin(t) \/ Enter(t) \/ EnterTooDeep(t)
    \/ AfterPanic(t) \/ InvokeEnd(t)
    \/ Unlink(t) \/ UnlinkWait(t) \/ Release(t) \/ DestroyTaCtx(t)
    \/ DestroyContext(t)

\* The TA leaves user mode for good.
TaDone(t) == TaReturns(t) \/ TaPanics(t)

Next ==
    /\ fault = "none"
    /\ \E t \in Threads : Request(t) \/ Progress(t) \/ TaDone(t)

Spec == Init /\ [][Next]_vars

\* A call in the core goes on, a TA returns.
Fairness ==
    \A t \in Threads : /\ WF_vars(fault = "none" /\ Progress(t))
                       /\ WF_vars(fault = "none" /\ TaReturns(t))

FairSpec == Spec /\ Fairness

-----------------------------------------------------------------------------
(* Safety.                                                                 *)

\* The call owns a reference of the session s.
OwnsSession(f, s) ==
    /\ f.s = s
    /\ CASE f.op = "open" -> f.pc # "origin"
         [] f.op = "cancel" -> TRUE
         [] f.op = "invoke" -> f.pc # "get"
         [] f.op = "close" -> f.pc \notin {"get", "clear", "release", "destroy"}

\* ref_count of a session is the number of calls that use it, so that a close
\* waits for all of them and for nothing else.
SessionRefExact ==
    \A s \in Sessions : sess[s] # NULL =>
        sess[s].ref = Cardinality(CallsThat(LAMBDA f : OwnsSession(f, s)))

\* A session that is locked is locked by the one call that works in it.
SessionExclusive ==
    \A s \in Sessions : sess[s] # NULL =>
        LET lockers == CallsThat(LAMBDA f : /\ f.op \in {"invoke", "close"}
                                            /\ f.pc # "lock"
                                            /\ OwnsSession(f, s))
        IN  {x[1] : x \in lockers} = {sess[s].lock} \ {NULL} /\ Cardinality(lockers) <= 1

\* ref_count of a context is the number of its sessions and of the closes that
\* have freed their session and not given back its reference.
CtxRefExact ==
    \A c \in Range(ctxes) :
        ctxs[c].ref =
            Cardinality({s \in Sessions : sess[s] # NULL /\ sess[s].ctx = c})
            + Cardinality(CallsThat(LAMBDA f : f.op = "close" /\ f.c = c
                                               /\ f.pc \in {"clear", "release"}))

\* The reference counters of sessions and contexts are exact.
CountersExact == TypeOK /\ SessionRefExact /\ CtxRefExact

\* The innermost call of t frees its session, or its context, with its next step.
FreesItsSession(t) ==
    /\ stack[t] # <<>> /\ wait[t] = NULL
    /\ \/ Top(t).pc = "fail"
       \/ Top(t).pc \in {"unlink", "refc"} /\ sess[Top(t).s].ref = 1
FreesItsCtx(t) == At(t, "destroy") /\ heads[Top(t).c] = <<>>

\* Everything that refers to a session or a context exists, and every session is
\* in one list, once.
ListsExact ==
    /\ \A s \in Sessions : sess[s] # NULL =>
          /\ sess[s].ctx # NULL => ctxs[sess[s].ctx] # NULL
          /\ Cardinality({x \in Heads \X (1..Cardinality(Sessions)) :
                x[2] \in DOMAIN heads[x[1]] /\ heads[x[1]][x[2]] = s}) = 1
    /\ \A h \in Heads : heads[h] # <<>> =>
          /\ \A s \in Range(heads[h]) : sess[s] # NULL
          /\ h # NSEC => ctxs[h] # NULL

\* A call other than the innermost one of t goes on to access the session s, and
\* is no close that has yet to look it up.
SessionOwned(t, s) ==
    CallsThat(LAMBDA f : UsedSession(f) = s /\ f.pc # "get") \ {<<t, 1>>} # {}

\* A close that finds one reference frees the session under no other call, except
\* that a second close of the session may have yet to look it up.
CloseAlone ==
    \A t \in Threads : FreesItsSession(t) /\ Top(t).op = "close" =>
        ~SessionOwned(t, Top(t).s)

\* tee_ta_unlink_session() and tee_ta_close_session(): a close frees its session when
\* no other call goes on to access it, except that a second close may have yet to
\* look it up, and it frees the context of which it gives back the last reference
\* when no call goes on to access it and no session refers to it.  If clients use
\* only ids that they were told of there is no second close, and an open that fails
\* is alone with its session; if no TA panics either, nothing at all is freed in use.
NoUseAfterFree ==
    /\ CloseAlone
    /\ ~AnyId => \A t \in Threads : FreesItsSession(t) => ~SessionUsed(t, Top(t).s)
    /\ \A t \in Threads : FreesItsCtx(t) /\ Top(t).op = "close" =>
          ~CtxUsed(t, Top(t).c, Top(t).s)
    /\ fault = "freed" => AnyId \/ TaMayPanic
    /\ ListsExact

\* tee_ta_manager.c:332, "Next two loops will remove all references to the context
\* which is about to be destroyed", and the reference of tee_ta_get_session() (246):
\* nothing is freed that another call goes on to access.
NothingFreed == fault # "freed"

\* user_ta.c:449, "Another thread trying to load this same TA may need to wait until
\* this context is fully initialized": no call works in a context before it is.
InitializedWhenUsed == fault # "init"

\* The call is between tee_ta_try_set_busy() and tee_ta_clear_busy() of c.
Inside(f, c) ==
    /\ f.c = c
    /\ \/ f.pc \in {"enter", "run", "clear"}
       \/ f.op = "close" /\ f.res # "none" /\ f.pc \in {"unlink", "refc"}

\* A TA that is not concurrent is entered by one call at a time, and it is
\* busy exactly then.
BusyExcludes ==
    \A c \in Ctxs :
        (ctxs[c] # NULL /\ ctxs[c].ta \notin Concurrent) =>
            Cardinality(CallsThat(LAMBDA f : Inside(f, c)))
                = IF ctxs[c].busy THEN 1 ELSE 0

\* The single instance lock belongs to the thread whose calls are in single
\* instance TAs, and counts them: at most one thread is in any such TA.
SingleLockExact ==
    LET inside == CallsThat(LAMBDA f : \E c \in Ctxs :
                      Inside(f, c) /\ ctxs[c].ta \in Single \ Concurrent)
    IN  /\ single.count = Cardinality(inside)
        /\ {x[1] : x \in inside} = {single.owner} \ {NULL}

\* The ids in a list differ, although ids are used again when the last session
\* of the list was closed and when the numbers are used up.
IdsNameSessions ==
    \A h \in Heads :
        \A s, r \in Range(heads[h]) : sess[s].id = sess[r].id => s = r

\* No assertion fails and nothing panics.
NoFault == fault = "none"

\* tee_ta_manager.c:369, assert(count == ctx->ref_count): the references to a
\* panicked context are the sessions in the lists.
PanickedRefsCounted == fault # "count"

\* user_ta.c:449, "Another thread trying to load this same TA may need to wait
\* until this context is fully initialized. This is needed to handle single
\* instance TAs": a single instance TA has one context.
SingleInstance ==
    \A c, d \in Range(ctxes) :
        ctxs[c].ta = ctxs[d].ta /\ ctxs[c].ta \in Single => c = d

\* tee_ta_manager.c:748, "Deadlock avoided": an open that meets a busy TA of its
\* own thread fails with TEE_ERROR_BUSY; the core goes on.
DeadlockAvoided ==
    fault = "panic" => \A x \in CallsIn : stack[x[1]][x[2]].res # "busy"

\* tee_ta_manager.c:760: the origin of a "regular" error of an open is the one
\* that the session recorded; the session still exists.
OriginFromSession ==
    \A t \in Threads :
        stack[t] # <<>> /\ Top(t).pc = "origin" /\ Top(t).res = "error" =>
            sess[Top(t).s] # NULL

\* user_ta.c:205: an operation that starts has no old cancellation pending, that
\* is, a session in which nothing runs has none.
NoOldCancellation ==
    \A s \in Sessions :
        sess[s] # NULL /\ sess[s].cancel => sess[s].ref > 0

-----------------------------------------------------------------------------
(* Liveness.                                                               *)

NoRequests == <>[][\A t \in Threads : ~Request(t)]_vars

\* If no new requests are made all calls return: no thread waits for the lock
\* of a session, a busy TA, the single instance lock, the initialization of a
\* context or the last reference of a session without being woken in the end.
CallsReturn ==
    NoRequests => \A t \in Threads : stack[t] # <<>> ~> stack[t] = <<>>

\* tee_ta_manager.c:503, "Close a Trusted Application and free available
\* resources": every tee_ta_close_session() ends.
ClosesEnd ==
    NoRequests =>
        \A t \in Threads :
            (stack[t] # <<>> /\ Top(t).op = "close")
                ~> (stack[t] = <<>> \/ Top(t).op # "close" \/ fault # "none")
=============================================================================
