----------------------------- MODULE ThreadRpc ------------------------------
(***************************************************************************)
(* The threads of the TEE core (arm/kernel/thread.c) and the shared memory *)
(* which normal world allocates for their RPC arguments                    *)
(* (arm/kernel/thread_optee_smc.c).                                        *)
(*                                                                         *)
(* A standard call gets a free thread.  An RPC or a foreign interrupt      *)
(* suspends it, the core returns to normal world, and normal world resumes *)
(* the thread on some core.  The memory for the arguments is allocated by  *)
(* the first RPC and freed when the call ends, or kept for the next calls  *)
(* if the cache is enabled.  Normal world, which allocates and frees the   *)
(* memory and answers the requests, is external.                           *)
(***************************************************************************)
EXTENDS Integers

CONSTANTS
    Cores,
    NumThreads,   \* CFG_NUM_THREADS
    Cookies,      \* references to shared memory
    NONE

\* The threads[] of the core, by index.
ThreadIds == 1..NumThreads

ASSUME ThreadRpcAssumption ==
    NumThreads \in Nat /\ NONE \notin ThreadIds /\ NONE \notin Cookies

VARIABLES
    curr,      \* curr_thread of each core
    state,     \* threads[n].state
    copy,      \* THREAD_FLAGS_COPY_ARGS_ON_RETURN
    args,      \* what normal world passed to the thread: its registers
    rpc,       \* threads[n].rpc_arg and rpc_mobj: the cookie, or NONE
    loc,       \* where the call of a thread is
    cache,     \* thread_prealloc_rpc_cache
    shm        \* cookies that normal world has allocated and not freed

rpcVars == <<curr, state, copy, args, rpc, loc, cache, shm>>

\* An answer to a request for memory: memory, memory that cannot be used, or none.
NoArgs == [co |-> NONE, ok |-> FALSE]

RpcTypeOK ==
    /\ curr \in [Cores -> ThreadIds \cup {NONE}]
    /\ state \in [ThreadIds -> {"free", "active", "suspended"}]
    /\ copy \in [ThreadIds -> BOOLEAN]
    /\ args \in [ThreadIds -> [co : Cookies \cup {NONE}, ok : BOOLEAN]]
    /\ rpc \in [ThreadIds -> Cookies \cup {NONE}]
    /\ loc \in [ThreadIds ->
                  {"entry", "run", "alloc", "giveup", "cmd", "release",
                   "exit"}]
    /\ cache \in BOOLEAN
    /\ shm \subseteq Cookies

RpcInit ==
    /\ curr = [k \in Cores |-> NONE]
    /\ state = [n \in ThreadIds |-> "free"]
    /\ copy = [n \in ThreadIds |-> FALSE]
    /\ args = [n \in ThreadIds |-> NoArgs]
    /\ rpc = [n \in ThreadIds |-> NONE]
    /\ loc = [n \in ThreadIds |-> "entry"]
    /\ cache = FALSE
    /\ shm = {}

AllFree == \A n \in ThreadIds : state[n] = "free"

Goes(n, l) == loc' = [loc EXCEPT ![n] = l]

-----------------------------------------------------------------------------
(* thread.c                                                                *)

\* __thread_alloc_and_run(); without a free thread the call is refused.
AllocAndRun(k) ==
    /\ curr[k] = NONE
    /\ \E n \in ThreadIds :
         /\ state[n] = "free" /\ \A m \in 1..(n - 1) : state[m] # "free"
         /\ state' = [state EXCEPT ![n] = "active"]
         /\ curr' = [curr EXCEPT ![k] = n]
         /\ copy' = [copy EXCEPT ![n] = FALSE]
         /\ Goes(n, "entry")
    /\ UNCHANGED <<args, rpc, cache, shm>>

\* thread_state_suspend(), for an RPC or a foreign interrupt.
Suspend(k, rpcFlag) ==
    LET n == curr[k]
    IN  /\ state' = [state EXCEPT ![n] = "suspended"]
        /\ copy' = [copy EXCEPT ![n] = @ \/ rpcFlag]
        /\ curr' = [curr EXCEPT ![k] = NONE]

ForeignIntr(k) ==
    /\ curr[k] # NONE
    /\ Suspend(k, FALSE)
    /\ UNCHANGED <<args, rpc, loc, cache, shm>>

\* What normal world does with the request of thread n, and its answer a.
Answers(n, a) ==
    CASE loc[n] = "alloc" ->
           /\ a.co \notin shm /\ (a.ok => a.co # NONE)
           /\ shm' = shm \cup ({a.co} \ {NONE})
      [] loc[n] = "giveup" -> a = NoArgs /\ shm' = shm \ {args[n].co}
      [] loc[n] = "release" -> a = NoArgs /\ shm' = shm \ {rpc[n]}
      [] OTHER -> a = NoArgs /\ shm' = shm

\* Mutant: a thread that was interrupted is resumed with new registers as well.
ResumeFromRpcCopies(k, n, a) ==
    /\ curr[k] = NONE
    /\ state[n] = "suspended"
    /\ IF copy[n] THEN Answers(n, a) ELSE a = NoArgs /\ UNCHANGED shm
    /\ args' = [args EXCEPT ![n] = a]
    /\ copy' = [copy EXCEPT ![n] = FALSE]
    /\ state' = [state EXCEPT ![n] = "active"]
    /\ curr' = [curr EXCEPT ![k] = n]
    /\ UNCHANGED <<rpc, loc, cache>>

\* Mutant: a thread that runs can be resumed on another core.
ResumeFromRpcAny(k, n, a) ==
    /\ curr[k] = NONE
    /\ state[n] # "free"
    /\ \/ /\ copy[n]
          /\ Answers(n, a)
          /\ args' = [args EXCEPT ![n] = a]
       \/ /\ ~copy[n] /\ a = NoArgs
          /\ UNCHANGED <<args, shm>>
    /\ copy' = [copy EXCEPT ![n] = FALSE]
    /\ state' = [state EXCEPT ![n] = "active"]
    /\ curr' = [curr EXCEPT ![k] = n]
    /\ UNCHANGED <<rpc, loc, cache>>

\* thread_resume_from_rpc(): the answer is copied only after an RPC; a thread
\* that is not suspended is not resumed.
ResumeFromRpc(k, n, a) ==
    /\ curr[k] = NONE
    /\ state[n] = "suspended"
    /\ \/ /\ copy[n]
          /\ Answers(n, a)
          /\ args' = [args EXCEPT ![n] = a]
       \/ /\ ~copy[n] /\ a = NoArgs
          /\ UNCHANGED <<args, shm>>
    /\ copy' = [copy EXCEPT ![n] = FALSE]
    /\ state' = [state EXCEPT ![n] = "active"]
    /\ curr' = [curr EXCEPT ![k] = n]
    /\ UNCHANGED <<rpc, loc, cache>>

\* thread_state_free()
StateFree(k) ==
    /\ curr[k] # NONE /\ loc[curr[k]] = "exit"
    /\ state' = [state EXCEPT ![curr[k]] = "free"]
    /\ copy' = [copy EXCEPT ![curr[k]] = FALSE]
    /\ curr' = [curr EXCEPT ![k] = NONE]
    /\ UNCHANGED <<args, rpc, loc, cache, shm>>

-----------------------------------------------------------------------------
(* thread_optee_smc.c: the thread that runs on core k                      *)

At(k, l) == curr[k] # NONE /\ loc[curr[k]] = l

\* The thread posts a request to normal world and is suspended.
Rpc(k, l) ==
    /\ Suspend(k, TRUE)
    /\ Goes(curr[k], l)
    /\ UNCHANGED <<args, rpc, cache, shm>>

\* The thread goes on; what it was passed is not used any more.
Continue(k, l) ==
    /\ Goes(curr[k], l)
    /\ args' = [args EXCEPT ![curr[k]] = NoArgs]
    /\ UNCHANGED <<curr, state, copy, cache, shm>>

\* std_smc_entry(): a bad argument fails before anything is asked for.
StdSmcEntry(k) ==
    /\ At(k, "entry")
    /\ Continue(k, "run") \/ Continue(k, "exit")
    /\ UNCHANGED rpc

\* thread_rpc_cmd(): get_rpc_arg(), which asks for memory if the thread has none.
RpcCmd(k) ==
    /\ At(k, "run")
    /\ Rpc(k, IF rpc[curr[k]] = NONE THEN "alloc" ELSE "cmd")

\* thread_rpc_alloc_arg() has its answer; memory that it cannot use is freed.
AllocArg(k) ==
    /\ At(k, "alloc")
    /\ LET n == curr[k]
           a == args[n]
       IN  \/ a.ok /\ rpc' = [rpc EXCEPT ![n] = a.co] /\ Continue(k, "run")
           \/ ~a.ok /\ a.co = NONE /\ Continue(k, "run") /\ UNCHANGED rpc
           \/ ~a.ok /\ a.co # NONE /\ Rpc(k, "giveup")

\* A request other than for memory has been answered.
Answered(k) ==
    /\ At(k, "cmd") \/ At(k, "giveup")
    /\ Continue(k, "run")
    /\ UNCHANGED rpc

\* The call ends: without the cache the memory is freed.
StdSmcEnd(k) ==
    /\ At(k, "run")
    /\ LET co == rpc[curr[k]]
       IN  \/ ~cache /\ co # NONE /\ Rpc(k, "release")
           \/ (cache \/ co = NONE) /\ Continue(k, "exit") /\ UNCHANGED rpc

\* ... and the reference dropped.
Released(k) ==
    /\ At(k, "release")
    /\ rpc' = [rpc EXCEPT ![curr[k]] = NONE]
    /\ Continue(k, "exit")

-----------------------------------------------------------------------------
(* Fast calls                                                              *)

\* Mutant: only one thread's memory is handed out.
DisableCacheOnce(k) ==
    /\ curr[k] = NONE /\ AllFree
    /\ \/ \E n \in ThreadIds :
            /\ rpc[n] # NONE /\ \A m \in 1..(n - 1) : rpc[m] = NONE
            /\ shm' = shm \ {rpc[n]}
            /\ rpc' = [rpc EXCEPT ![n] = NONE]
            /\ cache' = FALSE
       \/ /\ \A n \in ThreadIds : rpc[n] = NONE
          /\ cache' = FALSE
          /\ UNCHANGED <<rpc, shm>>
    /\ UNCHANGED <<curr, state, copy, args, loc>>

\* thread_disable_prealloc_rpc_cache(): when all threads are free, one cookie is
\* handed out at each call, and normal world frees it; the last call disables
\* the cache.
DisableCache(k) ==
    /\ curr[k] = NONE /\ AllFree
    /\ \/ \E n \in ThreadIds :
            /\ rpc[n] # NONE /\ \A m \in 1..(n - 1) : rpc[m] = NONE
            /\ shm' = shm \ {rpc[n]}
            /\ rpc' = [rpc EXCEPT ![n] = NONE]
            /\ UNCHANGED cache
       \/ /\ \A n \in ThreadIds : rpc[n] = NONE
          /\ cache' = FALSE
          /\ UNCHANGED <<rpc, shm>>
    /\ UNCHANGED <<curr, state, copy, args, loc>>

\* thread_enable_prealloc_rpc_cache()
EnableCache(k) ==
    /\ curr[k] = NONE /\ AllFree
    /\ cache' = TRUE
    /\ UNCHANGED <<curr, state, copy, args, rpc, loc, shm>>

-----------------------------------------------------------------------------
Run(k) ==
    \/ StdSmcEntry(k) \/ RpcCmd(k) \/ AllocArg(k) \/ Answered(k)
    \/ StdSmcEnd(k) \/ Released(k) \/ StateFree(k)

Resume(n) ==
    \E k \in Cores, a \in [co : Cookies \cup {NONE}, ok : BOOLEAN] :
        ResumeFromRpc(k, n, a)

RpcNext ==
    \/ \E k \in Cores :
         \/ AllocAndRun(k) \/ ForeignIntr(k) \/ Run(k)
         \/ DisableCache(k) \/ EnableCache(k)
    \/ \E n \in ThreadIds : Resume(n)

RpcSpec == RpcInit /\ [][RpcNext]_rpcVars

-----------------------------------------------------------------------------
(* Safety.                                                                 *)

\* A thread is active if and only if one core, and only one, runs it, whatever
\* thread normal world asks to resume on which core.
ActiveIsRunning ==
    \A n \in ThreadIds :
        /\ state[n] = "active" <=> \E k \in Cores : curr[k] = n
        /\ \A j, k \in Cores : curr[j] = n /\ curr[k] = n => j = k

\* The memory that thread n has: for its arguments, until normal world has freed
\* it, and what it was given and has not looked at, or gives back.
Holds(n) ==
    {IF loc[n] = "release" /\ ~copy[n] THEN NONE ELSE rpc[n], args[n].co} \ {NONE}

\* The memory that normal world has allocated for arguments is that which the
\* threads have, each its own: none is lost, freed twice or freed in use.
MemoryAccounted ==
    /\ shm = UNION {Holds(n) : n \in ThreadIds}
    /\ \A m, n \in ThreadIds : m # n => Holds(m) \cap Holds(n) = {}

\* With the cache disabled a free thread keeps no memory, so that normal world may
\* end the sharing.
NothingKept == ~cache => \A n \in ThreadIds : state[n] = "free" => rpc[n] = NONE
=============================================================================
