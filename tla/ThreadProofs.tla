---------------------------- MODULE ThreadProofs ----------------------------
(***************************************************************************)
(* Proofs about what the threads share: ThreadRpc, for every number of     *)
(* cores, threads and cookies; RecursiveMutex, for every set of threads    *)
(* and every bound on the nesting; PgtCache, for every set of threads,     *)
(* contexts and tables and every number of slots.                          *)
(*                                                                         *)
(* ThreadRpc: that a thread is run by one core is inductive with the       *)
(* types.  That no memory is lost depends on where the answer of normal    *)
(* world can be while a thread is interrupted between its RPC and the use  *)
(* of the answer (CallOK), and that none is kept on what a call has when   *)
(* it ends (KeepOK).                                                       *)
(*                                                                         *)
(* PgtCache: what makes the properties inductive is who may be inside a    *)
(* context (CtxOK), which context the tables of a thread belong to at each *)
(* place of the code (AtOK, OwnOK), and which threads will tell those that *)
(* wait (WaitOK).                                                          *)
(***************************************************************************)
EXTENDS ThreadRpc, RecursiveMutex, PgtCache, ListLemmas, FiniteSetTheorems, TLAPS

\* Only a suspended thread waits for an answer, and a free one is not in a call.
FlagOK ==
    \A n \in ThreadIds :
        /\ copy[n] => state[n] = "suspended"
        /\ state[n] = "free" => loc[n] \in {"entry", "exit"}

\* What a thread has been passed, and whether it has memory, at each step.
CallOK ==
    \A n \in ThreadIds :
        /\ loc[n] \in {"alloc", "giveup"} => rpc[n] = NONE
        /\ loc[n] = "alloc" => IF copy[n] THEN args[n] = NoArgs
                               ELSE args[n].ok => args[n].co # NONE
        /\ loc[n] = "giveup" /\ ~copy[n] => args[n] = NoArgs
        /\ loc[n] \notin {"alloc", "giveup"} => args[n] = NoArgs

\* Without the cache a call begins and ends without memory.
KeepOK ==
    ~cache => \A n \in ThreadIds :
        state[n] = "free" \/ loc[n] \in {"entry", "exit"} => rpc[n] = NONE

Inv == RpcTypeOK /\ ActiveIsRunning /\ FlagOK /\ CallOK /\ KeepOK /\ MemoryAccounted

-----------------------------------------------------------------------------
(* A thread runs on one core.                                              *)

\* The part of the invariant that says who runs what.
RunInv == RpcTypeOK /\ ActiveIsRunning /\ FlagOK

\* The record that stands for no answer.
LEMMA NoArgsType == NoArgs \in [co : Cookies \cup {NONE}, ok : BOOLEAN]
  BY Zenon DEF NoArgs

\* Every step of normal world and of the threads keeps the types.
LEMMA TypeStep == ASSUME RpcTypeOK, [RpcNext]_rpcVars PROVE RpcTypeOK'
<1> USE NoArgsType DEF RpcTypeOK
<1>1. CASE UNCHANGED rpcVars
  BY <1>1 DEF rpcVars
<1>2. ASSUME NEW k \in Cores, AllocAndRun(k) PROVE RpcTypeOK'
  BY <1>2 DEF AllocAndRun, Goes
<1>3. ASSUME NEW k \in Cores, ForeignIntr(k) PROVE RpcTypeOK'
  BY <1>3 DEF ForeignIntr, Suspend
<1>4. ASSUME NEW k \in Cores, NEW l \in {"alloc", "giveup", "cmd", "release"},
             curr[k] \in ThreadIds, Rpc(k, l)
      PROVE  RpcTypeOK'
  BY <1>4 DEF Rpc, Suspend, Goes
<1>5. ASSUME NEW k \in Cores, NEW l \in {"run", "exit"}, curr[k] \in ThreadIds,
             Continue(k, l), rpc' \in [ThreadIds -> Cookies \cup {NONE}]
      PROVE  RpcTypeOK'
  BY <1>5 DEF Continue, Goes
<1>6. ASSUME NEW k \in Cores, Run(k) PROVE RpcTypeOK'
  <2>1. CASE StateFree(k)
    BY <2>1 DEF StateFree
  <2>2. ASSUME ~StateFree(k) PROVE curr[k] \in ThreadIds
    BY <1>6, <2>2 DEF Run, StdSmcEntry, RpcCmd, AllocArg, Answered, StdSmcEnd,
                      Released, At
  <2>3. CASE StdSmcEntry(k) \/ Answered(k)
    BY <1>5, <2>2, <2>1, <2>3 DEF StdSmcEntry, Answered
  <2>4. CASE RpcCmd(k)
    BY <1>4, <2>1, <2>2, <2>4 DEF RpcCmd
  <2>5. CASE AllocArg(k)
    BY <1>4, <1>5, <2>1, <2>2, <2>5 DEF AllocArg
  <2>6. CASE StdSmcEnd(k)
    BY <1>4, <1>5, <2>1, <2>2, <2>6 DEF StdSmcEnd
  <2>7. CASE Released(k)
    BY <1>5, <2>1, <2>2, <2>7 DEF Released
  <2> QED
    BY <1>6, <2>1, <2>3, <2>4, <2>5, <2>6, <2>7 DEF Run
<1>7. ASSUME NEW k \in Cores, DisableCache(k) PROVE RpcTypeOK'
  BY <1>7 DEF DisableCache
<1>8. ASSUME NEW k \in Cores, EnableCache(k) PROVE RpcTypeOK'
  BY <1>8 DEF EnableCache
<1>9. ASSUME NEW n \in ThreadIds, Resume(n) PROVE RpcTypeOK'
  <2>1. PICK k \in Cores, a \in [co : Cookies \cup {NONE}, ok : BOOLEAN] :
              ResumeFromRpc(k, n, a)
    BY <1>9, Zenon DEF Resume
  <2>2. shm' \subseteq Cookies
    BY <2>1 DEF ResumeFromRpc, Answers
  <2>3. args' \in [ThreadIds -> [co : Cookies \cup {NONE}, ok : BOOLEAN]]
    BY <2>1 DEF ResumeFromRpc
  <2> QED
    BY <2>1, <2>2, <2>3 DEF ResumeFromRpc
<1> QED
  BY <1>1, <1>2, <1>3, <1>6, <1>7, <1>8, <1>9 DEF RpcNext

\* The core k stops running its thread, whose state becomes s.
LEMMA LeaveStep ==
    ASSUME RpcTypeOK, ActiveIsRunning, FlagOK,
           NEW k \in Cores, curr[k] # NONE, NEW s \in {"free", "suspended"},
           state' = [state EXCEPT ![curr[k]] = s],
           curr' = [curr EXCEPT ![k] = NONE],
           s = "suspended" \/ copy' = [copy EXCEPT ![curr[k]] = FALSE],
           s = "free" \/ \A m \in ThreadIds \ {curr[k]} : copy'[m] = copy[m],
           s = "free" => loc[curr[k]] = "exit" /\ loc' = loc,
           s = "suspended" => \A m \in ThreadIds \ {curr[k]} : loc'[m] = loc[m]
    PROVE  ActiveIsRunning' /\ FlagOK'
<1>1. curr[k] \in ThreadIds /\ state[curr[k]] = "active"
  BY DEF RpcTypeOK, ActiveIsRunning
<1>2. ActiveIsRunning'
  BY <1>1, ThreadRpcAssumption DEF RpcTypeOK, ActiveIsRunning
<1>3. FlagOK'
  BY <1>1 DEF RpcTypeOK, FlagOK
<1> QED
  BY <1>2, <1>3

\* The core k, which ran nothing, begins to run the thread n.
LEMMA EnterStep ==
    ASSUME RpcTypeOK, ActiveIsRunning, FlagOK,
           NEW k \in Cores, curr[k] = NONE, NEW n \in ThreadIds, state[n] # "active",
           state' = [state EXCEPT ![n] = "active"],
           curr' = [curr EXCEPT ![k] = n],
           copy' = [copy EXCEPT ![n] = FALSE],
           \A m \in ThreadIds \ {n} : loc'[m] = loc[m]
    PROVE  ActiveIsRunning' /\ FlagOK'
<1>1. ActiveIsRunning'
  BY ThreadRpcAssumption DEF RpcTypeOK, ActiveIsRunning
<1>2. FlagOK'
  BY DEF RpcTypeOK, FlagOK
<1> QED
  BY <1>1, <1>2

\* A step that changes at most where the thread of core k is.
LEMMA StayStep ==
    ASSUME RpcTypeOK, ActiveIsRunning, FlagOK, UNCHANGED <<curr, state, copy>>,
           \/ loc' = loc
           \/ \E k \in Cores : /\ curr[k] \in ThreadIds
                               /\ \A m \in ThreadIds \ {curr[k]} : loc'[m] = loc[m]
    PROVE  ActiveIsRunning' /\ FlagOK'
<1>1. ActiveIsRunning'
  BY DEF ActiveIsRunning
<1>2. FlagOK'
  BY DEF RpcTypeOK, FlagOK, ActiveIsRunning
<1> QED
  BY <1>1, <1>2

\* A thread is run by one core at most, and is active exactly then.
LEMMA RunStep ==
    ASSUME RunInv, [RpcNext]_rpcVars PROVE RunInv'
<1> USE DEF RunInv
<1>0. RpcTypeOK'
  BY TypeStep
<1>1. CASE UNCHANGED rpcVars
  BY <1>0, <1>1 DEF rpcVars, ActiveIsRunning, FlagOK
<1>2. ASSUME NEW k \in Cores, AllocAndRun(k) PROVE RunInv'
  <2>1. PICK n \in ThreadIds :
              /\ state[n] = "free"
              /\ state' = [state EXCEPT ![n] = "active"]
              /\ curr' = [curr EXCEPT ![k] = n]
              /\ copy' = [copy EXCEPT ![n] = FALSE]
              /\ Goes(n, "entry")
    BY <1>2, Zenon DEF AllocAndRun
  <2>2. curr[k] = NONE /\ \A m \in ThreadIds \ {n} : loc'[m] = loc[m]
    BY <1>2, <2>1 DEF AllocAndRun, Goes, RpcTypeOK
  <2> QED
    BY <1>0, <2>1, <2>2, EnterStep
<1>3. ASSUME NEW k \in Cores, ForeignIntr(k) PROVE RunInv'
  <2>1. \A m \in ThreadIds \ {curr[k]} : copy'[m] = copy[m] /\ loc'[m] = loc[m]
    BY <1>3 DEF ForeignIntr, Suspend, RpcTypeOK
  <2> QED
    BY <1>0, <1>3, <2>1, LeaveStep DEF ForeignIntr, Suspend
<1>4. ASSUME NEW k \in Cores, NEW l, curr[k] # NONE, Rpc(k, l) PROVE RunInv'
  <2>1. \A m \in ThreadIds \ {curr[k]} : copy'[m] = copy[m] /\ loc'[m] = loc[m]
    BY <1>4 DEF Rpc, Suspend, Goes, RpcTypeOK
  <2> QED
    BY <1>0, <1>4, <2>1, LeaveStep DEF Rpc, Suspend
<1>5. ASSUME NEW k \in Cores, NEW l, curr[k] # NONE, Continue(k, l) PROVE RunInv'
  <2>1. curr[k] \in ThreadIds /\ \A m \in ThreadIds \ {curr[k]} : loc'[m] = loc[m]
    BY <1>5 DEF Continue, Goes, RpcTypeOK
  <2> QED
    BY <1>0, <1>5, <2>1, StayStep DEF Continue
<1>6. ASSUME NEW k \in Cores, Run(k) PROVE RunInv'
  <2>1. CASE StateFree(k)
    BY <1>0, <2>1, LeaveStep DEF StateFree
  <2>2. CASE ~StateFree(k)
    BY <1>4, <1>5, <1>6, <2>2
       DEF Run, StdSmcEntry, RpcCmd, AllocArg, Answered, StdSmcEnd, Released, At
  <2> QED
    BY <2>1, <2>2
<1>7. ASSUME NEW k \in Cores, DisableCache(k) \/ EnableCache(k) PROVE RunInv'
  BY <1>0, <1>7, StayStep DEF DisableCache, EnableCache
<1>8. ASSUME NEW n \in ThreadIds, Resume(n) PROVE RunInv'
  <2>1. PICK k \in Cores, a \in [co : Cookies \cup {NONE}, ok : BOOLEAN] :
              ResumeFromRpc(k, n, a)
    BY <1>8, Zenon DEF Resume
  <2> QED
    BY <1>0, <2>1, EnterStep DEF ResumeFromRpc
<1> QED
  BY <1>1, <1>2, <1>3, <1>6, <1>7, <1>8 DEF RpcNext

\* Initially all threads are free and no core runs one.
LEMMA InitRun == ASSUME RpcInit PROVE RunInv
<1>1. RpcTypeOK
  BY NoArgsType DEF RpcInit, RpcTypeOK
<1>2. ActiveIsRunning /\ FlagOK
  BY ThreadRpcAssumption DEF RpcInit, ActiveIsRunning, FlagOK
<1> QED
  BY <1>1, <1>2 DEF RunInv

\* The types of thread.c and thread_optee_smc.c, and that a thread is active if and
\* only if one core runs it (thread_alloc_and_run(), thread_resume_from_rpc(),
\* thread_state_suspend(), thread_state_free()), whatever normal world asks for.
THEOREM ThreadsCorrect == RpcSpec => [](RpcTypeOK /\ ActiveIsRunning)
<1>1. RpcInit => RunInv
  BY InitRun
<1>2. RunInv /\ [RpcNext]_rpcVars => RunInv'
  BY RunStep
<1>3. RunInv => RpcTypeOK /\ ActiveIsRunning
  BY DEF RunInv
<1> QED
  BY <1>1, <1>2, <1>3, PTL DEF RpcSpec

-----------------------------------------------------------------------------
(* The memory for arguments.                                               *)

\* What the threads other than n have does not change, and shm changes by what n
\* gets or gives back.
LEMMA AccountStep ==
    ASSUME MemoryAccounted, NEW n \in ThreadIds,
           \A m \in ThreadIds \ {n} : Holds(m)' = Holds(m),
           shm' = (shm \ Holds(n)) \cup Holds(n)',
           \A m \in ThreadIds \ {n} : Holds(n)' \cap Holds(m) = {}
    PROVE  MemoryAccounted'
<1>1. \A m \in ThreadIds \ {n} : Holds(m) \cap Holds(n) = {}
  BY DEF MemoryAccounted
<1>2. shm = UNION {Holds(m) : m \in ThreadIds}
  BY DEF MemoryAccounted
<1>3. shm' = UNION {Holds(m)' : m \in ThreadIds}
  BY <1>1, <1>2
<1>4. \A m, l \in ThreadIds : m # l => Holds(m)' \cap Holds(l)' = {}
  BY DEF MemoryAccounted
<1> QED
  BY <1>3, <1>4 DEF MemoryAccounted

\* What a thread has depends on its own state only.
LEMMA HoldsSame ==
    ASSUME NEW n \in ThreadIds, rpc'[n] = rpc[n], args'[n] = args[n],
           loc'[n] = loc[n], copy'[n] = copy[n]
    PROVE  Holds(n)' = Holds(n)
  BY DEF Holds

\* The part of the invariant about one thread.
LocalOK(n) ==
    /\ loc[n] \in {"alloc", "giveup"} => rpc[n] = NONE
    /\ loc[n] = "alloc" => IF copy[n] THEN args[n] = NoArgs
                           ELSE args[n].ok => args[n].co # NONE
    /\ loc[n] = "giveup" /\ ~copy[n] => args[n] = NoArgs
    /\ loc[n] \notin {"alloc", "giveup"} => args[n] = NoArgs
    /\ ~cache /\ (state[n] = "free" \/ loc[n] \in {"entry", "exit"})
         => rpc[n] = NONE

\* The invariant about the calls, thread by thread.
LEMMA LocalParts == CallOK /\ KeepOK <=> \A n \in ThreadIds : LocalOK(n)
  BY DEF CallOK, KeepOK, LocalOK

\* A step of thread n that leaves the others alone.
LEMMA OneThread ==
    ASSUME CallOK, KeepOK, MemoryAccounted, NEW n \in ThreadIds,
           \A m \in ThreadIds \ {n} :
               /\ rpc'[m] = rpc[m] /\ args'[m] = args[m] /\ loc'[m] = loc[m]
               /\ copy'[m] = copy[m] /\ state'[m] = state[m],
           cache' = cache,
           LocalOK(n)',
           shm' = (shm \ Holds(n)) \cup Holds(n)',
           \A m \in ThreadIds \ {n} : Holds(n)' \cap Holds(m) = {}
    PROVE  CallOK' /\ KeepOK' /\ MemoryAccounted'
<1>1. \A m \in ThreadIds \ {n} : LocalOK(m)'
  <2>1. \A m \in ThreadIds : LocalOK(m)
    BY LocalParts
  <2> QED
    BY <2>1 DEF LocalOK
<1>2. CallOK' /\ KeepOK'
  BY <1>1 DEF CallOK, KeepOK, LocalOK
<1>3. \A m \in ThreadIds \ {n} : Holds(m)' = Holds(m)
  BY HoldsSame
<1> QED
  BY <1>2, <1>3, AccountStep

\* The same for a step that keeps what n has.
LEMMA OneThreadKeeps ==
    ASSUME CallOK, KeepOK, MemoryAccounted, NEW n \in ThreadIds,
           \A m \in ThreadIds \ {n} :
               /\ rpc'[m] = rpc[m] /\ args'[m] = args[m] /\ loc'[m] = loc[m]
               /\ copy'[m] = copy[m] /\ state'[m] = state[m],
           cache' = cache, shm' = shm,
           LocalOK(n)', Holds(n)' = Holds(n)
    PROVE  CallOK' /\ KeepOK' /\ MemoryAccounted'
<1>1. \A m \in ThreadIds \ {n} : Holds(n)' \cap Holds(m) = {}
  BY DEF MemoryAccounted
<1>2. Holds(n) \subseteq shm
  BY DEF MemoryAccounted
<1>3. shm' = (shm \ Holds(n)) \cup Holds(n)'
  BY <1>2
<1> QED
  BY <1>1, <1>3, OneThread

\* The step of the core k's thread from one request or answer to the next.
LEMMA RunMemory ==
    ASSUME Inv, NEW k \in Cores, Run(k)
    PROVE  CallOK' /\ KeepOK' /\ MemoryAccounted'
<1>0. curr[k] # NONE
  BY DEF Run, StdSmcEntry, RpcCmd, AllocArg, Answered, StdSmcEnd, Released,
         StateFree, At
<1>n. PICK n \in ThreadIds : n = curr[k]
  BY <1>0 DEF Inv, RpcTypeOK
<1>1. state[n] = "active" /\ ~copy[n] /\ LocalOK(n)
  <2>1. state[n] = "active"
    BY <1>0, <1>n DEF Inv, RpcTypeOK, ActiveIsRunning
  <2>2. ~copy[n]
    BY <2>1 DEF Inv, FlagOK
  <2> QED
    BY <2>1, <2>2, LocalParts DEF Inv
<1>2. ASSUME NEW l \in {"alloc", "giveup", "cmd", "release"}, Rpc(k, l)
      PROVE  /\ cache' = cache /\ shm' = shm /\ rpc' = rpc /\ args' = args
             /\ state'[n] = "suspended" /\ copy'[n] = TRUE /\ loc'[n] = l
             /\ \A m \in ThreadIds \ {n} : /\ loc'[m] = loc[m]
                                         /\ copy'[m] = copy[m]
                                         /\ state'[m] = state[m]
  BY <1>n, <1>1, <1>2 DEF Rpc, Suspend, Goes, Inv, RpcTypeOK
<1>3. ASSUME NEW l \in {"run", "exit"}, Continue(k, l)
      PROVE  /\ cache' = cache /\ shm' = shm /\ state' = state /\ copy' = copy
             /\ loc'[n] = l /\ args'[n] = NoArgs
             /\ \A m \in ThreadIds \ {n} : loc'[m] = loc[m] /\ args'[m] = args[m]
  BY <1>n, <1>1, <1>3 DEF Continue, Goes, Inv, RpcTypeOK
<1>4. NoArgs.co = NONE /\ NoArgs.ok = FALSE
  BY Zenon DEF NoArgs
<1>5. CASE StdSmcEntry(k)
  <2>1. PICK l \in {"run", "exit"} : Continue(k, l)
    BY <1>5, Zenon DEF StdSmcEntry
  <2>2. loc[n] = "entry" /\ rpc' = rpc
    BY <1>n, <1>5 DEF StdSmcEntry, At
  <2>3. LocalOK(n)' /\ Holds(n)' = Holds(n)
    BY <1>1, <1>3, <1>4, <2>1, <2>2 DEF LocalOK, Holds
  <2> QED
    BY <1>1, <1>3, <2>1, <2>2, <2>3, OneThreadKeeps DEF Inv
<1>6. CASE RpcCmd(k)
  <2>1. PICK l \in {"alloc", "cmd"} : Rpc(k, l) /\ (l = "alloc" => rpc[n] = NONE)
    BY <1>n, <1>6, Zenon DEF RpcCmd
  <2>2. loc[n] = "run"
    BY <1>n, <1>6 DEF RpcCmd, At
  <2>3. LocalOK(n)' /\ Holds(n)' = Holds(n)
    BY <1>1, <1>2, <2>1, <2>2 DEF LocalOK, Holds
  <2> QED
    BY <1>1, <1>2, <2>1, <2>3, OneThreadKeeps DEF Inv
<1>7. CASE AllocArg(k)
  <2>1. loc[n] = "alloc" /\ rpc[n] = NONE
    BY <1>n, <1>1, <1>7 DEF AllocArg, At, LocalOK
  <2>2. CASE args[n].ok /\ rpc' = [rpc EXCEPT ![n] = args[n].co] /\ Continue(k, "run")
    <3>1. LocalOK(n)' /\ Holds(n)' = Holds(n)
      BY <1>1, <1>3, <1>4, <2>1, <2>2 DEF LocalOK, Holds, Inv, RpcTypeOK
    <3>2. \A m \in ThreadIds \ {n} : rpc'[m] = rpc[m]
      BY <1>1, <2>2 DEF Inv, RpcTypeOK
    <3> QED
      BY <1>1, <1>3, <2>2, <3>1, <3>2, OneThreadKeeps DEF Inv
  <2>3. CASE args[n].co = NONE /\ Continue(k, "run") /\ rpc' = rpc
    <3>1. LocalOK(n)' /\ Holds(n)' = Holds(n)
      BY <1>1, <1>3, <1>4, <2>1, <2>3 DEF LocalOK, Holds
    <3> QED
      BY <1>1, <1>3, <2>3, <3>1, OneThreadKeeps DEF Inv
  <2>4. CASE Rpc(k, "giveup")
    <3>1. LocalOK(n)' /\ Holds(n)' = Holds(n)
      BY <1>1, <1>2, <2>1, <2>4 DEF LocalOK, Holds
    <3> QED
      BY <1>1, <1>2, <2>4, <3>1, OneThreadKeeps DEF Inv
  <2> QED
    BY <1>n, <1>7, <2>2, <2>3, <2>4 DEF AllocArg
<1>8. CASE Answered(k)
  <2>1. loc[n] \in {"cmd", "giveup"} /\ Continue(k, "run") /\ rpc' = rpc
    BY <1>n, <1>8 DEF Answered, At
  <2>2. LocalOK(n)' /\ Holds(n)' = Holds(n)
    BY <1>1, <1>3, <1>4, <2>1 DEF LocalOK, Holds
  <2> QED
    BY <1>1, <1>3, <2>1, <2>2, OneThreadKeeps DEF Inv
<1>9. CASE StdSmcEnd(k)
  <2>1. loc[n] = "run"
    BY <1>n, <1>9 DEF StdSmcEnd, At
  <2>2. CASE Rpc(k, "release")
    <3>1. LocalOK(n)' /\ Holds(n)' = Holds(n)
      BY <1>1, <1>2, <2>1, <2>2 DEF LocalOK, Holds
    <3> QED
      BY <1>1, <1>2, <2>2, <3>1, OneThreadKeeps DEF Inv
  <2>3. CASE (cache \/ rpc[n] = NONE) /\ Continue(k, "exit") /\ rpc' = rpc
    <3>1. LocalOK(n)' /\ Holds(n)' = Holds(n)
      BY <1>1, <1>3, <1>4, <2>1, <2>3 DEF LocalOK, Holds
    <3> QED
      BY <1>1, <1>3, <2>3, <3>1, OneThreadKeeps DEF Inv
  <2> QED
    BY <1>n, <1>9, <2>2, <2>3 DEF StdSmcEnd
<1>10. CASE Released(k)
  <2>1. /\ loc[n] = "release" /\ Continue(k, "exit")
        /\ rpc' = [rpc EXCEPT ![n] = NONE]
    BY <1>n, <1>10 DEF Released, At
  <2>2. LocalOK(n)' /\ Holds(n)' = Holds(n)
    BY <1>1, <1>3, <1>4, <2>1 DEF LocalOK, Holds, Inv, RpcTypeOK
  <2>3. \A m \in ThreadIds \ {n} : rpc'[m] = rpc[m]
    BY <1>1, <2>1 DEF Inv, RpcTypeOK
  <2> QED
    BY <1>1, <1>3, <2>1, <2>2, <2>3, OneThreadKeeps DEF Inv
<1>11. CASE StateFree(k)
  <2>1. /\ loc[n] = "exit" /\ state'[n] = "free" /\ copy'[n] = FALSE
        /\ \A m \in ThreadIds \ {n} : state'[m] = state[m] /\ copy'[m] = copy[m]
        /\ UNCHANGED <<args, rpc, loc, cache, shm>>
    BY <1>n, <1>1, <1>11 DEF StateFree, Inv, RpcTypeOK
  <2>2. LocalOK(n)' /\ Holds(n)' = Holds(n)
    BY <1>1, <2>1 DEF LocalOK, Holds
  <2> QED
    BY <1>1, <2>1, <2>2, OneThreadKeeps DEF Inv
<1> QED
  BY <1>5, <1>6, <1>7, <1>8, <1>9, <1>10, <1>11 DEF Run

\* Normal world resumes a thread, with an answer if it has asked for one.
LEMMA ResumeMemory ==
    ASSUME Inv, NEW n \in ThreadIds, Resume(n)
    PROVE  CallOK' /\ KeepOK' /\ MemoryAccounted'
<1>1. PICK k \in Cores, a \in [co : Cookies \cup {NONE}, ok : BOOLEAN] :
            ResumeFromRpc(k, n, a)
  BY Zenon DEF Resume
<1>2. LocalOK(n)
  BY LocalParts DEF Inv
<1>3. NoArgs.co = NONE /\ NoArgs.ok = FALSE
  BY Zenon DEF NoArgs
<1>4. /\ state[n] = "suspended" /\ state'[n] = "active" /\ copy'[n] = FALSE
      /\ rpc' = rpc /\ loc' = loc /\ cache' = cache
      /\ \A m \in ThreadIds \ {n} : state'[m] = state[m] /\ copy'[m] = copy[m]
  BY <1>1 DEF ResumeFromRpc, Inv, RpcTypeOK
<1>5. Holds(n) \subseteq shm /\ \A m \in ThreadIds \ {n} : /\ Holds(m) \subseteq shm
                                                         /\ Holds(n) \cap Holds(m) = {}
  BY DEF Inv, MemoryAccounted
<1>6. CASE ~copy[n]
  <2>1. args' = args /\ shm' = shm
    BY <1>1, <1>6 DEF ResumeFromRpc
  <2>2. LocalOK(n)' /\ Holds(n)' = Holds(n)
    BY <1>2, <1>4, <1>6, <2>1 DEF LocalOK, Holds
  <2> QED
    BY <1>4, <2>1, <2>2, OneThreadKeeps DEF Inv
<1>7. CASE copy[n]
  <2>1. /\ Answers(n, a) /\ args'[n] = a
        /\ \A m \in ThreadIds \ {n} : args'[m] = args[m]
    BY <1>1, <1>7 DEF ResumeFromRpc, Inv, RpcTypeOK
  <2>2. CASE loc[n] = "alloc"
    <3>1. /\ a.co \notin shm /\ (a.ok => a.co # NONE)
          /\ shm' = shm \cup ({a.co} \ {NONE})
      BY <2>1, <2>2 DEF Answers
    <3>2. Holds(n) = {} /\ Holds(n)' = {a.co} \ {NONE} /\ LocalOK(n)'
      BY <1>2, <1>3, <1>4, <1>7, <2>1, <2>2, <3>1 DEF LocalOK, Holds
    <3>3. \A m \in ThreadIds \ {n} : Holds(n)' \cap Holds(m) = {}
      BY <1>5, <3>1, <3>2
    <3> QED
      BY <1>4, <2>1, <3>1, <3>2, <3>3, OneThread DEF Inv
  <2>3. CASE loc[n] \in {"giveup", "release"}
    <3>1. a = NoArgs /\ shm' = shm \ Holds(n)
      <4>1. CASE loc[n] = "giveup"
        <5>1. a = NoArgs /\ shm' = shm \ {args[n].co}
          BY <2>1, <4>1 DEF Answers
        <5>2. Holds(n) = {args[n].co} \ {NONE}
          BY <1>2, <4>1 DEF LocalOK, Holds
        <5>3. NONE \notin shm
          BY ThreadRpcAssumption DEF Inv, RpcTypeOK
        <5> QED
          BY <5>1, <5>2, <5>3
      <4>2. CASE loc[n] = "release"
        <5>1. a = NoArgs /\ shm' = shm \ {rpc[n]}
          BY <2>1, <4>2 DEF Answers
        <5>2. Holds(n) = {rpc[n]} \ {NONE}
          BY <1>2, <1>3, <1>7, <4>2 DEF LocalOK, Holds
        <5>3. NONE \notin shm
          BY ThreadRpcAssumption DEF Inv, RpcTypeOK
        <5> QED
          BY <5>1, <5>2, <5>3
      <4> QED
        BY <2>3, <4>1, <4>2
    <3>2. Holds(n)' = {} /\ LocalOK(n)'
      BY <1>2, <1>3, <1>4, <2>1, <2>3, <3>1 DEF LocalOK, Holds
    <3> QED
      BY <1>4, <2>1, <3>1, <3>2, OneThread DEF Inv
  <2>4. CASE loc[n] \notin {"alloc", "giveup", "release"}
    <3>1. a = NoArgs /\ shm' = shm
      BY <2>1, <2>4 DEF Answers
    <3>2. Holds(n)' = Holds(n) /\ LocalOK(n)'
      BY <1>2, <1>3, <1>4, <2>1, <2>4, <3>1 DEF LocalOK, Holds
    <3> QED
      BY <1>4, <2>1, <3>1, <3>2, OneThreadKeeps DEF Inv
  <2> QED
    BY <2>2, <2>3, <2>4
<1> QED
  BY <1>6, <1>7

\* thread_disable_prealloc_rpc_cache() hands out what one thread keeps, or finds
\* nothing and turns the cache off.
LEMMA DisableMemory ==
    ASSUME Inv, NEW k \in Cores, DisableCache(k)
    PROVE  CallOK' /\ KeepOK' /\ MemoryAccounted'
<1>1. /\ UNCHANGED <<state, copy, args, loc>>
      /\ \A m \in ThreadIds : state[m] = "free" /\ loc[m] \in {"entry", "exit"}
  BY DEF DisableCache, AllFree, Inv, FlagOK
<1>2. CASE \E n \in ThreadIds : /\ rpc[n] # NONE
                              /\ shm' = shm \ {rpc[n]}
                              /\ rpc' = [rpc EXCEPT ![n] = NONE]
                              /\ cache' = cache
  <2>1. PICK n \in ThreadIds : /\ rpc[n] # NONE
                             /\ shm' = shm \ {rpc[n]}
                             /\ rpc' = [rpc EXCEPT ![n] = NONE]
                             /\ cache' = cache
    BY <1>2
  <2>2. rpc'[n] = NONE /\ \A m \in ThreadIds \ {n} : rpc'[m] = rpc[m]
    BY <2>1 DEF Inv, RpcTypeOK
  <2>3. args[n] = NoArgs /\ NoArgs.co = NONE
    <3>1. args[n] = NoArgs
      BY <1>1 DEF Inv, CallOK
    <3> QED
      BY <3>1, Zenon DEF NoArgs
  <2>4. Holds(n) = {rpc[n]} /\ Holds(n)' = {} /\ LocalOK(n)'
    BY <1>1, <2>1, <2>2, <2>3 DEF Holds, LocalOK
  <2> QED
    BY <1>1, <2>1, <2>2, <2>4, OneThread DEF Inv
<1>3. CASE (\A n \in ThreadIds : rpc[n] = NONE) /\ UNCHANGED <<rpc, shm>>
  <2>1. CallOK' /\ KeepOK'
    BY <1>1, <1>3 DEF Inv, CallOK, KeepOK
  <2>2. \A m \in ThreadIds : Holds(m)' = Holds(m)
    BY <1>1, <1>3, HoldsSame
  <2> QED
    BY <1>3, <2>1, <2>2 DEF Inv, MemoryAccounted
<1> QED
  BY <1>2, <1>3, Zenon DEF DisableCache

\* Every step keeps the invariant.
LEMMA NextInv == ASSUME Inv, [RpcNext]_rpcVars PROVE Inv'
<1>0. RunInv'
  BY RunStep DEF Inv, RunInv
<1> SUFFICES CallOK' /\ KeepOK' /\ MemoryAccounted'
  BY <1>0 DEF Inv, RunInv
<1>1. CASE UNCHANGED rpcVars
  BY <1>1 DEF rpcVars, Inv, CallOK, KeepOK, MemoryAccounted, Holds
<1>2. ASSUME NEW k \in Cores, AllocAndRun(k)
      PROVE  CallOK' /\ KeepOK' /\ MemoryAccounted'
  <2>1. PICK n \in ThreadIds :
              /\ state[n] = "free"
              /\ state' = [state EXCEPT ![n] = "active"]
              /\ copy' = [copy EXCEPT ![n] = FALSE]
              /\ Goes(n, "entry")
    BY <1>2, Zenon DEF AllocAndRun
  <2>2. /\ state'[n] = "active" /\ copy'[n] = FALSE /\ loc'[n] = "entry"
        /\ UNCHANGED <<args, rpc, cache, shm>>
        /\ \A m \in ThreadIds \ {n} : /\ state'[m] = state[m] /\ copy'[m] = copy[m]
                                    /\ loc'[m] = loc[m]
    BY <1>2, <2>1 DEF AllocAndRun, Goes, Inv, RpcTypeOK
  <2>3. LocalOK(n) /\ loc[n] \in {"entry", "exit"}
    BY <2>1, LocalParts DEF Inv, FlagOK
  <2>4. LocalOK(n)' /\ Holds(n)' = Holds(n)
    BY <2>1, <2>2, <2>3 DEF LocalOK, Holds
  <2> QED
    BY <2>2, <2>4, OneThreadKeeps DEF Inv
<1>3. ASSUME NEW k \in Cores, ForeignIntr(k)
      PROVE  CallOK' /\ KeepOK' /\ MemoryAccounted'
  <2>1. PICK n \in ThreadIds : n = curr[k]
    BY <1>3 DEF ForeignIntr, Inv, RpcTypeOK
  <2>2. /\ state'[n] = "suspended" /\ copy'[n] = copy[n]
        /\ UNCHANGED <<args, rpc, loc, cache, shm>>
        /\ \A m \in ThreadIds \ {n} : state'[m] = state[m] /\ copy'[m] = copy[m]
    BY <1>3, <2>1 DEF ForeignIntr, Suspend, Inv, RpcTypeOK
  <2>3. LocalOK(n)
    BY LocalParts DEF Inv
  <2>4. LocalOK(n)' /\ Holds(n)' = Holds(n)
    BY <2>2, <2>3 DEF LocalOK, Holds
  <2> QED
    BY <2>2, <2>4, OneThreadKeeps DEF Inv
<1>4. ASSUME NEW k \in Cores, EnableCache(k)
      PROVE  CallOK' /\ KeepOK' /\ MemoryAccounted'
  BY <1>4 DEF EnableCache, Inv, CallOK, KeepOK, MemoryAccounted, Holds
<1> QED
  BY <1>1, <1>2, <1>3, <1>4, RunMemory, ResumeMemory, DisableMemory DEF RpcNext

\* The initial state satisfies the invariant.
LEMMA InitInv == ASSUME RpcInit PROVE Inv
<1>1. RunInv
  BY InitRun
<1>2. CallOK /\ KeepOK
  BY DEF RpcInit, CallOK, KeepOK
<1>3. \A n \in ThreadIds : Holds(n) = {}
  <2>1. NoArgs.co = NONE
    BY Zenon DEF NoArgs
  <2> QED
    BY <2>1 DEF RpcInit, Holds
<1>4. MemoryAccounted
  BY <1>3 DEF RpcInit, MemoryAccounted
<1> QED
  BY <1>1, <1>2, <1>4 DEF Inv, RunInv

\* The memory that normal world has allocated for RPC arguments is that which the
\* threads have: thread_rpc_alloc_arg(), thread_rpc_free_arg(), the end of a call
\* and thread_disable_prealloc_rpc_cache() lose none and free none twice, whatever
\* interrupts and resumptions come in between.
THEOREM MemoryCorrect == RpcSpec => []MemoryAccounted
<1>1. RpcInit => Inv
  BY InitInv
<1>2. Inv /\ [RpcNext]_rpcVars => Inv'
  BY NextInv
<1>3. Inv => MemoryAccounted
  BY DEF Inv
<1> QED
  BY <1>1, <1>2, <1>3, PTL DEF RpcSpec

\* With the cache disabled a free thread keeps no memory (optee_smc.h:303-308).
THEOREM NothingKeptHolds == RpcSpec => []NothingKept
<1>1. RpcInit => Inv
  BY InitInv
<1>2. Inv /\ [RpcNext]_rpcVars => Inv'
  BY NextInv
<1>3. Inv => NothingKept
  BY DEF Inv, KeepOK, NothingKept
<1> QED
  BY <1>1, <1>2, <1>3, PTL DEF RpcSpec

-----------------------------------------------------------------------------
(* The recursive mutex.  The properties are not inductive: that the load   *)
(* of the owner is harmless follows from where each thread is between its  *)
(* accesses (MutexSteps, OwnerOK).                                         *)

\* The steps between the outermost lock of the mutex and its unlock, beside
\* those of a thread that is idle or locks again with nest > 0.
MutexSteps == {"store", "setdepth", "clear", "release"}

\* A thread owns the mutex exactly if it is between its two operations on it,
\* and then no other thread does.
MutexOK ==
    /\ \A t \in Threads :
         mu[t] = (IF nest[t] > 0 \/ pc[t] \in MutexSteps THEN "own" ELSE "out")
    /\ \A t, u \in Threads : mu[t] = "own" /\ mu[u] = "own" => t = u

\* The owner field names the thread that has stored it and not cleared it.
OwnerOK ==
    /\ \A t \in Threads :
         owner = t <=> nest[t] > 0 \/ pc[t] \in {"setdepth", "clear"}
    /\ \A t \in Threads :
         /\ pc[t] \in MutexSteps \cup {"lock"} => nest[t] = 0
         /\ pc[t] = "inc" => nest[t] > 0
         /\ nest[t] > 0 => depth = nest[t]

MutexInv == TypeOK /\ MutexOK /\ OwnerOK /\ ~panic

\* The initial state satisfies the invariant.
LEMMA MutexInit == Init => MutexInv
<1> SUFFICES ASSUME Init PROVE MutexInv
  OBVIOUS
<1>1. TypeOK /\ ~panic
  BY DEF Init, TypeOK, PC
<1>2. \A t \in Threads : nest[t] = 0 /\ pc[t] = "idle" /\ mu[t] = "out"
  BY Zenon DEF Init
<1>3. MutexOK
  BY <1>2 DEF MutexOK, MutexSteps
<1>4. OwnerOK
  BY <1>2, NullNoThread DEF Init, OwnerOK, MutexSteps
<1> QED
  BY <1>1, <1>3, <1>4 DEF MutexInv

\* Every step keeps the invariant.
LEMMA MutexNext == MutexInv /\ [Next]_vars => MutexInv'
<1> SUFFICES ASSUME MutexInv, [Next]_vars PROVE MutexInv'
  OBVIOUS
<1>1. CASE UNCHANGED vars
  BY <1>1 DEF vars, MutexInv, TypeOK, MutexOK, OwnerOK
<1>2. ASSUME NEW t \in Threads, LockLoad(t) PROVE MutexInv'
  BY <1>2 DEF LockLoad, Goto, MutexInv, TypeOK, MutexOK, OwnerOK, PC, MutexSteps
<1>3. ASSUME NEW t \in Threads, LockInc(t) PROVE MutexInv'
  BY <1>3 DEF LockInc, Goto, MutexInv, TypeOK, MutexOK, OwnerOK, PC, MutexSteps
<1>4. ASSUME NEW t \in Threads, LockMutex(t) PROVE MutexInv'
  BY <1>4, NullNoThread
     DEF LockMutex, Goto, Mu!Try, Mu!Grantable, MutexInv, TypeOK, MutexOK, OwnerOK,
         PC, MutexSteps
<1>5. ASSUME NEW t \in Threads, LockStore(t) PROVE MutexInv'
  BY <1>5 DEF LockStore, Goto, MutexInv, TypeOK, MutexOK, OwnerOK, PC, MutexSteps
<1>6. ASSUME NEW t \in Threads, LockDepth(t) PROVE MutexInv'
  BY <1>6 DEF LockDepth, Goto, MutexInv, TypeOK, MutexOK, OwnerOK, PC, MutexSteps
<1>7. ASSUME NEW t \in Threads, UnlockDec(t) PROVE MutexInv'
  BY <1>7 DEF UnlockDec, Goto, MutexInv, TypeOK, MutexOK, OwnerOK, PC, MutexSteps
<1>8. ASSUME NEW t \in Threads, UnlockClear(t) PROVE MutexInv'
  BY <1>8, NullNoThread
     DEF UnlockClear, Goto, MutexInv, TypeOK, MutexOK, OwnerOK, PC, MutexSteps
<1>9. ASSUME NEW t \in Threads, UnlockMutex(t) PROVE MutexInv'
  BY <1>9
     DEF UnlockMutex, Goto, Mu!Release, MutexInv, TypeOK, MutexOK, OwnerOK, PC,
         MutexSteps
<1> QED
  BY <1>1, <1>2, <1>3, <1>4, <1>5, <1>6, <1>7, <1>8, <1>9 DEF Next

\* The invariant holds in every behaviour.
LEMMA MutexInvariance == Spec => []MutexInv
  BY MutexInit, MutexNext, PTL DEF Spec

\* struct recursive_mutex keeps its types, no two threads are inside although
\* __mutex_lock_recursive() reads the owner without the mutex, lock_depth counts
\* the locks of the thread that is inside, and no assertion fails.
THEOREM RecursiveMutexCorrect == Spec => []RecursiveSafety
<1>1. MutexInv => TypeOK /\ AssertionsHold
  BY DEF MutexInv, AssertionsHold
<1>2. MutexInv => RecursiveExclusion
  BY DEF MutexInv, TypeOK, MutexOK, OwnerOK, RecursiveExclusion
<1>3. MutexInv => DepthIsNesting
  BY DEF MutexInv, TypeOK, MutexOK, OwnerOK, DepthIsNesting
<1>4. MutexInv => RecursiveSafety
  BY <1>1, <1>2, <1>3 DEF RecursiveSafety
<1> QED
  BY MutexInvariance, <1>4, PTL
-----------------------------------------------------------------------------

\* A context is entered by one thread at a time; it exists, with its heap, as
\* long as the thread is in it.
CtxOK ==
    /\ \A t, u \in PgtThreads, c \in Ctxs : Inside(t, c) /\ Inside(u, c) => t = u
    /\ \A t \in PgtThreads, c \in Ctxs : Inside(t, c) => c \in live
    /\ \A c \in live : Heap \in regs[c]

\* The thread runs a context, or changes the memory of the one it runs.
Running(t) == at[t] \in {"user", "return", "clear", "flush"}

\* The thread is in pgt_alloc() for the context it entered last.
Allocating(t) == at[t] \in {"alloc", "pop", "sleep"}

\* The region rem[t] has left the tables of the context, or is yet to be mapped.
Absent(t) == at[t] = "flush" \/ (Allocating(t) /\ dir[t] # NoDir)

\* Where a thread is and what it has.
AtOK ==
    \A t \in PgtThreads :
        /\ Running(t) \/ Allocating(t) => Top(t) \in Ctxs
        /\ Running(t) \/ (Allocating(t) /\ dir[t] # NoDir) => cur[t] = Top(t)
        /\ at[t] = "alloc" /\ dir[t] = NoDir => Own(t) = {}
        /\ at[t] \in {"kernel", "sleep"} => Own(t) = {}
        /\ at[t] = "free" => dir[t] = NoDir
        /\ Running(t) => dir[t] # NoDir
        /\ at[t] = "clear" \/ Absent(t) => rem[t] \in regs[cur[t]] /\ rem[t] # Heap

\* pgt_mu is locked from the return of pgt_alloc()'s lock to its unlock or wait.
LockOK ==
    \A t, u \in PgtThreads :
        /\ pgt_mu[t] = "own" <=> at[t] \in {"pop", "sleep"}
        /\ pgt_mu[t] \in {"want", "wait"} => at[t] = "alloc"
        /\ pgt_mu[t] = "own" /\ pgt_mu[u] = "own" => t = u

\* The tables of a thread are those of one context.
OwnOK ==
    \A t \in PgtThreads : \A p \in Own(t) :
        /\ tab[p].ctx = IF at[t] = "pop" THEN Top(t) ELSE cur[t]
        /\ at[t] = "pop" => tab[p].base \in Need(regs[Top(t)])

\* A region that is removed is no longer in a table of the context, and one that is
\* mapped not yet.
FlushOK ==
    \A t \in PgtThreads, p \in Tables :
        Absent(t) /\ tab[p].at # "free" /\ tab[p].ctx = cur[t]
            => rem[t] \notin tab[p].tbl

\* UserMapOwned, also while the memory of the context is changed.
MapOK ==
    \A t \in PgtThreads : Running(t) /\ t \notin stale =>
        \A r \in regs[cur[t]] : \A s \in Span(r) :
            /\ dir[t][s] \in Own(t)
            /\ tab[dir[t][s]].ctx = cur[t] /\ tab[dir[t][s]].base = s

\* The pager has pointers to the same tables, except for a region that it has
\* already removed.
PagerOK ==
    \A t \in PgtThreads : Running(t) /\ t \notin stale =>
        \A r \in regs[cur[t]] : r.kind = "paged" /\ ~(at[t] = "flush" /\ r = rem[t]) =>
            \A s \in Span(r) : array[cur[t]][s] = dir[t][s]

\* The thread will end the waits of the others: it gives tables back, or has
\* given back those of a context that is still mapped, or did so in a vm_map() that
\* failed.
WillTell(u) ==
    \/ at[u] = "free" /\ Own(u) # {}
    \/ at[u] = "pop" /\ dir[u] # NoDir
    \/ u \in stale /\ Own(u) # {} /\ dir[u] # NoDir /\ (Running(u) \/ at[u] = "alloc")

WaitOK ==
    /\ \A t \in PgtThreads :
         pgt_mu[t] = "wait" /\ Cardinality(Avail) >= Cardinality(Need(regs[Top(t)]))
            => \E u \in PgtThreads : WillTell(u)
    /\ \A t \in PgtThreads :
         at[t] = "sleep" => Cardinality(Avail) < Cardinality(Need(regs[Top(t)]))

PgtInv ==
    /\ PgtTypeOK /\ CtxOK /\ AtOK /\ LockOK /\ OwnOK /\ FlushOK /\ MapOK /\ PagerOK
    /\ WaitOK /\ EntriesCurrent /\ OneTablePerSlot /\ PagerPointers

-----------------------------------------------------------------------------
(* Facts about states.                                                     *)

\* A table of which one field has changed.
LEMMA PgtChanged ==
    ASSUME NEW x \in Pgt
    PROVE  /\ x.at \in {"free", "cache"} \cup PgtThreads
           /\ x.ctx \in Ctxs \cup {NIL} /\ x.base \in Slots \cup {0}
           /\ x.tbl \subseteq Region
           /\ [x EXCEPT !.at = "cache"] \in Pgt
           /\ \A t \in PgtThreads : [x EXCEPT !.at = t] \in Pgt
           /\ \A r \in Region : [x EXCEPT !.tbl = @ \cup {r}] \in Pgt
           /\ \A R \in SUBSET Region : [x EXCEPT !.tbl = @ \cup R] \in Pgt
           /\ \A r : [x EXCEPT !.tbl = @ \ {r}] \in Pgt
<1>1. /\ x.at \in {"free", "cache"} \cup PgtThreads
      /\ x.ctx \in Ctxs \cup {NIL} /\ x.base \in Slots \cup {0}
      /\ x.tbl \in SUBSET Region
  BY DEF Pgt
<1>2. /\ [x EXCEPT !.at = "cache"] \in Pgt
      /\ \A t \in PgtThreads : [x EXCEPT !.at = t] \in Pgt
  BY DEF Pgt
<1>3. ASSUME NEW S \in SUBSET Region PROVE [x EXCEPT !.tbl = S] \in Pgt
  BY DEF Pgt
<1>4. \A R \in SUBSET Region : [x EXCEPT !.tbl = @ \cup R] \in Pgt
  BY <1>1, <1>3
<1>5. \A r \in Region : [x EXCEPT !.tbl = @ \cup {r}] \in Pgt
  BY <1>1, <1>3
<1>6. \A r : [x EXCEPT !.tbl = @ \ {r}] \in Pgt
  <2> TAKE r
  <2>1. x.tbl \ {r} \in SUBSET Region
    BY <1>1
  <2> QED
    BY <1>3, <2>1
<1> QED
  BY <1>1, <1>2, <1>4, <1>5, <1>6

\* A thread is inside the context that it entered last.
LEMMA TopInside ==
    ASSUME PgtTypeOK, NEW t \in PgtThreads
    PROVE  /\ Top(t) \in Ctxs \cup {NIL}
           /\ Top(t) \in Ctxs <=> stack[t] # <<>>
           /\ Top(t) \in Ctxs => Inside(t, Top(t))
<1>1. stack[t] \in Seq(Ctxs)
  BY DEF PgtTypeOK
<1>2. CASE stack[t] = <<>>
  BY <1>2, PgtAssumption DEF Top
<1>3. CASE stack[t] # <<>>
  <2>1. Len(stack[t]) \in DOMAIN stack[t]
    BY <1>1, <1>3
  <2>2. Top(t) = stack[t][Len(stack[t])]
    BY <1>3 DEF Top
  <2>3. Top(t) \in Ctxs
    BY <1>1, <2>1, <2>2
  <2> QED
    BY <1>3, <2>1, <2>2, <2>3 DEF Inside
<1> QED
  BY <1>2, <1>3

\* The tables of a thread belong to a context that it is inside of.
LEMMA OwnInside ==
    ASSUME PgtInv, NEW t \in PgtThreads, NEW p \in Own(t)
    PROVE  /\ p \in Tables /\ tab[p].at = t
           /\ tab[p].ctx \in Ctxs /\ Inside(t, tab[p].ctx)
<1>1. p \in Tables /\ tab[p].at = t /\ tab[p].at # "free"
  BY PgtAssumption DEF Own
<1>2. tab[p].ctx \in live /\ live \subseteq Ctxs
  BY <1>1 DEF PgtInv, EntriesCurrent, PgtTypeOK
<1>3. tab[p].ctx = Top(t) \/ tab[p].ctx = cur[t]
  BY DEF PgtInv, OwnOK
<1> QED
  BY <1>1, <1>2, <1>3, TopInside DEF PgtInv, Inside

\* The tables that are not free are cached or those of a thread.
LEMMA TabPlaces ==
    ASSUME PgtTypeOK, NEW p \in Tables
    PROVE  \/ tab[p].at = "free"
           \/ tab[p].at = "cache"
           \/ tab[p].at \in PgtThreads /\ p \in Own(tab[p].at)
  BY DEF PgtTypeOK, Own, Pgt

\* A region lies in slots of the page directory.
LEMMA SpanSlots ==
    ASSUME NEW r \in Region
    PROVE  /\ Span(r) \subseteq Slots /\ r.first \in Span(r) /\ r.last \in Span(r)
           /\ r.kind \in {"paged", "param"}
  BY PgtAssumption DEF Region, Span, Slots

\* Heap is a region.
LEMMA HeapRegion == Heap \in Region /\ Heap.kind = "paged" /\ NSlots \in Span(Heap)
  BY PgtAssumption DEF Heap, Region, Slots, Span

\* PagerOK of threads that run the same context as before, if the pager's pointers to
\* the tables of its regions stay.
LEMMA PagerKeeps ==
    ASSUME PgtInv,
           \A u \in PgtThreads : Running(u)' /\ u \notin stale' =>
              /\ Running(u) /\ u \notin stale
              /\ cur'[u] = cur[u] /\ dir'[u] = dir[u]
              /\ regs'[cur[u]] \subseteq regs[cur[u]]
              /\ at[u] = "flush" /\ rem[u] \in regs'[cur[u]] =>
                    at'[u] = "flush" /\ rem'[u] = rem[u]
              /\ \A r \in regs'[cur[u]] :
                    r.kind = "paged" /\ ~(at'[u] = "flush" /\ r = rem'[u]) =>
                       \A s \in Span(r) : array[cur[u]][s] \in Own(u) =>
                           array'[cur[u]][s] = array[cur[u]][s]
    PROVE  PagerOK'
<1> SUFFICES ASSUME NEW u \in PgtThreads, Running(u)', u \notin stale',
                    NEW r \in regs'[cur'[u]], r.kind = "paged",
                    ~(at'[u] = "flush" /\ r = rem'[u]), NEW s \in Span(r)
             PROVE  array'[cur'[u]][s] = dir'[u][s]
  BY DEF PagerOK, Span
<1>1. /\ Running(u) /\ u \notin stale /\ cur'[u] = cur[u] /\ dir'[u] = dir[u]
      /\ r \in regs[cur[u]] /\ ~(at[u] = "flush" /\ r = rem[u])
  OBVIOUS
<1>2. array[cur[u]][s] = dir[u][s]
  BY <1>1 DEF PgtInv, PagerOK
<1>3. dir[u][s] \in Own(u)
  BY <1>1 DEF PgtInv, MapOK
<1> QED
  BY <1>1, <1>2, <1>3

\* Outside of pgt_alloc() a thread has nothing to do with pgt_mu.
LEMMA OutsideAlloc ==
    ASSUME PgtInv, NEW t \in PgtThreads, ~Allocating(t)
    PROVE  pgt_mu[t] = "out"
<1>1. pgt_mu[t] \in {"out", "want", "own", "wait"}
  BY DEF PgtInv, PgtTypeOK
<1>2. pgt_mu[t] \notin {"want", "own", "wait"}
  BY DEF PgtInv, LockOK, Allocating
<1> QED
  BY <1>1, <1>2

\* The sets that are counted are finite.
LEMMA Finite ==
    /\ \A S \in SUBSET Tables : IsFiniteSet(S) /\ Cardinality(S) \in Nat
    /\ \A R : IsFiniteSet(Need(R)) /\ Cardinality(Need(R)) \in Nat
<1>1. \A S \in SUBSET Tables : IsFiniteSet(S) /\ Cardinality(S) \in Nat
  BY PgtAssumption, FS_Subset, FS_CardinalityType
<1>2. IsFiniteSet(Slots)
  BY PgtAssumption, FS_Interval DEF Slots
<1>3. \A R : Need(R) \in SUBSET Slots
  BY DEF Need
<1> QED
  BY <1>1, <1>2, <1>3, FS_Subset, FS_CardinalityType

\* If no table becomes available and nobody starts to wait, those who wait are
\* not forgotten.
LEMMA WaitKeeps ==
    ASSUME WaitOK,
           Avail' \subseteq Avail,
           \A t \in PgtThreads : pgt_mu'[t] = "wait" => pgt_mu[t] = "wait",
           \A t \in PgtThreads : at'[t] = "sleep" => at[t] = "sleep",
           \A t \in PgtThreads : pgt_mu'[t] = "wait" \/ at'[t] = "sleep" =>
              Need(regs[Top(t)])' = Need(regs[Top(t)]),
           \A u \in PgtThreads : WillTell(u) => WillTell(u)'
    PROVE  WaitOK'
<1>1. Avail \in SUBSET Tables /\ Avail' \in SUBSET Avail
  BY DEF Avail
<1>2. /\ Cardinality(Avail) \in Nat /\ Cardinality(Avail') \in Nat
      /\ Cardinality(Avail') <= Cardinality(Avail)
  BY <1>1, Finite, FS_Subset
<1>3. ASSUME NEW t \in PgtThreads, pgt_mu'[t] = "wait",
             Cardinality(Avail') >= Cardinality(Need(regs[Top(t)])')
      PROVE  \E u \in PgtThreads : WillTell(u)'
  <2>1. Cardinality(Need(regs[Top(t)])) \in Nat
    BY Finite
  <2>2. Cardinality(Avail) >= Cardinality(Need(regs[Top(t)]))
    BY <1>2, <1>3, <2>1
  <2> QED
    BY <1>3, <2>2 DEF WaitOK
<1>4. ASSUME NEW t \in PgtThreads, at'[t] = "sleep"
      PROVE  Cardinality(Avail') < Cardinality(Need(regs[Top(t)])')
  <2>1. Cardinality(Need(regs[Top(t)])) \in Nat
    BY Finite
  <2>2. Cardinality(Avail) < Cardinality(Need(regs[Top(t)]))
    BY <1>4 DEF WaitOK
  <2> QED
    BY <1>2, <1>4, <2>1, <2>2
<1> QED
  BY <1>3, <1>4 DEF WaitOK

\* The properties of the tables when no table changes and contexts only grow.
LEMMA TablesSame ==
    ASSUME EntriesCurrent, OneTablePerSlot, PagerPointers,
           UNCHANGED <<tab, array>>,
           live \subseteq live',
           \A c \in live : regs[c] \subseteq regs'[c]
    PROVE  EntriesCurrent' /\ OneTablePerSlot' /\ PagerPointers'
<1>1. EntriesCurrent'
  BY DEF EntriesCurrent
<1>2. OneTablePerSlot' /\ PagerPointers'
  BY DEF OneTablePerSlot, PagerPointers
<1> QED
  BY <1>1, <1>2

\* In the initial state nobody is in a context and every table is free.
LEMMA PgtInitInv == PgtInit => PgtInv
<1> SUFFICES ASSUME PgtInit PROVE PgtInv
  OBVIOUS
<1>1. PgtTypeOK
  BY PgtAssumption
     DEF PgtInit, PgtTypeOK, NoTable, NoDir, Slots, Pgt
<1>2. \A t \in PgtThreads :
         /\ stack[t] = <<>> /\ cur[t] = NIL /\ at[t] = "kernel"
         /\ pgt_mu[t] = "out" /\ dir[t] = NoDir
  BY DEF PgtInit
<1>3. \A p \in Tables : tab[p].at = "free"
  BY DEF PgtInit, NoTable
<1>4. \A t \in PgtThreads : Own(t) = {}
  BY <1>3, PgtAssumption DEF Own
<1>5. CtxOK
  BY <1>2, PgtAssumption DEF PgtInit, CtxOK, Inside
<1>6. AtOK /\ LockOK /\ OwnOK /\ FlushOK /\ MapOK /\ PagerOK
  BY <1>2, <1>4
     DEF AtOK, LockOK, OwnOK, FlushOK, MapOK, PagerOK, Running, Allocating, Absent
<1>7. WaitOK
  BY <1>2 DEF WaitOK
<1>8. EntriesCurrent /\ OneTablePerSlot
  BY <1>3 DEF EntriesCurrent, OneTablePerSlot
<1>9. PagerPointers
  BY DEF PgtInit, PagerPointers, NoDir
<1> QED
  BY <1>1, <1>5, <1>6, <1>7, <1>8, <1>9 DEF PgtInv

-----------------------------------------------------------------------------
(* Steps that leave the tables alone.                                      *)

\* Return, Unmap and CleanParam: the thread goes on in the context it runs, and
\* removes a region of it that is not its heap.
LEMMA RunningKeeps ==
    ASSUME PgtInv, NEW t \in PgtThreads, Running(t),
           NEW l \in {"return", "clear"}, GoesTo(t, l),
           NEW r \in Region \cup {NIL}, rem' = [rem EXCEPT ![t] = r],
           l = "clear" => r \in regs[cur[t]] /\ r # Heap,
           at[t] \in {"user", "return"},
           UNCHANGED <<pgt_mu, tab, array, regs, live, stack, cur, dir, stale>>
    PROVE  PgtInv'
<1>1. /\ at'[t] = l /\ rem'[t] = r
      /\ \A u \in PgtThreads \ {t} : at'[u] = at[u] /\ rem'[u] = rem[u]
  BY DEF PgtInv, PgtTypeOK, GoesTo
<1>2. PgtTypeOK'
  BY DEF PgtInv, PgtTypeOK, GoesTo
<1>3. /\ \A u \in PgtThreads : Top(u)' = Top(u) /\ Own(u)' = Own(u)
      /\ \A u \in PgtThreads, c \in Ctxs : Inside(u, c)' = Inside(u, c)
      /\ Avail' = Avail
      /\ \A R : Need(R)' = Need(R)
  BY DEF Top, Own, Inside, Avail, Need
<1>4. CtxOK'
  BY <1>3 DEF PgtInv, CtxOK
<1>5. AtOK'
  BY <1>1, <1>3 DEF PgtInv, AtOK, Running, Allocating, Absent
<1>6. LockOK'
  BY <1>1 DEF PgtInv, LockOK
<1>7. OwnOK'
  BY <1>1, <1>3 DEF PgtInv, OwnOK
<1>8. FlushOK'
  BY <1>1 DEF PgtInv, FlushOK, Absent, Allocating
<1>9. MapOK'
  BY <1>1, <1>3 DEF PgtInv, MapOK, Running
<1>10. WaitOK'
  BY <1>1, <1>3, WaitKeeps DEF PgtInv, WillTell, Running
<1>11. EntriesCurrent' /\ OneTablePerSlot' /\ PagerPointers'
  BY TablesSame DEF PgtInv
<1>p. PagerOK'
  BY <1>1, <1>3, PagerKeeps DEF Running
<1> QED
  BY <1>p, <1>2, <1>4, <1>5, <1>6, <1>7, <1>8, <1>9, <1>10, <1>11 DEF PgtInv

\* A TA returns: only where the thread is changes.
LEMMA ReturnKeeps ==
    ASSUME PgtInv, NEW t \in PgtThreads, Return(t)
    PROVE  PgtInv'
<1>1. rem[t] \in Region \cup {NIL} /\ rem' = [rem EXCEPT ![t] = rem[t]]
  BY DEF Return, PgtInv, PgtTypeOK
<1> QED
  BY <1>1, RunningKeeps DEF Return, Running

\* vm_unmap() begins: the thread goes on to clear the tables.
LEMMA UnmapKeeps ==
    ASSUME PgtInv, NEW t \in PgtThreads, NEW r \in Region, Unmap(t, r)
    PROVE  PgtInv'
  BY RunningKeeps DEF Unmap, Running

\* The thread goes on to unmap a parameter of its context.
LEMMA CleanParamKeeps ==
    ASSUME PgtInv, NEW t \in PgtThreads, CleanParam(t)
    PROVE  PgtInv'
<1>1. PICK r \in Params(cur[t]) : rem' = [rem EXCEPT ![t] = r]
  BY DEF CleanParam
<1>2. r \in regs[cur[t]] /\ r.kind = "param" /\ r # Heap
  BY <1>1, HeapRegion DEF Params
<1>3. cur[t] \in Ctxs
  BY DEF CleanParam, PgtInv, AtOK, Running
<1>4. r \in Region
  BY <1>2, <1>3 DEF PgtInv, PgtTypeOK
<1> QED
  BY <1>1, <1>2, <1>4, RunningKeeps DEF CleanParam, Running

\* A thread starts to wait for tables: there are not enough for it.
LEMMA SleepKeeps ==
    ASSUME PgtInv, NEW t \in PgtThreads, Sleep(t)
    PROVE  PgtInv'
<1>1. /\ at[t] = "sleep" /\ at'[t] = "alloc" /\ pgt_mu'[t] = "wait"
      /\ \A u \in PgtThreads \ {t} : at'[u] = at[u] /\ pgt_mu'[u] = pgt_mu[u]
      /\ UNCHANGED <<tab, array, regs, live, stack, cur, dir, rem, stale>>
  BY DEF Sleep, GoesTo, PgtMu!Wait, PgtInv, PgtTypeOK
<1>2. PgtTypeOK'
  BY <1>1 DEF Sleep, GoesTo, PgtMu!Wait, PgtInv, PgtTypeOK
<1>3. /\ \A u \in PgtThreads : Top(u)' = Top(u) /\ Own(u)' = Own(u)
      /\ \A u \in PgtThreads, c \in Ctxs : Inside(u, c)' = Inside(u, c)
      /\ Avail' = Avail
      /\ \A R : Need(R)' = Need(R)
  BY <1>1 DEF Top, Own, Inside, Avail, Need
<1>4. CtxOK'
  BY <1>1, <1>3 DEF PgtInv, CtxOK
<1>5. AtOK'
  BY <1>1, <1>3 DEF PgtInv, AtOK, Running, Allocating, Absent
<1>6. LockOK'
  BY <1>1 DEF PgtInv, LockOK
<1>7. OwnOK'
  BY <1>1, <1>3 DEF PgtInv, OwnOK, AtOK
<1>8. FlushOK'
  BY <1>1 DEF PgtInv, FlushOK, Absent, Allocating
<1>9. MapOK'
  BY <1>1, <1>3 DEF PgtInv, MapOK, Running
<1>10. WaitOK'
  <2>1. \A u \in PgtThreads : WillTell(u)' = WillTell(u)
    BY <1>1, <1>3 DEF WillTell, Running, PgtInv, AtOK
  <2>2. Need(regs[Top(t)])' = Need(regs[Top(t)])
    BY <1>1, <1>3
  <2>3. Cardinality(Avail) < Cardinality(Need(regs[Top(t)]))
    BY <1>1 DEF PgtInv, WaitOK
  <2>4. Cardinality(Avail) \in Nat /\ Cardinality(Need(regs[Top(t)])) \in Nat
    BY Finite DEF Avail
  <2>5. ~(Cardinality(Avail) >= Cardinality(Need(regs[Top(t)])))
    BY <2>3, <2>4
  <2>6. \A u \in PgtThreads : Need(regs[Top(u)])' = Need(regs[Top(u)])
    BY <1>1, <1>3
  <2> QED
    BY <1>1, <1>3, <2>1, <2>2, <2>5, <2>6 DEF PgtInv, WaitOK
<1>11. EntriesCurrent' /\ OneTablePerSlot' /\ PagerPointers'
  BY <1>1, TablesSame DEF PgtInv
<1>p. PagerOK'
  BY <1>1, PagerKeeps DEF Running
<1> QED
  BY <1>p, <1>2, <1>4, <1>5, <1>6, <1>7, <1>8, <1>9, <1>10, <1>11 DEF PgtInv

\* A context is created.
LEMMA CreateKeeps ==
    ASSUME PgtInv, NEW c \in Ctxs, Create(c)
    PROVE  PgtInv'
<1>1. /\ c \notin live /\ live' = live \cup {c}
      /\ regs'[c] = {Heap} /\ \A d \in Ctxs \ {c} : regs'[d] = regs[d]
      /\ UNCHANGED <<pgt_mu, tab, array, stack, cur, dir, rem, stale, at>>
  BY DEF Create, PgtInv, PgtTypeOK
<1>2. PgtTypeOK'
  BY PgtAssumption DEF Create, PgtInv, PgtTypeOK, Heap, Region, Slots
<1>3. /\ \A u \in PgtThreads : Top(u)' = Top(u) /\ Own(u)' = Own(u)
      /\ \A u \in PgtThreads, d \in Ctxs : Inside(u, d)' = Inside(u, d)
      /\ Avail' = Avail
      /\ \A R : Need(R)' = Need(R)
  BY <1>1 DEF Top, Own, Inside, Avail, Need
<1>4. \A u \in PgtThreads : ~Inside(u, c)
  BY <1>1 DEF PgtInv, CtxOK
<1>5. \A u \in PgtThreads :
         /\ cur[u] # c /\ Top(u) # c
         /\ cur[u] \in Ctxs => regs'[cur[u]] = regs[cur[u]]
         /\ Top(u) \in Ctxs => regs'[Top(u)] = regs[Top(u)]
  BY <1>1, <1>4, TopInside DEF PgtInv, Inside
<1>6. CtxOK'
  BY <1>1, <1>3, <1>4 DEF PgtInv, CtxOK, PgtTypeOK
<1>7. AtOK'
  BY <1>1, <1>3, <1>5 DEF PgtInv, AtOK, Running, Allocating, Absent
<1>8. LockOK'
  BY <1>1 DEF PgtInv, LockOK
<1>9. OwnOK'
  BY <1>1, <1>3, <1>5 DEF PgtInv, OwnOK, AtOK, Allocating
<1>10. FlushOK'
  BY <1>1 DEF PgtInv, FlushOK, Absent, Allocating
<1>11. MapOK'
  BY <1>1, <1>3, <1>5 DEF PgtInv, MapOK, Running, AtOK
<1>12. WaitOK'
  <2>1. \A u \in PgtThreads : WillTell(u)' = WillTell(u)
    BY <1>1, <1>3 DEF WillTell, Running
  <2>2. \A u \in PgtThreads : pgt_mu[u] = "wait" \/ at[u] = "sleep" => Top(u) \in Ctxs
    BY DEF PgtInv, LockOK, AtOK, Allocating
  <2>3. \A u \in PgtThreads : pgt_mu[u] = "wait" \/ at[u] = "sleep" =>
           Need(regs[Top(u)])' = Need(regs[Top(u)])
    BY <1>3, <1>5, <2>2
  <2> QED
    BY <1>1, <1>3, <2>1, <2>3, WaitKeeps DEF PgtInv
<1>13. EntriesCurrent' /\ OneTablePerSlot' /\ PagerPointers'
  BY <1>1, TablesSame DEF PgtInv, PgtTypeOK
<1>p. PagerOK'
  BY <1>1, <1>5, PagerKeeps DEF Running, PgtInv, AtOK
<1> QED
  BY <1>p, <1>2, <1>6, <1>7, <1>8, <1>9, <1>10, <1>11, <1>12, <1>13 DEF PgtInv

\* A thread enters a context that nobody is inside of; its parameters are added.
LEMMA EnterKeeps ==
    ASSUME PgtInv, NEW t \in PgtThreads, NEW c \in Ctxs,
           NEW P \in SUBSET Region, Enter(t, c, P)
    PROVE  PgtInv'
<1>1. /\ at[t] \in {"kernel", "user"} /\ at'[t] = "free"
      /\ dir'[t] = NoDir /\ stack'[t] = Append(stack[t], c)
      /\ \A u \in PgtThreads \ {t} :
            /\ at'[u] = at[u] /\ dir'[u] = dir[u] /\ stack'[u] = stack[u]
            /\ u \in stale' <=> u \in stale
      /\ regs'[c] = regs[c] \cup P /\ \A d \in Ctxs \ {c} : regs'[d] = regs[d]
      /\ c \in live /\ Len(stack[t]) < MaxNest
      /\ UNCHANGED <<pgt_mu, tab, array, live, cur, rem>>
  BY DEF Enter, ResetDir, GoesTo, PgtInv, PgtTypeOK
<1>2. \A u \in PgtThreads : ~Inside(u, c)
  BY DEF Enter, Busy
<1>3. stack[t] \in Seq(Ctxs)
  BY DEF PgtInv, PgtTypeOK
<1>4. PgtTypeOK'
  <2>1. regs' \in [Ctxs -> SUBSET Region]
    BY DEF Enter, PgtInv, PgtTypeOK
  <2>2. stack' \in [PgtThreads -> Seq(Ctxs)]
    BY <1>3 DEF Enter, PgtInv, PgtTypeOK
  <2>3. \A u \in PgtThreads : Len(stack'[u]) <= MaxNest
    <3>1. Len(stack'[t]) = Len(stack[t]) + 1 /\ Len(stack[t]) \in Nat
      BY <1>1, <1>3
    <3>2. Len(stack'[t]) <= MaxNest
      BY <1>1, <3>1, PgtAssumption
    <3>3. \A u \in PgtThreads \ {t} : Len(stack'[u]) <= MaxNest
      BY <1>1 DEF PgtInv, PgtTypeOK
    <3> QED
      BY <3>2, <3>3
  <2>4. dir' \in [PgtThreads -> [Slots -> Tables \cup {NIL}]]
    BY DEF Enter, ResetDir, PgtInv, PgtTypeOK, NoDir
  <2>5. at' \in [PgtThreads -> {"kernel", "free", "alloc", "pop", "sleep", "user",
                                "return", "clear", "flush"}]
    BY DEF Enter, GoesTo, PgtInv, PgtTypeOK
  <2>6. stale' \subseteq PgtThreads
    BY DEF Enter, ResetDir, PgtInv, PgtTypeOK
  <2> QED
    BY <1>1, <2>1, <2>2, <2>3, <2>4, <2>5, <2>6 DEF PgtInv, PgtTypeOK
<1>5. /\ \A u \in PgtThreads : Own(u)' = Own(u)
      /\ \A u \in PgtThreads \ {t} : Top(u)' = Top(u)
      /\ Avail' = Avail
      /\ \A R : Need(R)' = Need(R)
  BY <1>1 DEF Top, Own, Avail, Need
<1>6. \A u \in PgtThreads, d \in Ctxs :
         Inside(u, d)' => Inside(u, d) \/ (u = t /\ d = c)
  <2>1. \A i \in DOMAIN stack'[t] : \/ i \in DOMAIN stack[t] /\ stack'[t][i] = stack[t][i]
                                    \/ stack'[t][i] = c
    BY <1>1, <1>3
  <2> QED
    BY <1>1, <2>1 DEF Inside
<1>7. \A u \in PgtThreads :
         /\ cur[u] # c /\ Top(u) # c
         /\ cur[u] \in Ctxs => regs'[cur[u]] = regs[cur[u]]
         /\ Top(u) \in Ctxs => regs'[Top(u)] = regs[Top(u)]
  BY <1>1, <1>2, TopInside DEF PgtInv, Inside
<1>8. pgt_mu[t] = "out"
  BY <1>1, OutsideAlloc DEF Allocating
<1>9. CtxOK'
  <2>1. \A u, v \in PgtThreads, d \in Ctxs : Inside(u, d)' /\ Inside(v, d)' => u = v
    BY <1>2, <1>6 DEF PgtInv, CtxOK
  <2>2. \A u \in PgtThreads, d \in Ctxs : Inside(u, d)' => d \in live'
    BY <1>1, <1>6 DEF PgtInv, CtxOK
  <2>3. \A d \in live' : Heap \in regs'[d]
    BY <1>1 DEF PgtInv, CtxOK, PgtTypeOK
  <2>4. Heap' = Heap
    BY DEF Heap
  <2> QED
    BY <2>1, <2>2, <2>3, <2>4 DEF CtxOK
<1>10. AtOK'
  BY <1>1, <1>5, <1>7 DEF PgtInv, AtOK, Running, Allocating, Absent
<1>11. LockOK'
  BY <1>1, <1>8 DEF PgtInv, LockOK
<1>12. OwnOK'
  BY <1>1, <1>5, <1>7 DEF PgtInv, OwnOK, AtOK, Allocating
<1>13. FlushOK'
  BY <1>1 DEF PgtInv, FlushOK, Absent, Allocating
<1>14. MapOK'
  BY <1>1, <1>5, <1>7 DEF PgtInv, MapOK, Running, AtOK
<1>15. WaitOK'
  <2>1. \A u \in PgtThreads : WillTell(u) => WillTell(u)'
    BY <1>1, <1>5 DEF WillTell, Running
  <2>2. \A u \in PgtThreads : pgt_mu'[u] = "wait" \/ at'[u] = "sleep" =>
           u # t /\ Top(u) \in Ctxs
    BY <1>1, <1>8 DEF PgtInv, LockOK, AtOK, Allocating
  <2>3. \A u \in PgtThreads : pgt_mu'[u] = "wait" \/ at'[u] = "sleep" =>
           Need(regs[Top(u)])' = Need(regs[Top(u)])
    BY <1>5, <1>7, <2>2
  <2> QED
    BY <1>1, <1>5, <2>1, <2>3, WaitKeeps DEF PgtInv
<1>16. EntriesCurrent' /\ OneTablePerSlot' /\ PagerPointers'
  <2>1. live' = live /\ \A d \in live : regs[d] \subseteq regs'[d]
    BY <1>1 DEF PgtInv, PgtTypeOK
  <2> QED
    BY <1>1, <2>1, TablesSame DEF PgtInv
<1>p. PagerOK'
  BY <1>1, <1>7, PagerKeeps DEF Running, PgtInv, AtOK
<1> QED
  BY <1>p, <1>4, <1>9, <1>10, <1>11, <1>12, <1>13, <1>14, <1>15, <1>16 DEF PgtInv

\* A thread adds memory to the context that it runs.
LEMMA MapKeeps ==
    ASSUME PgtInv, NEW t \in PgtThreads, NEW r \in Region, Map(t, r)
    PROVE  PgtInv'
<1>1. /\ at[t] = "user" /\ at'[t] = "alloc"
      /\ rem'[t] = r
      /\ \A u \in PgtThreads \ {t} : at'[u] = at[u] /\ rem'[u] = rem[u]
      /\ UNCHANGED <<pgt_mu, tab, array, live, stack, cur, dir, stale>>
  BY DEF Map, GoesTo, PgtInv, PgtTypeOK
<1>2. PICK c \in Ctxs : c = cur[t]
  BY <1>1 DEF PgtInv, AtOK, Running
<1>3. regs'[c] = regs[c] \cup {r} /\ \A d \in Ctxs \ {c} : regs'[d] = regs[d]
  BY <1>2 DEF Map, PgtInv, PgtTypeOK
<1>4. Inside(t, c) /\ c \in live
  BY <1>2 DEF Inside, PgtInv, CtxOK
<1>5. PgtTypeOK'
  BY <1>1 DEF Map, GoesTo, PgtInv, PgtTypeOK
<1>6. /\ \A u \in PgtThreads : Own(u)' = Own(u) /\ Top(u)' = Top(u)
      /\ \A u \in PgtThreads, d \in Ctxs : Inside(u, d)' = Inside(u, d)
      /\ Avail' = Avail
      /\ \A R : Need(R)' = Need(R)
  BY <1>1 DEF Top, Own, Avail, Need, Inside
<1>7. \A u \in PgtThreads \ {t} : ~Inside(u, c)
  BY <1>4 DEF PgtInv, CtxOK
<1>8. \A u \in PgtThreads \ {t} :
         /\ cur[u] # c /\ Top(u) # c
         /\ cur[u] \in Ctxs => regs'[cur[u]] = regs[cur[u]]
         /\ Top(u) \in Ctxs => regs'[Top(u)] = regs[Top(u)]
  BY <1>3, <1>7, TopInside DEF PgtInv, Inside
<1>9. pgt_mu[t] = "out"
  BY <1>1, OutsideAlloc DEF Allocating
<1>10. dir[t] # NoDir /\ r \notin regs[c] /\ r # Heap
  <2>1. dir[t] # NoDir /\ Heap \in regs[c]
    BY <1>1, <1>4 DEF PgtInv, AtOK, Running, CtxOK
  <2>2. r \notin regs[c]
    BY <1>2 DEF Map, Fits
  <2> QED
    BY <2>1, <2>2
<1>11. CtxOK'
  BY <1>1, <1>3, <1>6 DEF PgtInv, CtxOK, PgtTypeOK
<1>12. AtOK'
  BY <1>1, <1>2, <1>3, <1>6, <1>8, <1>10 DEF PgtInv, AtOK, Running, Allocating, Absent
<1>13. LockOK'
  BY <1>1, <1>9 DEF PgtInv, LockOK
<1>14. OwnOK'
  BY <1>1, <1>6, <1>8 DEF PgtInv, OwnOK, AtOK, Allocating
<1>15. FlushOK'
  <2>1. \A p \in Tables : tab[p].at # "free" /\ tab[p].ctx = c => r \notin tab[p].tbl
    BY <1>10 DEF PgtInv, EntriesCurrent
  <2> QED
    BY <1>1, <1>2, <2>1 DEF PgtInv, FlushOK, Absent, Allocating
<1>16. MapOK'
  BY <1>1, <1>6, <1>8 DEF PgtInv, MapOK, Running, AtOK
<1>17. WaitOK'
  <2>1. \A u \in PgtThreads : WillTell(u) => WillTell(u)'
    BY <1>1, <1>6 DEF WillTell, Running
  <2>2. \A u \in PgtThreads : pgt_mu'[u] = "wait" \/ at'[u] = "sleep" =>
           u # t /\ Top(u) \in Ctxs
    BY <1>1, <1>9 DEF PgtInv, LockOK, AtOK, Allocating
  <2>3. \A u \in PgtThreads : pgt_mu'[u] = "wait" \/ at'[u] = "sleep" =>
           Need(regs[Top(u)])' = Need(regs[Top(u)])
    BY <1>6, <1>8, <2>2
  <2> QED
    BY <1>1, <1>6, <2>1, <2>3, WaitKeeps DEF PgtInv
<1>18. EntriesCurrent' /\ OneTablePerSlot' /\ PagerPointers'
  <2>1. live' = live /\ \A d \in live : regs[d] \subseteq regs'[d]
    BY <1>1, <1>3 DEF PgtInv, PgtTypeOK
  <2> QED
    BY <1>1, <2>1, TablesSame DEF PgtInv
<1>p. PagerOK'
  BY <1>1, <1>8, PagerKeeps DEF Running, PgtInv, AtOK
<1> QED
  BY <1>p, <1>5, <1>11, <1>12, <1>13, <1>14, <1>15, <1>16, <1>17, <1>18 DEF PgtInv

\* A thread leaves a context; it stays the thread's until its tables are given
\* back.
LEMMA LeaveKeeps ==
    ASSUME PgtInv, NEW t \in PgtThreads, Leave(t)
    PROVE  PgtInv'
<1>1. /\ at[t] = "return" /\ at'[t] = "free" /\ dir'[t] = NoDir
      /\ stack'[t] = SubSeq(stack[t], 1, Len(stack[t]) - 1)
      /\ \A u \in PgtThreads \ {t} :
            /\ at'[u] = at[u] /\ dir'[u] = dir[u] /\ stack'[u] = stack[u]
            /\ u \in stale' <=> u \in stale
      /\ UNCHANGED <<pgt_mu, tab, array, regs, live, cur, rem>>
  BY DEF Leave, ResetDir, GoesTo, PgtInv, PgtTypeOK
<1>2. stack[t] \in Seq(Ctxs) /\ stack[t] # <<>>
  BY <1>1, TopInside DEF PgtInv, PgtTypeOK, AtOK, Running
<1>3. /\ stack'[t] \in Seq(Ctxs) /\ Len(stack'[t]) = Len(stack[t]) - 1
      /\ Len(stack[t]) \in Nat
      /\ \A i \in DOMAIN stack'[t] :
            i \in DOMAIN stack[t] /\ stack'[t][i] = stack[t][i]
  BY <1>1, <1>2
<1>4. PgtTypeOK'
  <2>1. stack' \in [PgtThreads -> Seq(Ctxs)]
    BY <1>1, <1>3 DEF Leave, PgtInv, PgtTypeOK
  <2>2. \A u \in PgtThreads : Len(stack'[u]) <= MaxNest
    <3>1. Len(stack[t]) <= MaxNest
      BY DEF PgtInv, PgtTypeOK
    <3>2. Len(stack'[t]) <= MaxNest
      BY <1>3, <3>1, PgtAssumption
    <3>3. \A u \in PgtThreads \ {t} : Len(stack'[u]) <= MaxNest
      BY <1>1 DEF PgtInv, PgtTypeOK
    <3> QED
      BY <3>2, <3>3
  <2>3. dir' \in [PgtThreads -> [Slots -> Tables \cup {NIL}]]
    BY DEF Leave, ResetDir, PgtInv, PgtTypeOK, NoDir
  <2>4. at' \in [PgtThreads -> {"kernel", "free", "alloc", "pop", "sleep", "user",
                                "return", "clear", "flush"}]
    BY DEF Leave, GoesTo, PgtInv, PgtTypeOK
  <2>5. stale' \subseteq PgtThreads
    BY DEF Leave, ResetDir, PgtInv, PgtTypeOK
  <2> QED
    BY <1>1, <2>1, <2>2, <2>3, <2>4, <2>5 DEF PgtInv, PgtTypeOK
<1>5. /\ \A u \in PgtThreads : Own(u)' = Own(u)
      /\ \A u \in PgtThreads \ {t} : Top(u)' = Top(u)
      /\ Avail' = Avail
      /\ \A R : Need(R)' = Need(R)
  BY <1>1 DEF Top, Own, Avail, Need
<1>6. \A u \in PgtThreads, d \in Ctxs : Inside(u, d)' => Inside(u, d)
  BY <1>1, <1>3 DEF Inside
<1>7. pgt_mu[t] = "out"
  BY <1>1, OutsideAlloc DEF Allocating
<1>8. CtxOK'
  BY <1>1, <1>6 DEF PgtInv, CtxOK
<1>9. AtOK'
  BY <1>1, <1>5 DEF PgtInv, AtOK, Running, Allocating, Absent
<1>10. LockOK'
  BY <1>1, <1>7 DEF PgtInv, LockOK
<1>11. OwnOK'
  BY <1>1, <1>5 DEF PgtInv, OwnOK
<1>12. FlushOK'
  BY <1>1 DEF PgtInv, FlushOK, Absent, Allocating
<1>13. MapOK'
  BY <1>1, <1>5 DEF PgtInv, MapOK, Running
<1>14. WaitOK'
  <2>1. \A u \in PgtThreads : WillTell(u) => WillTell(u)'
    BY <1>1, <1>5 DEF WillTell, Running
  <2>2. \A u \in PgtThreads : pgt_mu'[u] = "wait" \/ at'[u] = "sleep" =>
           Need(regs[Top(u)])' = Need(regs[Top(u)])
    BY <1>1, <1>5, <1>7
  <2> QED
    BY <1>1, <1>5, <2>1, <2>2, WaitKeeps DEF PgtInv
<1>15. EntriesCurrent' /\ OneTablePerSlot' /\ PagerPointers'
  BY <1>1, TablesSame DEF PgtInv
<1>p. PagerOK'
  BY <1>1, PagerKeeps DEF Running
<1> QED
  BY <1>p, <1>4, <1>8, <1>9, <1>10, <1>11, <1>12, <1>13, <1>14, <1>15 DEF PgtInv

-----------------------------------------------------------------------------
(* Steps that change the entries of tables.                                *)

\* Tables stay where they are, and the pager forgets tables at most.
LEMMA EntriesKeep ==
    ASSUME PgtInv, PgtTypeOK', EntriesCurrent', FlushOK', PagerOK',
           \A p \in Tables : /\ tab'[p].at = tab[p].at
                             /\ tab'[p].ctx = tab[p].ctx
                             /\ tab'[p].base = tab[p].base,
           \A c \in Ctxs, s \in Slots : array'[c][s] \in {array[c][s], NIL},
           \A u \in PgtThreads :
              at'[u] = at[u] \/ (at[u] = "clear" /\ at'[u] = "flush"),
           UNCHANGED <<pgt_mu, regs, live, stack, cur, dir, rem, stale>>
    PROVE  PgtInv'
<1>1. /\ \A u \in PgtThreads : Own(u)' = Own(u) /\ Top(u)' = Top(u)
      /\ \A u \in PgtThreads, d \in Ctxs : Inside(u, d)' = Inside(u, d)
      /\ Avail' = Avail
      /\ \A R : Need(R)' = Need(R)
  BY DEF Top, Own, Avail, Need, Inside
<1>2. \A u \in PgtThreads : \A p \in Own(u) : p \in Tables
  BY DEF Own
<1>3. CtxOK'
  BY <1>1 DEF PgtInv, CtxOK
<1>4. AtOK'
  BY <1>1 DEF PgtInv, AtOK, Running, Allocating, Absent
<1>5. LockOK'
  BY DEF PgtInv, LockOK
<1>6. OwnOK'
  BY <1>1, <1>2 DEF PgtInv, OwnOK
<1>7. MapOK'
  BY <1>1, <1>2 DEF PgtInv, MapOK, Running
<1>8. WaitOK'
  <2>1. \A u \in PgtThreads : WillTell(u) => WillTell(u)'
    BY <1>1 DEF WillTell, Running
  <2>2. \A u \in PgtThreads : Need(regs[Top(u)])' = Need(regs[Top(u)])
    BY <1>1
  <2> QED
    BY <1>1, <2>1, <2>2, WaitKeeps DEF PgtInv
<1>9. OneTablePerSlot'
  BY DEF PgtInv, OneTablePerSlot
<1>10. PagerPointers'
  <2> SUFFICES ASSUME NEW c \in Ctxs, NEW s \in Slots, array'[c][s] # NIL
               PROVE  /\ tab'[array'[c][s]].at # "free"
                      /\ tab'[array'[c][s]].ctx = c
                      /\ tab'[array'[c][s]].base = s
    BY DEF PagerPointers, Slots
  <2>1. array'[c][s] = array[c][s] /\ array[c][s] \in Tables
    BY DEF PgtInv, PgtTypeOK
  <2> QED
    BY <2>1 DEF PgtInv, PagerPointers
<1> QED
  BY <1>3, <1>4, <1>5, <1>6, <1>7, <1>8, <1>9, <1>10 DEF PgtInv

\* The pager adds an entry for a region of the context, in the table that its
\* pointer leads to.
LEMMA PageInKeeps ==
    ASSUME PgtInv, NEW t \in PgtThreads, NEW r \in Region,
           NEW s \in Span(r), PageIn(t, r, s)
    PROVE  PgtInv'
<1>1. PICK p : /\ p = array[cur[t]][s] /\ p # NIL
               /\ tab' = [tab EXCEPT ![p].tbl = @ \cup {r}]
  BY DEF PageIn
<1>2. /\ at[t] = "user" /\ r \in regs[cur[t]]
      /\ UNCHANGED <<pgt_mu, array, regs, live, stack, cur, dir, rem, stale, at>>
  BY DEF PageIn
<1>3. cur[t] \in Ctxs /\ s \in Slots
  BY <1>2, SpanSlots DEF PgtInv, AtOK, Running
<1>4. p \in Tables /\ tab[p].at # "free" /\ tab[p].ctx = cur[t] /\ tab[p].base = s
  BY <1>1, <1>3 DEF PgtInv, PgtTypeOK, PagerPointers
<1>5. /\ \A q \in Tables : /\ tab'[q].at = tab[q].at
                           /\ tab'[q].ctx = tab[q].ctx
                           /\ tab'[q].base = tab[q].base
      /\ tab'[p].tbl = tab[p].tbl \cup {r}
      /\ \A q \in Tables \ {p} : tab'[q] = tab[q]
  BY <1>1, <1>4 DEF PgtInv, PgtTypeOK, Pgt
<1>6. PgtTypeOK'
  <2>1. [tab[p] EXCEPT !.tbl = @ \cup {r}] \in Pgt
    BY <1>4, PgtChanged DEF PgtInv, PgtTypeOK
  <2> QED
    BY <1>1, <1>2, <1>4, <2>1 DEF PgtInv, PgtTypeOK
<1>7. EntriesCurrent'
  BY <1>2, <1>4, <1>5 DEF PgtInv, EntriesCurrent
<1>8. FlushOK'
  <2>1. \A u \in PgtThreads : Absent(u) => u # t /\ Inside(u, cur[u]) /\ cur[u] \in Ctxs
    BY <1>2 DEF PgtInv, AtOK, Running, Allocating, Absent, Inside
  <2>2. \A u \in PgtThreads : Absent(u) => cur[u] # cur[t]
    BY <1>3, <2>1 DEF PgtInv, CtxOK, Inside
  <2>3. \A u \in PgtThreads : Absent(u)' = Absent(u)
    BY <1>2 DEF Absent, Allocating, NoDir, Slots
  <2> QED
    BY <1>2, <1>4, <1>5, <2>2, <2>3 DEF PgtInv, FlushOK
<1>p. PagerOK'
  BY <1>2, PagerKeeps DEF Running
<1> QED
  BY <1>p, <1>2, <1>5, <1>6, <1>7, <1>8, EntriesKeep

\* The pager removes an entry.
LEMMA PageOutKeeps ==
    ASSUME PgtInv, NEW c \in Ctxs, NEW r \in Region,
           NEW s \in Span(r), PageOut(c, r, s)
    PROVE  PgtInv'
<1>1. PICK p : /\ p = array[c][s] /\ p # NIL
               /\ tab' = [tab EXCEPT ![p].tbl = @ \ {r}]
  BY DEF PageOut
<1>2. UNCHANGED <<pgt_mu, array, regs, live, stack, cur, dir, rem, stale, at>>
  BY DEF PageOut
<1>3. p \in Tables
  BY <1>1, SpanSlots DEF PgtInv, PgtTypeOK
<1>4. /\ \A q \in Tables : /\ tab'[q].at = tab[q].at
                           /\ tab'[q].ctx = tab[q].ctx
                           /\ tab'[q].base = tab[q].base
                           /\ tab'[q].tbl \subseteq tab[q].tbl
  BY <1>1, <1>3 DEF PgtInv, PgtTypeOK
<1>5. PgtTypeOK'
  <2>1. [tab[p] EXCEPT !.tbl = @ \ {r}] \in Pgt
    BY <1>3, PgtChanged DEF PgtInv, PgtTypeOK
  <2> QED
    BY <1>1, <1>2, <1>3, <2>1 DEF PgtInv, PgtTypeOK
<1>6. EntriesCurrent'
  BY <1>2, <1>4 DEF PgtInv, EntriesCurrent
<1>7. FlushOK'
  BY <1>2, <1>4 DEF PgtInv, FlushOK, Absent, Allocating
<1>p. PagerOK'
  BY <1>2, PagerKeeps DEF Running
<1> QED
  BY <1>p, <1>2, <1>4, <1>5, <1>6, <1>7, EntriesKeep

\* The region that is removed leaves the tables of the thread and the cache, and
\* no other thread has tables of the context.
LEMMA ClearKeeps ==
    ASSUME PgtInv, NEW t \in PgtThreads, Clear(t)
    PROVE  PgtInv'
<1>1. PICK c \in Ctxs, r \in Region : c = cur[t] /\ r = rem[t]
  <2>1. at[t] = "clear"
    BY DEF Clear
  <2>2. cur[t] \in Ctxs /\ rem[t] \in regs[cur[t]]
    BY <2>1 DEF PgtInv, AtOK, Running
  <2> QED
    BY <2>2 DEF PgtInv, PgtTypeOK
<1>2. /\ at[t] = "clear" /\ at'[t] = "flush"
      /\ \A u \in PgtThreads \ {t} : at'[u] = at[u]
      /\ UNCHANGED <<pgt_mu, regs, live, stack, cur, dir, rem, stale>>
  BY DEF Clear, GoesTo, PgtInv, PgtTypeOK
<1>3. /\ tab' = [p \in Tables |->
                   IF tab[p].ctx = c /\ tab[p].at \in {t, "cache"}
                   THEN [tab[p] EXCEPT !.tbl = @ \ {r}] ELSE tab[p]]
      /\ array' = IF r.kind = "param" THEN array
                  ELSE [array EXCEPT ![c] = [s \in Slots |->
                          IF s \in Span(r) /\ ~Shared(c, r, s, {"paged"}) THEN NIL
                          ELSE @[s]]]
  BY <1>1 DEF Clear
<1>4. \A p \in Tables :
         /\ tab'[p].at = tab[p].at
         /\ tab'[p].ctx = tab[p].ctx
         /\ tab'[p].base = tab[p].base
         /\ tab'[p].tbl \subseteq tab[p].tbl
         /\ tab[p].ctx = c /\ tab[p].at \in {t, "cache"} => r \notin tab'[p].tbl
  BY <1>3 DEF PgtInv, PgtTypeOK
<1>5. PgtTypeOK'
  <2>1. tab' \in [Tables -> Pgt]
    <3>1. \A p \in Tables : tab[p] \in Pgt /\ [tab[p] EXCEPT !.tbl = @ \ {r}] \in Pgt
      BY PgtChanged DEF PgtInv, PgtTypeOK
    <3> QED
      BY <1>3, <3>1
  <2>2. array' \in [Ctxs -> [Slots -> Tables \cup {NIL}]]
    BY <1>3 DEF PgtInv, PgtTypeOK
  <2>3. at' \in [PgtThreads -> {"kernel", "free", "alloc", "pop", "sleep", "user",
                                "return", "clear", "flush"}]
    BY DEF Clear, GoesTo, PgtInv, PgtTypeOK
  <2> QED
    BY <1>2, <2>1, <2>2, <2>3 DEF PgtInv, PgtTypeOK
<1>6. \A d \in Ctxs, s \in Slots : array'[d][s] \in {array[d][s], NIL}
  BY <1>3 DEF PgtInv, PgtTypeOK
<1>7. EntriesCurrent'
  BY <1>2, <1>4 DEF PgtInv, EntriesCurrent
<1>8. \A p \in Tables :
         tab[p].at # "free" /\ tab[p].ctx = c => tab[p].at \in {t, "cache"}
  <2> SUFFICES ASSUME NEW p \in Tables, tab[p].at \in PgtThreads, p \in Own(tab[p].at),
                      tab[p].ctx = c
               PROVE  tab[p].at = t
    BY TabPlaces DEF PgtInv
  <2>1. Inside(tab[p].at, c)
    BY OwnInside
  <2>2. Inside(t, c)
    BY <1>1 DEF Inside
  <2> QED
    BY <2>1, <2>2 DEF PgtInv, CtxOK
<1>9. FlushOK'
  <2>1. \A u \in PgtThreads \ {t} : Absent(u)' = Absent(u)
    BY <1>2 DEF Absent, Allocating, NoDir, Slots
  <2>2. \A u \in PgtThreads \ {t}, p \in Tables :
           Absent(u) /\ tab[p].at # "free" /\ tab[p].ctx = cur[u]
              => rem[u] \notin tab'[p].tbl
    BY <1>4 DEF PgtInv, FlushOK
  <2>3. \A p \in Tables : tab[p].at # "free" /\ tab[p].ctx = c => r \notin tab'[p].tbl
    BY <1>4, <1>8
  <2> QED
    BY <1>1, <1>2, <1>4, <2>1, <2>2, <2>3 DEF FlushOK
<1>p. PagerOK'
  <2>1. ASSUME NEW q \in regs[c], q.kind = "paged", q # r, NEW s \in Span(q)
        PROVE  array'[c][s] = array[c][s]
    <3>1. s \in Slots
      BY SpanSlots DEF PgtInv, PgtTypeOK
    <3>2. Shared(c, r, s, {"paged"})
      BY <2>1 DEF Shared
    <3> QED
      BY <1>3, <3>1, <3>2 DEF PgtInv, PgtTypeOK
  <2>2. \A u \in PgtThreads \ {t} : Running(u) => cur[u] \in Ctxs \ {c}
    BY <1>1 DEF PgtInv, AtOK, CtxOK, Inside
  <2>3. \A d \in Ctxs \ {c} : array'[d] = array[d]
    BY <1>3 DEF PgtInv, PgtTypeOK
  <2>4. ASSUME NEW u \in PgtThreads \ {t}, Running(u)
        PROVE  /\ at'[u] = at[u] /\ array'[cur[u]] = array[cur[u]]
    BY <1>2, <2>2, <2>3, <2>4
  <2>5. at[t] = "clear" /\ at'[t] = "flush" /\ cur[t] = c /\ rem'[t] = r
    BY <1>1, <1>2
  <2> QED
    BY <1>2, <2>1, <2>4, <2>5, PagerKeeps DEF Running
<1> QED
  BY <1>p, <1>2, <1>4, <1>5, <1>6, <1>7, <1>9, EntriesKeep

-----------------------------------------------------------------------------
(* Steps that give tables back.                                            *)

\* What giving back the tables in S, those in K to the cache, does.
GivenBack(S, K) ==
    /\ tab' \in [Tables -> Pgt]
    /\ array' \in [Ctxs -> [Slots -> Tables \cup {NIL}]]
    /\ \A p \in K : /\ tab'[p].at = "cache"
                     /\ tab'[p].ctx = tab[p].ctx
                     /\ tab'[p].base = tab[p].base
                     /\ tab'[p].tbl = tab[p].tbl
    /\ \A p \in S \ K : tab'[p].at = "free"
    /\ \A p \in Tables \ S : tab'[p] = tab[p]
    /\ \A c \in Ctxs, s \in Slots :
          array'[c][s] = IF array[c][s] \in S \ K THEN NIL ELSE array[c][s]

\* GiveBack() leaves the tables S free or cached, and the others alone.
LEMMA GiveBackEffect ==
    ASSUME PgtTypeOK, NEW S \in SUBSET Tables, NEW K \in SUBSET S, GiveBack(S, K)
    PROVE  GivenBack(S, K)
<1>1. \A p \in Tables : /\ ReleasedTable(p) \in Pgt
                        /\ ReleasedTable(p).at = "free"
  <2> TAKE p \in Tables
  <2> DEFINE T == {r \in tab[p].tbl : r.kind # "paged"}
  <2>1. T \in SUBSET Region
    BY PgtChanged DEF PgtTypeOK
  <2>2. ReleasedTable(p) = [NoTable EXCEPT !.tbl = T]
    BY DEF ReleasedTable
  <2> HIDE DEF T
  <2> QED
    BY <2>1, <2>2 DEF NoTable, Pgt
<1>2. \A p \in Tables : tab[p] \in Pgt /\ [tab[p] EXCEPT !.at = "cache"] \in Pgt
  BY PgtChanged DEF PgtTypeOK
<1>3. tab' = [p \in Tables |-> IF p \in K THEN [tab[p] EXCEPT !.at = "cache"]
                              ELSE IF p \in S THEN ReleasedTable(p)
                              ELSE tab[p]]
  BY DEF GiveBack
<1>4. tab' \in [Tables -> Pgt]
  BY <1>1, <1>2, <1>3
<1>5. \A p \in K : tab'[p] = [tab[p] EXCEPT !.at = "cache"]
  BY <1>3
<1>6. \A p \in K : /\ tab'[p].at = "cache"
                   /\ tab'[p].ctx = tab[p].ctx
                   /\ tab'[p].base = tab[p].base
                   /\ tab'[p].tbl = tab[p].tbl
  BY <1>2, <1>5 DEF Pgt
<1>7. /\ \A p \in S \ K : tab'[p].at = "free"
      /\ \A p \in Tables \ S : tab'[p] = tab[p]
  BY <1>1, <1>3
<1>8. /\ array' \in [Ctxs -> [Slots -> Tables \cup {NIL}]]
      /\ \A c \in Ctxs, s \in Slots :
            array'[c][s] = IF array[c][s] \in S \ K THEN NIL ELSE array[c][s]
  BY DEF GiveBack, Forget, PgtTypeOK
<1> QED
  BY <1>4, <1>6, <1>7, <1>8 DEF GivenBack

\* The properties of the tables when tables are given back: those that are not
\* free afterwards map what their context, which still exists, has mapped.
LEMMA GiveBackTables ==
    ASSUME PgtInv, NEW S \in SUBSET Tables, NEW K \in SUBSET S, GivenBack(S, K),
           \A p \in S : tab[p].at # "free",
           \A p \in Tables \ (S \ K) : tab[p].at # "free" =>
              /\ tab[p].ctx \in live'
              /\ tab[p].tbl \subseteq {r \in regs'[tab[p].ctx] : tab[p].base \in Span(r)}
    PROVE  EntriesCurrent' /\ OneTablePerSlot' /\ PagerPointers'
<1>1. \A p \in Tables : tab'[p].at # "free" =>
         /\ p \notin S \ K /\ tab[p].at # "free"
         /\ tab'[p].ctx = tab[p].ctx /\ tab'[p].base = tab[p].base
         /\ tab'[p].tbl = tab[p].tbl
  BY DEF GivenBack
<1>2. EntriesCurrent'
  BY <1>1 DEF EntriesCurrent
<1>3. OneTablePerSlot'
  BY <1>1 DEF PgtInv, OneTablePerSlot
<1>4. PagerPointers'
  <2> SUFFICES ASSUME NEW c \in Ctxs, NEW s \in Slots, array'[c][s] # NIL
               PROVE  /\ tab'[array'[c][s]].at # "free"
                      /\ tab'[array'[c][s]].ctx = c
                      /\ tab'[array'[c][s]].base = s
    BY DEF PagerPointers, Slots
  <2>1. array'[c][s] = array[c][s] /\ array[c][s] \notin S \ K
    BY DEF GivenBack
  <2>2. PICK p \in Tables : p = array[c][s] /\ p \notin S \ K
    BY <2>1 DEF PgtInv, PgtTypeOK
  <2>3. tab[p].at # "free" /\ tab[p].ctx = c /\ tab[p].base = s
    BY <2>1, <2>2 DEF PgtInv, PagerPointers
  <2>4. p \in K \/ p \in Tables \ S
    BY <2>2
  <2>5. tab'[p].at # "free" /\ tab'[p].ctx = c /\ tab'[p].base = s
    BY <2>3, <2>4 DEF GivenBack
  <2> QED
    BY <2>1, <2>2, <2>5
<1> QED
  BY <1>2, <1>3, <1>4

\* What pgt_free_unlocked() does to the tables of the thread t.
LEMMA FreeUnlockedEffect ==
    ASSUME PgtInv, NEW t \in PgtThreads, FreeUnlocked(t), UNCHANGED <<regs, live>>
    PROVE  /\ tab' \in [Tables -> Pgt]
           /\ array' \in [Ctxs -> [Slots -> Tables \cup {NIL}]]
           /\ Own(t)' = {}
           /\ Avail' = Avail \cup Own(t)
           /\ \A u \in PgtThreads \ {t} : Own(u)' = Own(u)
           /\ \A p \in Tables \ Own(t) : tab'[p] = tab[p]
           /\ \A c \in Ctxs, s \in Slots :
                array[c][s] \notin Own(t) => array'[c][s] = array[c][s]
           /\ \A p \in Tables : tab'[p].at # "free" =>
                 /\ tab[p].at # "free" /\ tab'[p].ctx = tab[p].ctx
                 /\ tab'[p].tbl = tab[p].tbl
           /\ EntriesCurrent' /\ OneTablePerSlot' /\ PagerPointers'
<1> DEFINE K == {p \in Own(t) : Used(p) > 0}
<1>1. GiveBack(Own(t), K)
  BY DEF FreeUnlocked
<1>2. Own(t) \in SUBSET Tables /\ K \in SUBSET Own(t)
  BY DEF Own
<1> HIDE DEF K
<1>3. \A p \in Own(t) : tab[p].at # "free"
  BY PgtAssumption DEF Own
<1>4. GivenBack(Own(t), K)
  BY <1>1, <1>2, GiveBackEffect DEF PgtInv
<1>5. EntriesCurrent' /\ OneTablePerSlot' /\ PagerPointers'
  BY <1>2, <1>3, <1>4, GiveBackTables DEF PgtInv, EntriesCurrent
<1>6. /\ tab' \in [Tables -> Pgt]
      /\ array' \in [Ctxs -> [Slots -> Tables \cup {NIL}]]
      /\ \A p \in Own(t) : tab'[p].at \in {"free", "cache"}
      /\ \A p \in Tables \ Own(t) : tab'[p] = tab[p]
  BY <1>4 DEF GivenBack
<1>7. \A p \in Tables : tab'[p].at # "free" =>
         /\ tab[p].at # "free" /\ tab'[p].ctx = tab[p].ctx
         /\ tab'[p].tbl = tab[p].tbl
  BY <1>2, <1>3, <1>4 DEF GivenBack
<1>a. \A c \in Ctxs, s \in Slots :
         array[c][s] \notin Own(t) => array'[c][s] = array[c][s]
  BY <1>4 DEF GivenBack
<1>8. Own(t)' = {}
  BY <1>6, PgtAssumption DEF Own
<1>9. Avail' = Avail \cup Own(t)
  BY <1>2, <1>6, PgtAssumption DEF Avail, Own
<1>10. \A u \in PgtThreads \ {t} : Own(u)' = Own(u)
  BY <1>6, PgtAssumption DEF Own
<1> QED
  BY <1>a, <1>5, <1>6, <1>7, <1>8, <1>9, <1>10

\* The pager keeps its pointers to the tables of threads that do not give them back.
LEMMA FreeKeepsPager ==
    ASSUME PgtInv, NEW t \in PgtThreads, ~Running(t)',
           FreeUnlocked(t), UNCHANGED <<regs, live, dir, rem, stale>>,
           \A u \in PgtThreads \ {t} : at'[u] = at[u] /\ cur'[u] = cur[u]
    PROVE  PagerOK'
<1>1. \A c \in Ctxs, s \in Slots :
         array[c][s] \notin Own(t) => array'[c][s] = array[c][s]
  BY FreeUnlockedEffect
<1>2. ASSUME NEW u \in PgtThreads \ {t}, Running(u), NEW r \in regs[cur[u]],
             NEW s \in Span(r), array[cur[u]][s] \in Own(u)
      PROVE  array'[cur[u]][s] = array[cur[u]][s]
  <2>1. cur[u] \in Ctxs
    BY <1>2 DEF PgtInv, AtOK
  <2>2. s \in Slots
    BY <2>1, SpanSlots DEF PgtInv, PgtTypeOK
  <2>3. array[cur[u]][s] \notin Own(t)
    BY <1>2 DEF Own
  <2> QED
    BY <1>1, <2>1, <2>2, <2>3
<1> QED
  BY <1>2, PagerKeeps DEF Running

\* pgt_free(): those who wait are told, if a table was given back.
LEMMA FreeKeeps ==
    ASSUME PgtInv, NEW t \in PgtThreads, Free(t)
    PROVE  PgtInv'
<1>1. /\ at[t] = "free" /\ dir[t] = NoDir
      /\ FreeUnlocked(t)
      /\ Own(t) # {} => PgtMu!Grantable("write")
      /\ Own(t) = {} => pgt_mu' = pgt_mu
      /\ Own(t) # {} => pgt_mu' = [u \in PgtThreads |->
                           IF u \in PgtMu!Waiting("pgt_cv") THEN "want" ELSE pgt_mu[u]]
      /\ UNCHANGED <<regs, live, stack, dir, rem, stale>>
  BY DEF Free, PgtMu!EndWait, PgtInv, AtOK
<1>2. \A u \in PgtThreads : u \in PgtMu!Waiting("pgt_cv") <=> pgt_mu[u] = "wait"
  BY DEF PgtMu!Waiting
<1>3. Own(t) # {} => \A u \in PgtThreads : pgt_mu[u] # "own"
  BY <1>1 DEF PgtMu!Grantable
<1>4. /\ at'[t] = IF Top(t) = NIL THEN "kernel" ELSE "alloc"
      /\ cur'[t] \in {cur[t], NIL}
      /\ \A u \in PgtThreads \ {t} : at'[u] = at[u] /\ cur'[u] = cur[u]
  BY DEF Free, GoesTo, PgtInv, PgtTypeOK
<1>5. \A u \in PgtThreads :
         \/ pgt_mu'[u] = pgt_mu[u]
         \/ pgt_mu[u] = "wait" /\ pgt_mu'[u] = "want"
  BY <1>1, <1>2
<1>6. PgtTypeOK'
  <2>1. pgt_mu' \in [PgtThreads -> {"out", "want", "own", "wait"}]
    BY <1>1 DEF PgtInv, PgtTypeOK
  <2>2. cur' \in [PgtThreads -> Ctxs \cup {NIL}]
    BY DEF Free, PgtInv, PgtTypeOK
  <2>3. at' \in [PgtThreads -> {"kernel", "free", "alloc", "pop", "sleep", "user",
                                "return", "clear", "flush"}]
    BY DEF Free, GoesTo, PgtInv, PgtTypeOK
  <2> QED
    BY <1>1, <2>1, <2>2, <2>3, FreeUnlockedEffect DEF PgtInv, PgtTypeOK
<1>7. /\ \A u \in PgtThreads : Top(u)' = Top(u)
      /\ \A u \in PgtThreads, d \in Ctxs : Inside(u, d)' => Inside(u, d)
      /\ \A R : Need(R)' = Need(R)
  BY <1>1, <1>4, PgtAssumption DEF Top, Inside, Need
<1>8. /\ Own(t)' = {} /\ \A u \in PgtThreads \ {t} : Own(u)' = Own(u)
      /\ Avail' = Avail \cup Own(t)
      /\ \A p \in Tables \ Own(t) : tab'[p] = tab[p]
      /\ \A p \in Tables : tab'[p].at # "free" =>
            /\ tab[p].at # "free" /\ tab'[p].ctx = tab[p].ctx
            /\ tab'[p].tbl = tab[p].tbl
      /\ EntriesCurrent' /\ OneTablePerSlot' /\ PagerPointers'
  BY <1>1, FreeUnlockedEffect
<1>9. \A u \in PgtThreads \ {t} : \A p \in Own(u) : p \in Tables \ Own(t)
  BY DEF Own
<1>10. CtxOK'
  BY <1>1, <1>7 DEF PgtInv, CtxOK
<1>11. AtOK'
  <2>1. at'[t] = "alloc" => Top(t) \in Ctxs
    BY <1>4, TopInside DEF PgtInv
  <2> QED
    BY <1>1, <1>4, <1>7, <1>8, <2>1 DEF PgtInv, AtOK, Running, Allocating, Absent
<1>12. LockOK'
  <2>1. pgt_mu[t] = "out"
    BY <1>1, OutsideAlloc DEF Allocating
  <2> QED
    BY <1>1, <1>4, <1>5, <2>1 DEF PgtInv, LockOK
<1>13. OwnOK'
  BY <1>1, <1>4, <1>7, <1>8, <1>9 DEF PgtInv, OwnOK
<1>14. FlushOK'
  BY <1>1, <1>4, <1>8 DEF PgtInv, FlushOK, Absent, Allocating
<1>15. MapOK'
  BY <1>1, <1>4, <1>8, <1>9 DEF PgtInv, MapOK, Running
<1>16. WaitOK'
  <2>1. CASE Own(t) = {}
    <3>1. \A u \in PgtThreads : WillTell(u) => WillTell(u)'
      BY <1>1, <1>4, <1>8, <2>1 DEF WillTell, Running
    <3>2. \A u \in PgtThreads : Need(regs[Top(u)])' = Need(regs[Top(u)])
      BY <1>1, <1>7
    <3> QED
      BY <1>1, <1>4, <1>8, <2>1, <3>1, <3>2, WaitKeeps DEF PgtInv
  <2>2. CASE Own(t) # {}
    <3>1. \A u \in PgtThreads : pgt_mu'[u] # "wait"
      BY <1>1, <1>2, <2>2
    <3>2. \A u \in PgtThreads : at'[u] # "sleep"
      BY <1>3, <1>4, <2>2 DEF PgtInv, LockOK
    <3> QED
      BY <3>1, <3>2 DEF WaitOK
  <2> QED
    BY <2>1, <2>2
<1>p. PagerOK'
  BY <1>1, <1>4, FreeKeepsPager DEF Running
<1> QED
  BY <1>p, <1>6, <1>8, <1>10, <1>11, <1>12, <1>13, <1>14, <1>15, <1>16 DEF PgtInv

\* pgt_alloc() has locked pgt_mu and gives back what the thread has.
LEMMA LockKeeps ==
    ASSUME PgtInv, NEW t \in PgtThreads, Lock(t)
    PROVE  PgtInv'
<1>1. /\ at[t] = "alloc" /\ at'[t] = "pop"
      /\ FreeUnlocked(t)
      /\ pgt_mu[t] # "own" /\ pgt_mu'[t] = "own"
      /\ \A u \in PgtThreads : pgt_mu[u] # "own"
      /\ \A u \in PgtThreads \ {t} : at'[u] = at[u] /\ pgt_mu'[u] = pgt_mu[u]
      /\ UNCHANGED <<regs, live, stack, cur, dir, rem, stale>>
  BY DEF Lock, GoesTo, PgtMu!Grant, PgtMu!Try, PgtMu!Grantable, PgtInv, PgtTypeOK
<1>2. PgtTypeOK'
  <2>1. pgt_mu' \in [PgtThreads -> {"out", "want", "own", "wait"}]
    BY DEF Lock, PgtMu!Grant, PgtMu!Try, PgtInv, PgtTypeOK
  <2>2. at' \in [PgtThreads -> {"kernel", "free", "alloc", "pop", "sleep", "user",
                                "return", "clear", "flush"}]
    BY DEF Lock, GoesTo, PgtInv, PgtTypeOK
  <2> QED
    BY <1>1, <2>1, <2>2, FreeUnlockedEffect DEF PgtInv, PgtTypeOK
<1>3. /\ \A u \in PgtThreads : Top(u)' = Top(u)
      /\ \A u \in PgtThreads, d \in Ctxs : Inside(u, d)' = Inside(u, d)
      /\ \A R : Need(R)' = Need(R)
  BY <1>1 DEF Top, Inside, Need
<1>4. /\ Own(t)' = {} /\ \A u \in PgtThreads \ {t} : Own(u)' = Own(u)
      /\ Avail' = Avail \cup Own(t)
      /\ \A p \in Tables \ Own(t) : tab'[p] = tab[p]
      /\ \A p \in Tables : tab'[p].at # "free" =>
            /\ tab[p].at # "free" /\ tab'[p].ctx = tab[p].ctx
            /\ tab'[p].tbl = tab[p].tbl
      /\ EntriesCurrent' /\ OneTablePerSlot' /\ PagerPointers'
  BY <1>1, FreeUnlockedEffect
<1>5. \A u \in PgtThreads \ {t} : \A p \in Own(u) : p \in Tables \ Own(t)
  BY DEF Own
<1>6. CtxOK'
  BY <1>1, <1>3 DEF PgtInv, CtxOK
<1>7. AtOK'
  BY <1>1, <1>3, <1>4 DEF PgtInv, AtOK, Running, Allocating, Absent
<1>8. LockOK'
  BY <1>1 DEF PgtInv, LockOK
<1>9. OwnOK'
  BY <1>1, <1>3, <1>4, <1>5 DEF PgtInv, OwnOK
<1>10. FlushOK'
  BY <1>1, <1>4 DEF PgtInv, FlushOK, Absent, Allocating
<1>11. MapOK'
  BY <1>1, <1>4, <1>5 DEF PgtInv, MapOK, Running
<1>12. WaitOK'
  <2>1. CASE dir[t] = NoDir
    <3>1. Own(t) = {}
      BY <1>1, <2>1 DEF PgtInv, AtOK
    <3>2. \A u \in PgtThreads : WillTell(u) => WillTell(u)'
      BY <1>1, <1>4 DEF WillTell, Running
    <3>3. \A u \in PgtThreads : Need(regs[Top(u)])' = Need(regs[Top(u)])
      BY <1>1, <1>3
    <3> QED
      BY <1>1, <1>4, <3>1, <3>2, <3>3, WaitKeeps DEF PgtInv
  <2>2. CASE dir[t] # NoDir
    <3>1. WillTell(t)'
      BY <1>1, <2>2 DEF WillTell, NoDir, Slots
    <3>2. \A u \in PgtThreads : at'[u] # "sleep"
      BY <1>1 DEF PgtInv, LockOK
    <3> QED
      BY <3>1, <3>2 DEF WaitOK
  <2> QED
    BY <2>1, <2>2
<1>p. PagerOK'
  BY <1>1, FreeKeepsPager DEF Running
<1> QED
  BY <1>p, <1>2, <1>4, <1>6, <1>7, <1>8, <1>9, <1>10, <1>11, <1>12 DEF PgtInv

\* num_used_entries is a number.
LEMMA UsedNumber ==
    ASSUME PgtTypeOK, NEW p \in Tables
    PROVE  Used(p) \in Nat
<1> DEFINE S == {r \in tab[p].tbl : r.kind = "paged"}
           All == [first : Slots, last : Slots, kind : {"paged", "param"}]
           f == [r \in All |-> <<<<r.first, r.last>>, r.kind>>]
<1>1. IsFiniteSet(Slots)
  BY PgtAssumption, FS_Interval DEF Slots
<1>2. IsFiniteSet(Slots \X Slots)
  BY <1>1, FS_Product
<1>3. IsFiniteSet({"paged", "param"})
  <2>1. IsFiniteSet({"paged"})
    BY FS_Singleton
  <2>2. IsFiniteSet({"paged"} \cup {"param"})
    BY <2>1, FS_AddElement
  <2>3. {"paged", "param"} = {"paged"} \cup {"param"}
    OBVIOUS
  <2> QED
    BY <2>2, <2>3
<1>4. IsFiniteSet((Slots \X Slots) \X {"paged", "param"})
  BY <1>2, <1>3, FS_Product
<1>5. f \in Injection(All, (Slots \X Slots) \X {"paged", "param"})
  <2>1. f \in [All -> (Slots \X Slots) \X {"paged", "param"}]
    OBVIOUS
  <2>2. \A q, r \in All : f[q] = f[r] => q = r
    OBVIOUS
  <2> QED
    BY <2>1, <2>2 DEF Injection, IsInjective
<1>6. IsFiniteSet(S)
  <2>1. IsFiniteSet(All)
    BY <1>4, <1>5, FS_Injection
  <2>2. S \in SUBSET All
    BY PgtChanged DEF PgtTypeOK, Region
  <2> QED
    BY <2>1, <2>2, FS_Subset
<1>7. Cardinality(S) \in Nat
  BY <1>6, FS_CardinalityType
<1> QED
  BY <1>7 DEF Used

\* pop_from_some_list() finds a table unless there is none.
LEMMA PopFromNone ==
    ASSUME PgtInv, NEW c, NEW s, PopFrom(c, s) = {}
    PROVE  Avail = {}
<1> DEFINE all == {p \in Tables : tab[p].at = "free"}
           free == {p \in all : \A q \in all : p <= q}
           least == {p \in Cached : \A q \in Cached : Used(p) <= Used(q)}
<1>1. free = {} /\ least = {}
  BY DEF PopFrom
<1>2. all = {}
  <2>1. all \in SUBSET Nat
    BY PgtAssumption
  <2> QED
    BY <1>1, <2>1, LeastNumber
<1>3. Cached = {}
  <2> SUFFICES ASSUME Cached # {} PROVE FALSE
    OBVIOUS
  <2> DEFINE U == {Used(p) : p \in Cached}
  <2>1. U \in SUBSET Nat /\ U # {}
    BY UsedNumber DEF PgtInv, Cached
  <2>2. PICK b \in U : \A a \in U : b <= a
    BY <2>1, LeastNumber
  <2>3. PICK p \in Cached : b = Used(p)
    BY <2>2
  <2>4. p \in least
    BY <2>2, <2>3
  <2> QED
    BY <1>1, <2>4
<1> QED
  BY <1>2, <1>3 DEF Avail, Cached

\* A thread that lacks a table has fewer tables than it needs.
LEMMA OwnFewer ==
    ASSUME PgtInv, NEW t \in PgtThreads, at[t] = "pop", NEW s, Missing(t, s)
    PROVE  Cardinality(Own(t)) < Cardinality(Need(regs[Top(t)]))
<1> DEFINE N == Need(regs[Top(t)])
           f == [p \in Own(t) |-> tab[p].base]
<1>1. s \in N /\ \A p \in Own(t) : tab[p].base # s
  BY DEF Missing
<1>2. \A p \in Own(t) : tab[p].base \in N /\ tab[p].ctx = Top(t) /\ tab[p].at # "free"
  BY PgtAssumption DEF PgtInv, OwnOK, Own
<1>3. f \in [Own(t) -> N \ {s}]
  BY <1>1, <1>2
<1>4. \A p, q \in Own(t) : f[p] = f[q] => p = q
  <2> TAKE p, q \in Own(t)
  <2>1. p \in Tables /\ q \in Tables
    BY DEF Own
  <2> QED
    BY <1>2, <2>1 DEF PgtInv, OneTablePerSlot
<1>5. f \in Injection(Own(t), N \ {s})
  BY <1>3, <1>4 DEF Injection, IsInjective
<1> HIDE DEF N, f
<1>6. IsFiniteSet(N) /\ Cardinality(N) \in Nat
  BY Finite DEF N
<1>7. IsFiniteSet(N \ {s}) /\ Cardinality(N \ {s}) = Cardinality(N) - 1
  BY <1>1, <1>6, FS_RemoveElement
<1>8. Cardinality(Own(t)) <= Cardinality(N \ {s})
  BY <1>5, <1>7, FS_Injection
<1>9. Cardinality(Own(t)) \in Nat
  BY Finite DEF Own
<1>10. Cardinality(Own(t)) < Cardinality(N)
  BY <1>6, <1>7, <1>8, <1>9
<1> QED
  BY <1>10 DEF N

\* A thread that lacks no table has one for every slot of its context.
LEMMA NoneMissing ==
    ASSUME PgtInv, NEW t \in PgtThreads, \A s \in Slots : ~Missing(t, s),
           NEW s \in Need(regs[Top(t)])
    PROVE  \E p \in Own(t) : tab[p].base = s
<1> DEFINE M == Need(regs[Top(t)]) \ {tab[p].base : p \in Own(t)}
<1>1. M \in SUBSET Nat /\ M \in SUBSET Slots
  BY PgtAssumption DEF Need, Slots
<1>2. \A u \in Slots : Missing(t, u) <=> u \in M /\ \A v \in M : u <= v
  BY DEF Missing
<1>3. M = {}
  <2> HIDE DEF M
  <2> QED
    BY <1>1, <1>2, LeastNumber
<1> QED
  BY <1>3

\* pgt_alloc() gives up: everyone is told, and there are too few tables.
LEMMA FailKeepsInv ==
    ASSUME PgtInv, NEW t \in PgtThreads, Fail(t)
    PROVE  PgtInv'
<1>1. /\ at[t] = "pop" /\ at'[t] = "sleep"
      /\ FreeUnlocked(t)
      /\ pgt_mu' = [u \in PgtThreads |->
                      IF u \in PgtMu!Waiting("pgt_cv") THEN "want" ELSE pgt_mu[u]]
      /\ \A u \in PgtThreads \ {t} : at'[u] = at[u]
      /\ UNCHANGED <<regs, live, stack, cur, dir, rem, stale>>
  BY DEF Fail, GoesTo, PgtMu!Broadcast, PgtMu!EndWait, PgtInv, PgtTypeOK
<1>2. /\ pgt_mu[t] = "own"
      /\ \A u \in PgtThreads : u \in PgtMu!Waiting("pgt_cv") <=> pgt_mu[u] = "wait"
  BY DEF Fail, PgtMu!Broadcast, PgtMu!Waiting
<1>3. \A u \in PgtThreads :
         /\ pgt_mu'[u] # "wait"
         /\ \/ pgt_mu'[u] = pgt_mu[u]
            \/ pgt_mu[u] = "wait" /\ pgt_mu'[u] = "want"
  BY <1>1, <1>2
<1>4. PgtTypeOK'
  <2>1. pgt_mu' \in [PgtThreads -> {"out", "want", "own", "wait"}]
    BY <1>1 DEF PgtInv, PgtTypeOK
  <2>2. at' \in [PgtThreads -> {"kernel", "free", "alloc", "pop", "sleep", "user",
                                "return", "clear", "flush"}]
    BY DEF Fail, GoesTo, PgtInv, PgtTypeOK
  <2> QED
    BY <1>1, <2>1, <2>2, FreeUnlockedEffect DEF PgtInv, PgtTypeOK
<1>5. /\ \A u \in PgtThreads : Top(u)' = Top(u)
      /\ \A u \in PgtThreads, d \in Ctxs : Inside(u, d)' = Inside(u, d)
      /\ \A R : Need(R)' = Need(R)
  BY <1>1 DEF Top, Inside, Need
<1>6. /\ Own(t)' = {} /\ \A u \in PgtThreads \ {t} : Own(u)' = Own(u)
      /\ Avail' = Avail \cup Own(t)
      /\ \A p \in Tables \ Own(t) : tab'[p] = tab[p]
      /\ \A p \in Tables : tab'[p].at # "free" =>
            /\ tab[p].at # "free" /\ tab'[p].ctx = tab[p].ctx
            /\ tab'[p].tbl = tab[p].tbl
      /\ EntriesCurrent' /\ OneTablePerSlot' /\ PagerPointers'
  BY <1>1, FreeUnlockedEffect
<1>7. \A u \in PgtThreads \ {t} : \A p \in Own(u) : p \in Tables \ Own(t)
  BY DEF Own
<1>8. CtxOK'
  BY <1>1, <1>5 DEF PgtInv, CtxOK
<1>9. AtOK'
  BY <1>1, <1>5, <1>6 DEF PgtInv, AtOK, Running, Allocating, Absent
<1>10. LockOK'
  BY <1>1, <1>2, <1>3 DEF PgtInv, LockOK
<1>11. OwnOK'
  BY <1>1, <1>5, <1>6, <1>7 DEF PgtInv, OwnOK
<1>12. FlushOK'
  BY <1>1, <1>6 DEF PgtInv, FlushOK, Absent, Allocating
<1>13. MapOK'
  BY <1>1, <1>6, <1>7 DEF PgtInv, MapOK, Running
<1>14. WaitOK'
  <2>1. PICK s \in Slots : Missing(t, s) /\ PopFrom(Top(t), s) = {}
    BY DEF Fail
  <2>2. Avail' = Own(t)
    BY <1>6, <2>1, PopFromNone
  <2>3. Cardinality(Own(t)) < Cardinality(Need(regs[Top(t)]))
    BY <1>1, <2>1, OwnFewer
  <2>4. Need(regs[Top(t)])' = Need(regs[Top(t)])
    BY <1>1, <1>5
  <2>5. \A u \in PgtThreads : at'[u] = "sleep" => u = t
    BY <1>1, <1>2 DEF PgtInv, LockOK
  <2> QED
    BY <1>3, <2>2, <2>3, <2>4, <2>5 DEF WaitOK
<1>p. PagerOK'
  BY <1>1, FreeKeepsPager DEF Running
<1> QED
  BY <1>p, <1>4, <1>6, <1>8, <1>9, <1>10, <1>11, <1>12, <1>13, <1>14 DEF PgtInv

\* A context that nobody is inside of is destroyed; its tables are in the cache.
LEMMA DestroyKeeps ==
    ASSUME PgtInv, NEW c \in Ctxs, Destroy(c)
    PROVE  PgtInv'
<1> DEFINE S == {p \in Cached : tab[p].ctx = c}
<1>1. /\ GiveBack(S, {})
      /\ live' = live \ {c} /\ regs'[c] = {}
      /\ \A d \in Ctxs \ {c} : regs'[d] = regs[d]
      /\ regs' \in [Ctxs -> SUBSET Region]
      /\ UNCHANGED <<pgt_mu, stack, cur, dir, rem, stale, at>>
  BY DEF Destroy, PgtInv, PgtTypeOK
<1>2. S \in SUBSET Tables /\ \A p \in S : tab[p].at = "cache"
  BY DEF Cached
<1>3. /\ \A u \in PgtThreads : ~Inside(u, c)
      /\ \A u \in PgtThreads : pgt_mu[u] # "own"
  BY DEF Destroy, Busy, PgtMu!Grantable
<1>4. \A p \in Tables : tab[p].at # "free" /\ tab[p].ctx = c => p \in S
  <2> SUFFICES ASSUME NEW p \in Tables, tab[p].at \in PgtThreads, p \in Own(tab[p].at),
                      tab[p].ctx = c
               PROVE  FALSE
    BY TabPlaces DEF PgtInv, Cached
  <2> QED
    BY <1>3, OwnInside
<1> HIDE DEF S
<1>5. GivenBack(S, {})
  BY <1>1, <1>2, GiveBackEffect DEF PgtInv
<1>6. /\ \A p \in S : tab'[p].at = "free"
      /\ \A p \in Tables \ S : tab'[p] = tab[p]
  BY <1>5 DEF GivenBack
<1>7. PgtTypeOK'
  BY <1>1, <1>5 DEF PgtInv, PgtTypeOK, GivenBack
<1>8. EntriesCurrent' /\ OneTablePerSlot' /\ PagerPointers'
  <2>1. \A p \in Tables \ S : tab[p].at # "free" =>
           /\ tab[p].ctx \in live'
           /\ tab[p].tbl \subseteq {r \in regs'[tab[p].ctx] : tab[p].base \in Span(r)}
    BY <1>1, <1>4 DEF PgtInv, EntriesCurrent, PgtTypeOK
  <2> QED
    BY <1>2, <1>5, <2>1, GiveBackTables
<1>9. /\ \A u \in PgtThreads : Own(u)' = Own(u) /\ Top(u)' = Top(u)
      /\ \A u \in PgtThreads, d \in Ctxs : Inside(u, d)' = Inside(u, d)
      /\ Avail' = Avail
      /\ \A R : Need(R)' = Need(R)
  <2>1. \A u \in PgtThreads : Own(u)' = Own(u)
    BY <1>2, <1>6, PgtAssumption DEF Own
  <2>2. Avail' = Avail
    BY <1>2, <1>6 DEF Avail
  <2> QED
    BY <1>1, <2>1, <2>2 DEF Top, Inside, Need
<1>10. \A u \in PgtThreads :
          /\ cur[u] # c /\ Top(u) # c
          /\ cur[u] \in Ctxs => regs'[cur[u]] = regs[cur[u]]
          /\ Top(u) \in Ctxs => regs'[Top(u)] = regs[Top(u)]
  BY <1>1, <1>3, TopInside DEF PgtInv, Inside
<1>11. \A u \in PgtThreads : \A p \in Own(u) : p \in Tables /\ tab'[p] = tab[p]
  BY <1>2, <1>6, PgtAssumption DEF Own
<1>12. CtxOK'
  BY <1>1, <1>3, <1>9 DEF PgtInv, CtxOK, PgtTypeOK
<1>13. AtOK'
  BY <1>1, <1>9, <1>10 DEF PgtInv, AtOK, Running, Allocating, Absent
<1>14. LockOK'
  BY <1>1 DEF PgtInv, LockOK
<1>15. OwnOK'
  BY <1>1, <1>9, <1>10, <1>11 DEF PgtInv, OwnOK, AtOK, Allocating
<1>16. FlushOK'
  BY <1>1, <1>6 DEF PgtInv, FlushOK, Absent, Allocating
<1>17. MapOK'
  BY <1>1, <1>9, <1>10, <1>11 DEF PgtInv, MapOK, Running, AtOK
<1>18. WaitOK'
  <2>1. \A u \in PgtThreads : WillTell(u)' = WillTell(u)
    BY <1>1, <1>9 DEF WillTell, Running
  <2>2. \A u \in PgtThreads : pgt_mu[u] = "wait" \/ at[u] = "sleep" => Top(u) \in Ctxs
    BY DEF PgtInv, LockOK, AtOK, Allocating
  <2>3. \A u \in PgtThreads : pgt_mu[u] = "wait" \/ at[u] = "sleep" =>
           Need(regs[Top(u)])' = Need(regs[Top(u)])
    BY <1>9, <1>10, <2>2
  <2> QED
    BY <1>1, <1>9, <2>1, <2>3, WaitKeeps DEF PgtInv
<1>p. PagerOK'
  <2>1. ASSUME NEW u \in PgtThreads, Running(u), NEW r \in regs[cur[u]],
               NEW s \in Span(r), array[cur[u]][s] \in Own(u)
        PROVE  array'[cur[u]][s] = array[cur[u]][s]
    <3>1. cur[u] \in Ctxs
      BY <2>1 DEF PgtInv, AtOK
    <3>2. s \in Slots
      BY <3>1, SpanSlots DEF PgtInv, PgtTypeOK
    <3>3. array[cur[u]][s] \notin S
      BY <1>2, <2>1, PgtAssumption DEF Own
    <3> QED
      BY <1>5, <3>1, <3>2, <3>3 DEF GivenBack
  <2>2. \A u \in PgtThreads : Running(u) => regs'[cur[u]] = regs[cur[u]]
    BY <1>10 DEF PgtInv, AtOK
  <2> QED
    BY <1>1, <2>1, <2>2, PagerKeeps DEF Running
<1> QED
  BY <1>p, <1>7, <1>8, <1>12, <1>13, <1>14, <1>15, <1>16, <1>17, <1>18 DEF PgtInv

\* A region has been removed; the table of its slot is given back only if no
\* other region of the context is in the slot.
LEMMA FlushKeeps ==
    ASSUME PgtInv, NEW t \in PgtThreads, Flush(t)
    PROVE  PgtInv'
<1>1. at[t] = "flush"
  BY DEF Flush
<1>2. PICK c \in Ctxs, r \in Region : c = cur[t] /\ r = rem[t]
  <2>1. cur[t] \in Ctxs /\ rem[t] \in regs[cur[t]]
    BY <1>1 DEF PgtInv, AtOK, Running, Absent
  <2> QED
    BY <2>1 DEF PgtInv, PgtTypeOK
<1> DEFINE shared == {s \in Span(r) : Shared(c, r, s, {"paged", "param"})}
           Slot(F) == {p \in Own(t) \cup Cached : tab[p].ctx = c /\ tab[p].base \in F}
<1>3. PICK F \in SUBSET Span(r), S \in SUBSET Tables :
         /\ S \subseteq Slot(F)
         /\ stale' = IF F \cap shared = {} THEN stale ELSE stale \cup {t}
         /\ GivenBack(S, {})
         /\ \/ /\ \A u \in PgtThreads : pgt_mu[u] # "own"
               /\ pgt_mu' = [u \in PgtThreads |->
                               IF u \in PgtMu!Waiting("pgt_cv") THEN "want" ELSE pgt_mu[u]]
            \/ pgt_mu' = pgt_mu /\ S = {}
  <2>1. CASE /\ PgtMu!Grantable("write") /\ PgtMu!EndWait(PgtMu!Waiting("pgt_cv"))
             /\ \E F \in Flushed(c, r) :
                   /\ GiveBack(Slot(F), {})
                   /\ stale' = IF F \cap shared = {} THEN stale ELSE stale \cup {t}
    <3>1. PICK F \in Flushed(c, r) :
             /\ GiveBack(Slot(F), {})
             /\ stale' = IF F \cap shared = {} THEN stale ELSE stale \cup {t}
      BY <2>1
    <3>2. F \in SUBSET Span(r)
      <4>1. r.first \in Nat /\ r.last \in Nat /\ r.first <= r.last
        BY PgtAssumption DEF Region, Slots
      <4>2. (r.first + 1)..r.last \subseteq Span(r) /\ r.first \in Span(r)
        BY <4>1 DEF Span
      <4> QED
        BY <3>1, <4>2 DEF Flushed
    <3>3. Slot(F) \in SUBSET Tables
      BY DEF Own, Cached
    <3>4. GivenBack(Slot(F), {})
      BY <3>1, <3>3, GiveBackEffect DEF PgtInv
    <3>5. \A u \in PgtThreads : pgt_mu[u] # "own"
      BY <2>1 DEF PgtMu!Grantable
    <3>6. pgt_mu' = [u \in PgtThreads |->
                       IF u \in PgtMu!Waiting("pgt_cv") THEN "want" ELSE pgt_mu[u]]
      BY <2>1 DEF PgtMu!EndWait
    <3> QED
      BY <3>1, <3>2, <3>3, <3>4, <3>5, <3>6
  <2>2. CASE UNCHANGED <<pgt_mu, tab, array, stale>>
    <3>1. GivenBack({}, {})
      BY <2>2 DEF GivenBack, PgtInv, PgtTypeOK
    <3> QED
      BY <2>2, <3>1
  <2> QED
    BY <1>2, <2>1, <2>2 DEF Flush
<1>4. /\ at'[t] \in {"return", "user"} /\ rem'[t] = NIL
      /\ \A u \in PgtThreads \ {t} : at'[u] = at[u] /\ rem'[u] = rem[u]
      /\ regs'[c] = regs[c] \ {r} /\ \A d \in Ctxs \ {c} : regs'[d] = regs[d]
      /\ UNCHANGED <<live, stack, cur, dir>>
  BY <1>2 DEF Flush, GoesTo, PgtInv, PgtTypeOK
<1>5. /\ r # Heap
      /\ Inside(t, c)
      /\ \A p \in Tables : tab[p].at # "free" /\ tab[p].ctx = c => r \notin tab[p].tbl
  BY <1>1, <1>2 DEF PgtInv, AtOK, Absent, Inside, FlushOK
<1>6. \A p \in S : p \in Tables /\ tab[p].at \in {t, "cache"} /\ tab[p].base \in F
  BY <1>3 DEF Own, Cached
<1>7. t \notin stale' =>
         t \notin stale /\ \A q \in regs'[c] : \A s \in Span(q) : s \notin F
  <2> SUFFICES ASSUME t \notin stale', NEW q \in regs'[c], NEW s \in Span(q), s \in F
               PROVE  FALSE
    BY <1>3
  <2>1. q \in regs[c] \ {r} /\ q.kind \in {"paged", "param"}
    BY <1>4, SpanSlots DEF PgtInv, PgtTypeOK
  <2>2. s \in shared
    BY <1>3, <2>1 DEF Shared
  <2> QED
    BY <1>3, <2>2
<1>s. stale' \subseteq stale \cup {t} /\ stale \subseteq stale'
  BY <1>3
<1> HIDE DEF shared, Slot
<1>8. /\ \A p \in S : tab'[p].at = "free"
      /\ \A p \in Tables \ S : tab'[p] = tab[p]
  BY <1>3 DEF GivenBack
<1>9. \A u \in PgtThreads : u \in PgtMu!Waiting("pgt_cv") <=> pgt_mu[u] = "wait"
  BY DEF PgtMu!Waiting
<1>10. \A u \in PgtThreads :
         \/ pgt_mu'[u] = pgt_mu[u]
         \/ pgt_mu[u] = "wait" /\ pgt_mu'[u] = "want"
  BY <1>3, <1>9
<1>11. PgtTypeOK'
  <2>1. pgt_mu' \in [PgtThreads -> {"out", "want", "own", "wait"}]
    BY <1>3 DEF PgtInv, PgtTypeOK
  <2>2. regs' \in [Ctxs -> SUBSET Region]
    BY <1>2 DEF Flush, PgtInv, PgtTypeOK
  <2>3. rem' \in [PgtThreads -> Region \cup {NIL}]
    BY DEF Flush, PgtInv, PgtTypeOK
  <2>4. at' \in [PgtThreads -> {"kernel", "free", "alloc", "pop", "sleep", "user",
                                "return", "clear", "flush"}]
    BY DEF Flush, GoesTo, PgtInv, PgtTypeOK
  <2> QED
    BY <1>s, <1>3, <1>4, <2>1, <2>2, <2>3, <2>4 DEF PgtInv, PgtTypeOK, GivenBack
<1>12. EntriesCurrent' /\ OneTablePerSlot' /\ PagerPointers'
  <2>1. \A p \in Tables \ S : tab[p].at # "free" =>
           /\ tab[p].ctx \in live'
           /\ tab[p].tbl \subseteq {q \in regs'[tab[p].ctx] : tab[p].base \in Span(q)}
    <3> SUFFICES ASSUME NEW p \in Tables \ S, tab[p].at # "free"
                 PROVE  /\ tab[p].ctx \in live'
                        /\ tab[p].tbl \subseteq
                             {q \in regs'[tab[p].ctx] : tab[p].base \in Span(q)}
      OBVIOUS
    <3>1. /\ tab[p].ctx \in live /\ tab[p].ctx \in Ctxs
          /\ tab[p].tbl \subseteq {q \in regs[tab[p].ctx] : tab[p].base \in Span(q)}
      BY DEF PgtInv, EntriesCurrent, PgtTypeOK
    <3>2. CASE tab[p].ctx = c
      BY <1>4, <1>5, <3>1, <3>2
    <3>3. CASE tab[p].ctx # c
      BY <1>4, <3>1, <3>3
    <3> QED
      BY <3>2, <3>3
  <2>2. S \in SUBSET Tables /\ \A p \in S : tab[p].at # "free"
    BY <1>6, PgtAssumption
  <2> QED
    BY <1>3, <2>1, <2>2, GiveBackTables
<1>13. /\ \A u \in PgtThreads : Top(u)' = Top(u)
       /\ \A u \in PgtThreads, d \in Ctxs : Inside(u, d)' = Inside(u, d)
       /\ \A R : Need(R)' = Need(R)
  BY <1>4 DEF Top, Inside, Need
<1>14. /\ Own(t)' = Own(t) \ S
       /\ \A u \in PgtThreads \ {t} : Own(u)' = Own(u)
  BY <1>6, <1>8, PgtAssumption DEF Own
<1>15. \A u \in PgtThreads \ {t} : \A p \in Own(u) : p \in Tables /\ tab'[p] = tab[p]
  BY <1>6, <1>8, PgtAssumption DEF Own
<1>16. \A u \in PgtThreads \ {t} :
         /\ cur[u] # c /\ Top(u) # c
         /\ cur[u] \in Ctxs => regs'[cur[u]] = regs[cur[u]]
         /\ Top(u) \in Ctxs => regs'[Top(u)] = regs[Top(u)]
  BY <1>4, <1>5, TopInside DEF PgtInv, CtxOK, Inside
<1>17. CtxOK'
  BY <1>4, <1>5, <1>13 DEF PgtInv, CtxOK, PgtTypeOK, Heap
<1>18. AtOK'
  BY <1>1, <1>4, <1>13, <1>14, <1>16 DEF PgtInv, AtOK, Running, Allocating, Absent
<1>19. LockOK'
  BY <1>1, <1>4, <1>10 DEF PgtInv, LockOK
<1>20. OwnOK'
  <2>1. \A p \in Own(t) \ S : p \in Tables /\ tab'[p] = tab[p]
    BY <1>8 DEF Own
  <2> QED
    BY <1>1, <1>4, <1>13, <1>14, <1>15, <1>16, <2>1 DEF PgtInv, OwnOK, AtOK, Allocating
<1>21. FlushOK'
  BY <1>4, <1>8 DEF PgtInv, FlushOK, Absent, Allocating
<1>22. MapOK'
  <2>1. ASSUME t \notin stale', NEW q \in regs'[c], NEW s \in Span(q)
        PROVE  /\ dir[t][s] \in Own(t)'
               /\ tab'[dir[t][s]].ctx = c /\ tab'[dir[t][s]].base = s
    <3>1. /\ dir[t][s] \in Own(t)
          /\ tab[dir[t][s]].ctx = c /\ tab[dir[t][s]].base = s
      BY <1>1, <1>2, <1>4, <1>7, <2>1 DEF PgtInv, MapOK, Running
    <3>2. dir[t][s] \notin S
      BY <1>6, <1>7, <2>1, <3>1
    <3>3. tab'[dir[t][s]] = tab[dir[t][s]]
      BY <1>8, <3>1, <3>2 DEF Own
    <3> QED
      BY <1>14, <3>1, <3>2, <3>3
  <2>2. \A u \in PgtThreads \ {t} : Running(u)' /\ u \notin stale' =>
           \A q \in regs'[cur[u]] : \A s \in Span(q) :
              /\ dir[u][s] \in Own(u)'
              /\ tab'[dir[u][s]].ctx = cur[u] /\ tab'[dir[u][s]].base = s
    BY <1>s, <1>4, <1>14, <1>15, <1>16 DEF PgtInv, MapOK, Running, AtOK
  <2> QED
    BY <1>2, <1>4, <2>1, <2>2 DEF MapOK, Span
<1>p. PagerOK'
  <2>1. ASSUME NEW d \in Ctxs, NEW s \in Slots, array[d][s] \notin S
        PROVE  array'[d][s] = array[d][s]
    BY <1>3, <2>1 DEF GivenBack
  <2>2. ASSUME t \notin stale', NEW q \in regs'[c], NEW s \in Span(q), array[c][s] \in Own(t)
        PROVE  array'[c][s] = array[c][s]
    <3>1. s \in Slots
      BY <1>4, SpanSlots DEF PgtInv, PgtTypeOK
    <3>2. tab[array[c][s]].base = s
      BY <2>2, <3>1, PgtAssumption DEF PgtInv, PagerPointers, Own
    <3> QED
      BY <1>6, <1>7, <2>1, <2>2, <3>1, <3>2
  <2>3. ASSUME NEW u \in PgtThreads \ {t}, Running(u), NEW q \in regs[cur[u]],
               NEW s \in Span(q), array[cur[u]][s] \in Own(u)
        PROVE  array'[cur[u]][s] = array[cur[u]][s]
    <3>1. cur[u] \in Ctxs
      BY <2>3 DEF PgtInv, AtOK
    <3>2. s \in Slots
      BY <3>1, SpanSlots DEF PgtInv, PgtTypeOK
    <3>3. array[cur[u]][s] \notin S
      BY <1>6, <2>3, PgtAssumption DEF Own
    <3> QED
      BY <2>1, <3>1, <3>2, <3>3
  <2>4. \A u \in PgtThreads \ {t} : Running(u) => regs'[cur[u]] = regs[cur[u]]
    BY <1>16 DEF PgtInv, AtOK
  <2>5. Running(t) /\ cur[t] = c /\ rem[t] \notin regs'[c] /\ regs'[c] \subseteq regs[c]
    BY <1>1, <1>2, <1>4 DEF Running
  <2> QED
    BY <1>s, <1>4, <2>2, <2>3, <2>4, <2>5, PagerKeeps DEF Running
<1>23. WaitOK'
  <2>1. CASE \A u \in PgtThreads : pgt_mu[u] # "own" /\ pgt_mu'[u] # "wait"
    <3>1. \A u \in PgtThreads : at'[u] # "sleep"
      BY <1>4, <2>1 DEF PgtInv, LockOK
    <3> QED
      BY <2>1, <3>1 DEF WaitOK
  <2>2. CASE pgt_mu' = pgt_mu /\ S = {}
    <3>1. Avail' = Avail
      BY <1>8, <2>2 DEF Avail
    <3>2. \A u \in PgtThreads : WillTell(u) => WillTell(u)'
      BY <1>s, <1>1, <1>4, <1>14, <2>2 DEF WillTell, Running
    <3>3. pgt_mu[t] = "out"
      BY <1>1, OutsideAlloc DEF Allocating
    <3>4. \A u \in PgtThreads : pgt_mu'[u] = "wait" \/ at'[u] = "sleep" =>
             u # t /\ Top(u) \in Ctxs
      BY <1>4, <2>2, <3>3 DEF PgtInv, LockOK, AtOK, Allocating
    <3>5. \A u \in PgtThreads : pgt_mu'[u] = "wait" \/ at'[u] = "sleep" =>
             Need(regs[Top(u)])' = Need(regs[Top(u)])
      BY <1>13, <1>16, <3>4
    <3> QED
      BY <1>4, <2>2, <3>1, <3>2, <3>5, WaitKeeps DEF PgtInv
  <2> QED
    BY <1>3, <1>9, <2>1, <2>2
<1> QED
  BY <1>p, <1>11, <1>12, <1>17, <1>18, <1>19, <1>20, <1>21, <1>22, <1>23 DEF PgtInv
-----------------------------------------------------------------------------
(* pgt_alloc() takes tables and returns.                                   *)

\* A region of the context needs the tables of its slots.
LEMMA RegionNeeds ==
    ASSUME PgtTypeOK, NEW c \in Ctxs, NEW r \in regs[c], NEW s \in Span(r)
    PROVE  s \in Slots /\ s \in Need(regs[c])
<1>1. r \in Region
  BY DEF PgtTypeOK
<1>2. s \in Slots /\ r.first <= s /\ s <= r.last
  BY <1>1, SpanSlots, PgtAssumption DEF Span, Region, Slots
<1> QED
  BY <1>2 DEF Need

\* The thread that has locked pgt_mu in pgt_alloc().
LEMMA PopThread ==
    ASSUME PgtInv, NEW t \in PgtThreads, at[t] = "pop"
    PROVE  /\ Top(t) \in Ctxs /\ Inside(t, Top(t)) /\ Top(t) \in live
           /\ pgt_mu[t] = "own"
           /\ \A u \in PgtThreads \ {t} :
                /\ ~Inside(u, Top(t)) /\ cur[u] # Top(t)
                /\ pgt_mu[u] # "own" /\ at[u] \notin {"pop", "sleep"}
           /\ \A p \in Own(t) : tab[p].ctx = Top(t)
<1>1. Top(t) \in Ctxs /\ Inside(t, Top(t))
  BY TopInside DEF PgtInv, AtOK, Allocating
<1>2. Top(t) \in live /\ \A u \in PgtThreads \ {t} : ~Inside(u, Top(t))
  BY <1>1 DEF PgtInv, CtxOK
<1>3. pgt_mu[t] = "own"
  BY DEF PgtInv, LockOK
<1>4. \A u \in PgtThreads \ {t} : pgt_mu[u] # "own" /\ at[u] \notin {"pop", "sleep"}
  BY <1>3 DEF PgtInv, LockOK
<1>5. \A p \in Own(t) : tab[p].ctx = Top(t)
  BY DEF PgtInv, OwnOK
<1> QED
  BY <1>1, <1>2, <1>3, <1>4, <1>5 DEF Inside

\* A table is taken for a slot that has none.
LEMMA PopKeeps ==
    ASSUME PgtInv, NEW t \in PgtThreads, Pop(t)
    PROVE  PgtInv'
<1>1. at[t] = "pop" /\ UNCHANGED <<pgt_mu, regs, live, stack, cur, dir, rem, stale, at>>
  BY DEF Pop
<1>2. PICK c \in Ctxs : c = Top(t)
  BY <1>1, PopThread
<1>3. PICK s \in Slots : Missing(t, s) /\
        \E p \in PopFrom(Top(t), s) :
           /\ tab' = [tab EXCEPT ![p] = TakenFor(t, p, Top(t), s)]
           /\ Forget({p} \ Matching(Top(t), s))
  BY DEF Pop
<1>4. PICK p \in PopFrom(c, s) :
           /\ tab' = [tab EXCEPT ![p] = TakenFor(t, p, c, s)]
           /\ Forget({p} \ Matching(c, s))
  BY <1>2, <1>3
<1>5. /\ c \in live
      /\ \A u \in PgtThreads \ {t} :
           ~Inside(u, c) /\ cur[u] # c /\ at[u] \notin {"pop", "sleep"}
  BY <1>1, <1>2, PopThread
<1>6. p \in Tables /\ tab[p].at \in {"free", "cache"}
  BY DEF PopFrom, Matching, Cached
<1>7. s \in Need(regs[c]) /\ \A q \in Own(t) : tab[q].base # s
  BY <1>2, <1>3 DEF Missing
<1>8. \A q \in Matching(c, s) :
         q \in Tables /\ tab[q].at # "free" /\ tab[q].ctx = c /\ tab[q].base = s
  BY DEF Matching, Cached
<1>9. PICK x : x = TakenFor(t, p, c, s)
  OBVIOUS
<1>10. /\ x \in Pgt /\ x.at = t /\ x.ctx = c /\ x.base = s
       /\ x.tbl \subseteq {r \in regs[c] : s \in Span(r)}
  <2>1. CASE p \in Matching(c, s)
    <3>1. tab[p] \in Pgt /\ x = [tab[p] EXCEPT !.at = t]
      BY <1>6, <1>9, <2>1 DEF TakenFor, PgtInv, PgtTypeOK
    <3>2. x \in Pgt
      BY <3>1, PgtChanged
    <3>3. x.at = t /\ x.ctx = tab[p].ctx /\ x.base = tab[p].base /\ x.tbl = tab[p].tbl
      BY <3>1 DEF Pgt
    <3>4. tab[p].tbl \subseteq {r \in regs[tab[p].ctx] : tab[p].base \in Span(r)}
      BY <1>8, <2>1 DEF PgtInv, EntriesCurrent
    <3> QED
      BY <1>8, <2>1, <3>2, <3>3, <3>4
  <2>2. CASE p \notin Matching(c, s)
    <3>1. x = [at |-> t, ctx |-> c, base |-> s, tbl |-> {}]
      BY <1>9, <2>2 DEF TakenFor
    <3> QED
      BY <3>1 DEF Pgt
  <2> QED
    BY <2>1, <2>2
<1>11. tab'[p] = x /\ \A q \in Tables \ {p} : tab'[q] = tab[q]
  BY <1>4, <1>6, <1>9 DEF PgtInv, PgtTypeOK
<1>12. \A q \in Tables \ {p} :
          tab[q].at # "free" => ~(tab[q].ctx = c /\ tab[q].base = s)
  <2> SUFFICES ASSUME NEW q \in Tables \ {p}, tab[q].at # "free",
                      tab[q].ctx = c, tab[q].base = s
               PROVE  FALSE
    OBVIOUS
  <2>1. CASE p \in Matching(c, s)
    BY <1>6, <1>8, <2>1 DEF PgtInv, OneTablePerSlot
  <2>2. CASE p \notin Matching(c, s)
    <3>1. Matching(c, s) = {}
      BY <2>2 DEF PopFrom
    <3>2. tab[q].at # "cache"
      BY <3>1 DEF Matching, Cached
    <3>3. tab[q].at \in PgtThreads /\ q \in Own(tab[q].at)
      BY <3>2, TabPlaces DEF PgtInv
    <3>4. Inside(tab[q].at, c)
      BY <3>3, OwnInside
    <3>5. tab[q].at = t
      BY <1>5, <3>3, <3>4
    <3> QED
      BY <1>7, <3>3, <3>5
  <2> QED
    BY <2>1, <2>2
<1>13. /\ array' \in [Ctxs -> [Slots -> Tables \cup {NIL}]]
       /\ \A d \in Ctxs, i \in Slots :
            array'[d][i] = IF array[d][i] \in {p} \ Matching(c, s) THEN NIL ELSE array[d][i]
  BY <1>4 DEF Forget, PgtInv, PgtTypeOK
<1>14. PgtTypeOK'
  <2>1. tab' \in [Tables -> Pgt]
    BY <1>4, <1>9, <1>10 DEF PgtInv, PgtTypeOK
  <2> QED
    BY <1>1, <1>13, <2>1 DEF PgtInv, PgtTypeOK
<1>15. /\ \A u \in PgtThreads : Top(u)' = Top(u)
       /\ \A u \in PgtThreads, d \in Ctxs : Inside(u, d)' = Inside(u, d)
       /\ \A R : Need(R)' = Need(R)
  BY <1>1 DEF Top, Inside, Need
<1>16. /\ Own(t)' = Own(t) \cup {p}
       /\ \A u \in PgtThreads \ {t} : Own(u)' = Own(u)
       /\ \A u \in PgtThreads : \A q \in Own(u) : q \in Tables /\ tab'[q] = tab[q]
       /\ Avail' = Avail \ {p}
  BY <1>6, <1>10, <1>11, PgtAssumption DEF Own, Avail
<1>17. CtxOK'
  BY <1>1, <1>15 DEF PgtInv, CtxOK
<1>18. AtOK'
  BY <1>1, <1>15, <1>16 DEF PgtInv, AtOK, Running, Allocating, Absent
<1>19. LockOK'
  BY <1>1 DEF PgtInv, LockOK
<1>20. OwnOK'
  <2>1. \A u \in PgtThreads \ {t} : \A q \in Own(u)' :
           /\ tab'[q].ctx = IF at[u] = "pop" THEN Top(u) ELSE cur[u]
           /\ at[u] = "pop" => tab'[q].base \in Need(regs[Top(u)])
    BY <1>16 DEF PgtInv, OwnOK
  <2>2. \A q \in Own(t)' : tab'[q].ctx = Top(t) /\ tab'[q].base \in Need(regs[Top(t)])
    BY <1>1, <1>2, <1>7, <1>10, <1>11, <1>16 DEF PgtInv, OwnOK
  <2> QED
    BY <1>1, <1>15, <2>1, <2>2 DEF OwnOK
<1>21. FlushOK'
  <2> SUFFICES ASSUME NEW u \in PgtThreads, NEW q \in Tables, Absent(u)',
                      tab'[q].at # "free", tab'[q].ctx = cur[u]
               PROVE  rem[u] \notin tab'[q].tbl
    BY <1>1 DEF FlushOK
  <2>1. Absent(u)
    BY <1>1 DEF Absent, Allocating, NoDir, Slots
  <2>2. CASE q # p
    BY <1>11, <2>1, <2>2 DEF PgtInv, FlushOK
  <2>3. CASE q = p
    <3>1. x.tbl = {} \/ (p \in Matching(c, s) /\ x.tbl = tab[p].tbl)
      BY <1>6, <1>9 DEF TakenFor, PgtInv, PgtTypeOK, Pgt
    <3>2. tab'[q].tbl = x.tbl /\ cur[u] = c
      BY <1>10, <1>11, <2>3
    <3>3. p \in Matching(c, s) => tab[p].at # "free" /\ tab[p].ctx = cur[u]
      BY <1>8, <3>2
    <3> QED
      BY <1>6, <2>1, <3>1, <3>2, <3>3 DEF PgtInv, FlushOK
  <2> QED
    BY <2>2, <2>3
<1>22. MapOK'
  BY <1>1, <1>16 DEF PgtInv, MapOK, Running
<1>23. WaitOK'
  <2>1. \A u \in PgtThreads : WillTell(u) => WillTell(u)'
    BY <1>1, <1>16 DEF WillTell, Running
  <2>2. \A u \in PgtThreads : Need(regs[Top(u)])' = Need(regs[Top(u)])
    BY <1>1, <1>15
  <2> QED
    BY <1>1, <1>16, <2>1, <2>2, WaitKeeps DEF PgtInv
<1>24. EntriesCurrent'
  <2> SUFFICES ASSUME NEW q \in Tables, tab'[q].at # "free"
               PROVE  /\ tab'[q].ctx \in live
                      /\ tab'[q].tbl \subseteq {r \in regs[tab'[q].ctx] : tab'[q].base \in Span(r)}
    BY <1>1 DEF EntriesCurrent
  <2>1. CASE q = p
    BY <1>5, <1>10, <1>11, <2>1
  <2>2. CASE q # p
    BY <1>11, <2>2 DEF PgtInv, EntriesCurrent
  <2> QED
    BY <2>1, <2>2
<1>25. OneTablePerSlot'
  BY <1>10, <1>11, <1>12 DEF PgtInv, OneTablePerSlot
<1>26. PagerPointers'
  <2> SUFFICES ASSUME NEW d \in Ctxs, NEW i \in Slots, array'[d][i] # NIL
               PROVE  /\ tab'[array'[d][i]].at # "free" /\ tab'[array'[d][i]].ctx = d
                      /\ tab'[array'[d][i]].base = i
    BY DEF PagerPointers
  <2>1. /\ array'[d][i] = array[d][i] /\ array[d][i] \in Tables
        /\ array[d][i] = p => p \in Matching(c, s)
    BY <1>13 DEF PgtInv, PgtTypeOK
  <2>2. tab[array[d][i]].at # "free" /\ tab[array[d][i]].ctx = d /\ tab[array[d][i]].base = i
    BY <2>1 DEF PgtInv, PagerPointers
  <2>3. CASE array[d][i] = p
    BY <1>8, <1>10, <1>11, <2>1, <2>2, <2>3, PgtAssumption
  <2>4. CASE array[d][i] # p
    BY <1>11, <2>1, <2>2, <2>4
  <2> QED
    BY <2>3, <2>4
<1>p. PagerOK'
  <2>1. ASSUME NEW u \in PgtThreads, Running(u), NEW r \in regs[cur[u]],
               NEW i \in Span(r), array[cur[u]][i] \in Own(u)
        PROVE  array'[cur[u]][i] = array[cur[u]][i]
    <3>1. cur[u] \in Ctxs
      BY <2>1 DEF PgtInv, AtOK
    <3>2. i \in Slots
      BY <3>1, SpanSlots DEF PgtInv, PgtTypeOK
    <3>3. array[cur[u]][i] # p
      BY <1>6, <2>1, PgtAssumption DEF Own
    <3> QED
      BY <1>13, <3>1, <3>2, <3>3
  <2> QED
    BY <1>1, <2>1, PagerKeeps DEF Running
<1> QED
  BY <1>p, <1>14, <1>17, <1>18, <1>19, <1>20, <1>21, <1>22, <1>23, <1>24, <1>25, <1>26 DEF PgtInv

\* pgt_alloc() has a table for every slot with a region: the pager's pointers that
\* are set now lead to them.
LEMMA AssignEffect ==
    ASSUME PgtInv, NEW t \in PgtThreads, at[t] = "pop", \A s \in Slots : ~Missing(t, s),
           NEW c \in Ctxs, c = Top(t), Assign(t, c)
    PROVE  /\ array' \in [Ctxs -> [Slots -> Tables \cup {NIL}]]
           /\ \A d \in Ctxs, s \in Slots :
                \/ array'[d][s] = array[d][s]
                \/ /\ array'[d][s] \in Tables /\ tab[array'[d][s]].at # "free"
                   /\ tab[array'[d][s]].ctx = d /\ tab[array'[d][s]].base = s
           /\ \A r \in regs[c] : r.kind = "paged" => \A s \in Span(r) : array'[c][s] # NIL
           /\ \A d \in Ctxs \ {c} : array'[d] = array[d]
<1> DEFINE Paged(s) == \E r \in regs[c] : r.kind = "paged" /\ s \in Span(r)
<1>1. ASSUME NEW s \in Slots, Paged(s)
      PROVE  LET p == CHOOSE p \in Own(t) : tab[p].base = s
             IN  /\ p \in Tables /\ tab[p].at # "free"
                 /\ tab[p].ctx = c /\ tab[p].base = s
  <2>1. s \in Need(regs[c])
    BY <1>1, RegionNeeds DEF PgtInv
  <2>2. \E p \in Own(t) : tab[p].base = s
    BY <2>1, NoneMissing
  <2> DEFINE p == CHOOSE p \in Own(t) : tab[p].base = s
  <2>3. p \in Own(t) /\ tab[p].base = s
    BY <2>2
  <2> HIDE DEF p
  <2>4. p \in Tables /\ tab[p].at # "free" /\ tab[p].ctx = c
    BY <2>3, PopThread, PgtAssumption DEF Own
  <2> QED
    BY <2>3, <2>4 DEF p
<1> DEFINE New(s) == IF array[c][s] = NIL /\ Paged(s)
                     THEN CHOOSE p \in Own(t) : tab[p].base = s
                     ELSE array[c][s]
<1>2. array' = [array EXCEPT ![c] = [s \in Slots |-> New(s)]]
  BY DEF Assign
<1>3. \A s \in Slots : \/ New(s) = array[c][s]
                       \/ /\ New(s) \in Tables /\ tab[New(s)].at # "free"
                          /\ tab[New(s)].ctx = c /\ tab[New(s)].base = s
  BY <1>1
<1>p. \A s \in Slots : Paged(s) => New(s) # NIL
  BY <1>1, PgtAssumption
<1>r. \A r \in regs[c] : r.kind = "paged" => \A s \in Span(r) : s \in Slots /\ Paged(s)
  BY RegionNeeds DEF PgtInv
<1> HIDE DEF New, Paged
<1>4. array \in [Ctxs -> [Slots -> Tables \cup {NIL}]]
  BY DEF PgtInv, PgtTypeOK
<1>5. [s \in Slots |-> New(s)] \in [Slots -> Tables \cup {NIL}]
  BY <1>3, <1>4
<1>6. /\ \A s \in Slots : array'[c][s] = New(s)
      /\ \A d \in Ctxs \ {c} : array'[d] = array[d]
  BY <1>2, <1>4
<1> QED
  BY <1>p, <1>r, <1>2, <1>3, <1>4, <1>5, <1>6

\* pgt_alloc() returns to alloc_pgt(): the thread will give the tables back.
LEMMA AllocatedKeeps ==
    ASSUME PgtInv, NEW t \in PgtThreads, Allocated(t)
    PROVE  PgtInv'
<1>1. /\ at[t] = "pop" /\ at'[t] = "free" /\ pgt_mu'[t] = "out"
      /\ dir[t] # NoDir /\ dir'[t] = NoDir
      /\ \A s \in Slots : ~Missing(t, s)
      /\ Assign(t, Top(t))
      /\ \A u \in PgtThreads \ {t} :
           /\ at'[u] = at[u] /\ pgt_mu'[u] = pgt_mu[u] /\ dir'[u] = dir[u]
           /\ rem'[u] = rem[u] /\ (u \in stale' <=> u \in stale)
      /\ UNCHANGED <<tab, regs, live, stack, cur>>
  BY DEF Allocated, ResetDir, GoesTo, PgtMu!Release, PgtInv, PgtTypeOK
<1>2. PICK c \in Ctxs : c = Top(t)
  BY <1>1, PopThread
<1>3. /\ array' \in [Ctxs -> [Slots -> Tables \cup {NIL}]]
      /\ \A d \in Ctxs, s \in Slots :
           \/ array'[d][s] = array[d][s]
           \/ /\ array'[d][s] \in Tables /\ tab[array'[d][s]].at # "free"
              /\ tab[array'[d][s]].ctx = d /\ tab[array'[d][s]].base = s
      /\ \A d \in Ctxs \ {c} : array'[d] = array[d]
  BY <1>1, <1>2, AssignEffect
<1>4. cur[t] = c
  BY <1>1, <1>2 DEF PgtInv, AtOK, Allocating
<1>5. Own(t) # {}
  <2>1. Heap \in regs[c]
    BY <1>1, <1>2, PopThread DEF PgtInv, CtxOK
  <2>2. NSlots \in Need(regs[Top(t)])
    BY <1>2, <2>1, HeapRegion, RegionNeeds DEF PgtInv
  <2> QED
    BY <1>1, <2>2, NoneMissing
<1>6. PgtTypeOK'
  <2>1. pgt_mu' \in [PgtThreads -> {"out", "want", "own", "wait"}]
    BY DEF Allocated, PgtMu!Release, PgtInv, PgtTypeOK
  <2>2. at' \in [PgtThreads -> {"kernel", "free", "alloc", "pop", "sleep", "user",
                                "return", "clear", "flush"}]
    BY DEF Allocated, GoesTo, PgtInv, PgtTypeOK
  <2>3. dir' \in [PgtThreads -> [Slots -> Tables \cup {NIL}]]
    BY DEF Allocated, ResetDir, NoDir, PgtInv, PgtTypeOK
  <2>4. rem' \in [PgtThreads -> Region \cup {NIL}] /\ stale' \subseteq PgtThreads
    BY DEF Allocated, ResetDir, PgtInv, PgtTypeOK
  <2> QED
    BY <1>1, <1>3, <2>1, <2>2, <2>3, <2>4 DEF PgtInv, PgtTypeOK
<1>7. /\ \A u \in PgtThreads : Top(u)' = Top(u) /\ Own(u)' = Own(u)
      /\ \A u \in PgtThreads, d \in Ctxs : Inside(u, d)' = Inside(u, d)
      /\ Avail' = Avail
      /\ \A R : Need(R)' = Need(R)
  BY <1>1 DEF Top, Own, Inside, Avail, Need
<1>8. NoDir' = NoDir
  BY DEF NoDir, Slots
<1>9. CtxOK'
  BY <1>1, <1>7 DEF PgtInv, CtxOK
<1>10. AtOK'
  BY <1>1, <1>7, <1>8 DEF PgtInv, AtOK, Running, Allocating, Absent
<1>11. LockOK'
  BY <1>1, PopThread DEF PgtInv, LockOK
<1>12. OwnOK'
  BY <1>1, <1>2, <1>4, <1>7 DEF PgtInv, OwnOK
<1>13. FlushOK'
  BY <1>1 DEF PgtInv, FlushOK, Absent, Allocating
<1>14. MapOK'
  BY <1>1, <1>7 DEF PgtInv, MapOK, Running
<1>15. WaitOK'
  <2>1. WillTell(t)'
    BY <1>1, <1>5, <1>7 DEF WillTell, Running
  <2>2. \A u \in PgtThreads : at'[u] # "sleep"
    BY <1>1, PopThread
  <2> QED
    BY <2>1, <2>2 DEF WaitOK
<1>16. EntriesCurrent' /\ OneTablePerSlot'
  BY <1>1 DEF PgtInv, EntriesCurrent, OneTablePerSlot
<1>17. PagerPointers'
  BY <1>1, <1>3 DEF PgtInv, PagerPointers
<1>p. PagerOK'
  <2>1. \A u \in PgtThreads \ {t} : Running(u) => array'[cur[u]] = array[cur[u]]
    BY <1>1, <1>2, <1>3, PopThread DEF PgtInv, AtOK
  <2> QED
    BY <1>1, <2>1, PagerKeeps DEF Running
<1> QED
  BY <1>p, <1>6, <1>9, <1>10, <1>11, <1>12, <1>13, <1>14, <1>15, <1>16, <1>17 DEF PgtInv

\* vm_map() fails: the region, which is in no table, is removed, and the thread runs on
\* with a page directory that is stale.
LEMMA MapFailsKeeps ==
    ASSUME PgtInv, NEW t \in PgtThreads, MapFails(t)
    PROVE  PgtInv'
<1>1. /\ at[t] = "pop" /\ at'[t] = "user" /\ pgt_mu'[t] = "out" /\ dir[t] # NoDir
      /\ \A s \in Slots : ~Missing(t, s)
      /\ rem'[t] = NIL /\ stale' = stale \cup {t}
      /\ \A u \in PgtThreads \ {t} :
           at'[u] = at[u] /\ pgt_mu'[u] = pgt_mu[u] /\ rem'[u] = rem[u]
      /\ UNCHANGED <<tab, array, live, stack, cur, dir>>
  BY DEF MapFails, GoesTo, PgtMu!Release, PgtInv, PgtTypeOK
<1>2. PICK c \in Ctxs : c = Top(t)
  BY <1>1, PopThread
<1>3. /\ cur[t] = c /\ rem[t] # Heap
      /\ \A p \in Tables : tab[p].at # "free" /\ tab[p].ctx = c => rem[t] \notin tab[p].tbl
  BY <1>1, <1>2 DEF PgtInv, AtOK, FlushOK, Absent, Allocating
<1>4. regs'[c] = regs[c] \ {rem[t]} /\ \A d \in Ctxs \ {c} : regs'[d] = regs[d]
  BY <1>3 DEF MapFails, PgtInv, PgtTypeOK
<1>5. Own(t) # {}
  <2>1. Heap \in regs[c]
    BY <1>1, <1>2, PopThread DEF PgtInv, CtxOK
  <2>2. NSlots \in Need(regs[Top(t)])
    BY <1>2, <2>1, HeapRegion, RegionNeeds DEF PgtInv
  <2> QED
    BY <1>1, <2>2, NoneMissing
<1>6. PgtTypeOK'
  <2>1. pgt_mu' \in [PgtThreads -> {"out", "want", "own", "wait"}]
    BY DEF MapFails, PgtMu!Release, PgtInv, PgtTypeOK
  <2>2. at' \in [PgtThreads -> {"kernel", "free", "alloc", "pop", "sleep", "user",
                                "return", "clear", "flush"}]
    BY DEF MapFails, GoesTo, PgtInv, PgtTypeOK
  <2>3. rem' \in [PgtThreads -> Region \cup {NIL}] /\ regs' \in [Ctxs -> SUBSET Region]
    BY <1>3 DEF MapFails, PgtInv, PgtTypeOK
  <2> QED
    BY <1>1, <2>1, <2>2, <2>3 DEF PgtInv, PgtTypeOK
<1>7. /\ \A u \in PgtThreads : Top(u)' = Top(u) /\ Own(u)' = Own(u)
      /\ \A u \in PgtThreads, d \in Ctxs : Inside(u, d)' = Inside(u, d)
      /\ NoDir' = NoDir /\ Heap' = Heap
  BY <1>1 DEF Top, Own, Inside, NoDir, Slots, Heap
<1>8. \A u \in PgtThreads \ {t} :
         /\ cur[u] # c /\ Top(u) # c /\ at[u] \notin {"pop", "sleep"}
         /\ cur[u] \in Ctxs => regs'[cur[u]] = regs[cur[u]]
         /\ Top(u) \in Ctxs => regs'[Top(u)] = regs[Top(u)]
  BY <1>1, <1>2, <1>4, PopThread, TopInside DEF PgtInv, Inside
<1>9. CtxOK'
  BY <1>1, <1>3, <1>4, <1>7 DEF PgtInv, CtxOK, PgtTypeOK
<1>10. AtOK'
  BY <1>1, <1>2, <1>3, <1>7, <1>8 DEF PgtInv, AtOK, Running, Allocating, Absent
<1>11. LockOK'
  BY <1>1, PopThread DEF PgtInv, LockOK
<1>12. OwnOK'
  BY <1>1, <1>2, <1>3, <1>7, <1>8 DEF PgtInv, OwnOK
<1>13. FlushOK'
  BY <1>1 DEF PgtInv, FlushOK, Absent, Allocating
<1>14. MapOK'
  BY <1>1, <1>7, <1>8 DEF PgtInv, MapOK, Running, AtOK
<1>15. PagerOK'
  BY <1>1, <1>8, PagerKeeps DEF Running, PgtInv, AtOK
<1>16. WaitOK'
  <2>1. WillTell(t)'
    BY <1>1, <1>5, <1>7 DEF WillTell, Running
  <2>2. \A u \in PgtThreads : at'[u] # "sleep"
    BY <1>1, <1>8
  <2> QED
    BY <2>1, <2>2 DEF WaitOK
<1>17. EntriesCurrent'
  <2> SUFFICES ASSUME NEW p \in Tables, tab[p].at # "free"
               PROVE  /\ tab[p].ctx \in live
                      /\ tab[p].tbl \subseteq {r \in regs'[tab[p].ctx] : tab[p].base \in Span(r)}
    BY <1>1 DEF EntriesCurrent, Span
  <2>1. /\ tab[p].ctx \in live /\ tab[p].ctx \in Ctxs
        /\ tab[p].tbl \subseteq {r \in regs[tab[p].ctx] : tab[p].base \in Span(r)}
    BY DEF PgtInv, EntriesCurrent, PgtTypeOK
  <2>2. CASE tab[p].ctx = c
    BY <1>3, <1>4, <2>1, <2>2
  <2>3. CASE tab[p].ctx # c
    BY <1>4, <2>1, <2>3
  <2> QED
    BY <2>2, <2>3
<1>18. OneTablePerSlot' /\ PagerPointers'
  BY <1>1 DEF PgtInv, OneTablePerSlot, PagerPointers
<1> QED
  BY <1>6, <1>9, <1>10, <1>11, <1>12, <1>13, <1>14, <1>15, <1>16, <1>17, <1>18 DEF PgtInv

\* pgt_alloc() returns to core_mmu_populate_user_map(): the page directory leads to
\* the tables, and the parameters are entered in them.
LEMMA MappedKeeps ==
    ASSUME PgtInv, NEW t \in PgtThreads, Mapped(t)
    PROVE  PgtInv'
<1>1. /\ at[t] = "pop" /\ at'[t] = "user" /\ pgt_mu'[t] = "out" /\ dir[t] = NoDir
      /\ \A s \in Slots : ~Missing(t, s)
      /\ \A u \in PgtThreads \ {t} :
           at'[u] = at[u] /\ pgt_mu'[u] = pgt_mu[u] /\ dir'[u] = dir[u] /\ cur'[u] = cur[u]
      /\ UNCHANGED <<regs, live, stack, rem, stale>>
  BY DEF Mapped, GoesTo, PgtMu!Release, PgtInv, PgtTypeOK
<1>2. PICK c \in Ctxs : c = Top(t)
  BY <1>1, PopThread
<1>3. /\ c \in live
      /\ \A u \in PgtThreads \ {t} :
           ~Inside(u, c) /\ cur[u] # c /\ at[u] \notin {"pop", "sleep"} /\ pgt_mu[u] # "own"
      /\ \A p \in Own(t) : tab[p].ctx = c
      /\ Inside(t, c)
  BY <1>1, <1>2, PopThread
<1> DEFINE Par(p) == {r \in Params(c) : tab[p].base \in Span(r)}
           Dir(s) == IF \A r \in regs[c] : s \notin Span(r) THEN NIL
                     ELSE CHOOSE p \in Own(t) : tab[p].base = s
<1>4. /\ tab' = [p \in Tables |-> IF p \notin Own(t) THEN tab[p]
                                  ELSE [tab[p] EXCEPT !.tbl = @ \cup Par(p)]]
      /\ dir' = [dir EXCEPT ![t] = [s \in Slots |-> Dir(s)]]
      /\ Assign(t, c)
      /\ cur' = [cur EXCEPT ![t] = c]
  BY <1>2 DEF Mapped
<1>5. \A p \in Own(t) : p \in Tables /\ tab[p].at = t
  BY DEF Own
<1>6. \A p \in Tables : Par(p) \in SUBSET Region
  BY DEF Params, PgtInv, PgtTypeOK
<1> HIDE DEF Par, Dir
<1>7. /\ tab' \in [Tables -> Pgt]
      /\ \A p \in Tables : /\ tab'[p].at = tab[p].at /\ tab'[p].ctx = tab[p].ctx
                           /\ tab'[p].base = tab[p].base
                           /\ tab'[p].tbl = tab[p].tbl \cup (IF p \in Own(t) THEN Par(p) ELSE {})
  <2> SUFFICES ASSUME NEW p \in Tables
               PROVE  /\ tab'[p] \in Pgt
                      /\ tab'[p].at = tab[p].at /\ tab'[p].ctx = tab[p].ctx
                      /\ tab'[p].base = tab[p].base
                      /\ tab'[p].tbl = tab[p].tbl \cup (IF p \in Own(t) THEN Par(p) ELSE {})
    BY <1>4
  <2>1. tab[p] \in Pgt
    BY DEF PgtInv, PgtTypeOK
  <2>2. CASE p \in Own(t)
    <3>1. tab'[p] = [tab[p] EXCEPT !.tbl = @ \cup Par(p)]
      BY <1>4, <2>2
    <3>2. tab'[p] \in Pgt
      BY <1>6, <2>1, <3>1, PgtChanged
    <3>3. /\ tab'[p].at = tab[p].at /\ tab'[p].ctx = tab[p].ctx
          /\ tab'[p].base = tab[p].base /\ tab'[p].tbl = tab[p].tbl \cup Par(p)
      BY <2>1, <3>1 DEF Pgt
    <3> QED
      BY <2>2, <3>2, <3>3
  <2>3. CASE p \notin Own(t)
    BY <1>4, <2>1, <2>3
  <2> QED
    BY <2>2, <2>3
<1>8. \A p \in Tables \ Own(t) : tab'[p] = tab[p]
  BY <1>4
<1>9. /\ array' \in [Ctxs -> [Slots -> Tables \cup {NIL}]]
      /\ \A d \in Ctxs, s \in Slots :
           \/ array'[d][s] = array[d][s]
           \/ /\ array'[d][s] \in Tables /\ tab[array'[d][s]].at # "free"
              /\ tab[array'[d][s]].ctx = d /\ tab[array'[d][s]].base = s
      /\ \A r \in regs[c] : r.kind = "paged" => \A s \in Span(r) : array'[c][s] # NIL
      /\ \A d \in Ctxs \ {c} : array'[d] = array[d]
  BY <1>1, <1>2, <1>4, AssignEffect
<1>10. ASSUME NEW s \in Slots, NEW r \in regs[c], s \in Span(r)
       PROVE  Dir(s) \in Own(t) /\ tab[Dir(s)].base = s
  <2>1. s \in Need(regs[Top(t)])
    BY <1>2, <1>10, RegionNeeds DEF PgtInv
  <2>2. \E p \in Own(t) : tab[p].base = s
    BY <1>1, <2>1, NoneMissing
  <2>3. Dir(s) = CHOOSE p \in Own(t) : tab[p].base = s
    BY <1>10 DEF Dir
  <2> QED
    BY <2>2, <2>3
<1>11. [s \in Slots |-> Dir(s)] \in [Slots -> Tables \cup {NIL}]
  <2>1. \A s \in Slots : Dir(s) = NIL \/ \E r \in regs[c] : s \in Span(r)
    BY DEF Dir
  <2> QED
    BY <1>5, <1>10, <2>1
<1>12. cur'[t] = c /\ \A s \in Slots : dir'[t][s] = Dir(s)
  BY <1>4 DEF PgtInv, PgtTypeOK
<1>13. PgtTypeOK'
  <2>1. pgt_mu' \in [PgtThreads -> {"out", "want", "own", "wait"}]
    BY DEF Mapped, PgtMu!Release, PgtInv, PgtTypeOK
  <2>2. at' \in [PgtThreads -> {"kernel", "free", "alloc", "pop", "sleep", "user",
                                "return", "clear", "flush"}]
    BY DEF Mapped, GoesTo, PgtInv, PgtTypeOK
  <2>3. dir' \in [PgtThreads -> [Slots -> Tables \cup {NIL}]]
    BY <1>4, <1>11 DEF PgtInv, PgtTypeOK
  <2>4. cur' \in [PgtThreads -> Ctxs \cup {NIL}]
    BY <1>4 DEF PgtInv, PgtTypeOK
  <2> QED
    BY <1>1, <1>7, <1>9, <2>1, <2>2, <2>3, <2>4 DEF PgtInv, PgtTypeOK
<1>14. /\ \A u \in PgtThreads : Top(u)' = Top(u) /\ Own(u)' = Own(u)
       /\ Avail' = Avail
       /\ \A R : Need(R)' = Need(R)
  BY <1>1, <1>7 DEF Top, Own, Avail, Need
<1>15. \A u \in PgtThreads, d \in Ctxs : Inside(u, d)' => Inside(u, d)
  BY <1>1, <1>3, <1>12 DEF Inside
<1>16. \A u \in PgtThreads \ {t} : \A p \in Own(u) : p \in Tables /\ tab'[p] = tab[p]
  BY <1>8 DEF Own
<1>17. CtxOK'
  BY <1>1, <1>15 DEF PgtInv, CtxOK
<1>18. AtOK'
  <2>1. NoDir' = NoDir /\ Heap' = Heap
    BY DEF NoDir, Slots, Heap
  <2>2. dir'[t] # NoDir
    <3>1. Heap \in regs[c] /\ NSlots \in Span(Heap) /\ NSlots \in Slots
      BY <1>3, HeapRegion, SpanSlots DEF PgtInv, CtxOK
    <3>2. dir'[t][NSlots] # NIL
      BY <1>5, <1>10, <1>12, <3>1, PgtAssumption
    <3> QED
      BY <3>1, <3>2 DEF NoDir
  <2> QED
    BY <1>1, <1>2, <1>12, <1>14, <2>1, <2>2 DEF PgtInv, AtOK, Running, Allocating, Absent
<1>19. LockOK'
  BY <1>1, <1>3 DEF PgtInv, LockOK
<1>20. OwnOK'
  <2>1. \A p \in Own(t) : tab'[p].ctx = c
    BY <1>3, <1>5, <1>7
  <2> QED
    BY <1>1, <1>12, <1>14, <1>16, <2>1 DEF PgtInv, OwnOK
<1>21. FlushOK'
  <2> SUFFICES ASSUME NEW u \in PgtThreads, NEW p \in Tables, Absent(u)',
                      tab'[p].at # "free", tab'[p].ctx = cur'[u]
               PROVE  rem[u] \notin tab'[p].tbl
    BY <1>1 DEF FlushOK
  <2>1. u # t /\ Absent(u)
    BY <1>1 DEF Absent, Allocating, NoDir, Slots
  <2>2. tab[p].ctx # c
    BY <1>1, <1>3, <1>7, <2>1
  <2>3. tab'[p] = tab[p]
    BY <1>3, <1>8, <2>2
  <2> QED
    BY <1>1, <2>1, <2>3 DEF PgtInv, FlushOK
<1>22. MapOK'
  <2>1. ASSUME NEW r \in regs[c], NEW s \in Span(r)
        PROVE  /\ dir'[t][s] \in Own(t)
               /\ tab'[dir'[t][s]].ctx = c /\ tab'[dir'[t][s]].base = s
    <3>1. s \in Slots
      BY RegionNeeds DEF PgtInv
    <3>2. dir'[t][s] \in Own(t) /\ tab[dir'[t][s]].base = s
      BY <1>10, <1>12, <3>1
    <3> QED
      BY <1>3, <1>5, <1>7, <3>2
  <2>2. \A u \in PgtThreads \ {t} : Running(u)' /\ u \notin stale =>
           \A r \in regs[cur[u]] : \A s \in Span(r) :
              /\ dir[u][s] \in Own(u)
              /\ tab'[dir[u][s]].ctx = cur[u] /\ tab'[dir[u][s]].base = s
    BY <1>1, <1>16 DEF PgtInv, MapOK, Running
  <2> QED
    BY <1>1, <1>12, <1>14, <2>1, <2>2 DEF MapOK, Span
<1>p. PagerOK'
  <2>1. ASSUME NEW r \in regs[c], r.kind = "paged", NEW s \in Span(r)
        PROVE  array'[c][s] = dir'[t][s]
    <3>1. s \in Slots
      BY RegionNeeds DEF PgtInv
    <3>2. dir'[t][s] \in Own(t) /\ tab[dir'[t][s]].base = s
      BY <1>10, <1>12, <2>1, <3>1
    <3>3. PICK q \in Tables : q = dir'[t][s]
      BY <1>5, <3>2
    <3>4. tab[q].at # "free" /\ tab[q].ctx = c /\ tab[q].base = s
      BY <1>3, <1>5, <3>2, <3>3, PgtAssumption
    <3>5. array'[c][s] # NIL
      BY <1>9, <2>1
    <3>6. PICK p \in Tables : p = array'[c][s]
      BY <1>9, <3>1, <3>5
    <3>7. tab[p].at # "free" /\ tab[p].ctx = c /\ tab[p].base = s
      BY <1>9, <3>1, <3>5, <3>6 DEF PgtInv, PagerPointers
    <3> QED
      BY <3>3, <3>4, <3>6, <3>7 DEF PgtInv, OneTablePerSlot
  <2>2. ASSUME NEW u \in PgtThreads \ {t}, Running(u)', u \notin stale,
               NEW r \in regs[cur[u]], r.kind = "paged", ~(at[u] = "flush" /\ r = rem[u]),
               NEW s \in Span(r)
        PROVE  array'[cur[u]][s] = dir[u][s]
    <3>1. Running(u)
      BY <1>1, <2>2 DEF Running
    <3>2. cur[u] \in Ctxs \ {c}
      BY <1>3, <3>1 DEF PgtInv, AtOK
    <3> QED
      BY <1>9, <2>2, <3>1, <3>2 DEF PgtInv, PagerOK
  <2> QED
    BY <1>1, <1>12, <2>1, <2>2 DEF PagerOK, Span
<1>23. WaitOK'
  <2>1. \A u \in PgtThreads : WillTell(u) => WillTell(u)'
    BY <1>1, <1>14 DEF WillTell, Running, NoDir, Slots
  <2>2. \A u \in PgtThreads : Need(regs[Top(u)])' = Need(regs[Top(u)])
    BY <1>1, <1>14
  <2> QED
    BY <1>1, <1>14, <2>1, <2>2, WaitKeeps DEF PgtInv
<1>24. EntriesCurrent'
  <2> SUFFICES ASSUME NEW p \in Tables, tab[p].at # "free"
               PROVE  /\ tab[p].ctx \in live
                      /\ tab'[p].tbl \subseteq {r \in regs[tab[p].ctx] : tab[p].base \in Span(r)}
    BY <1>1, <1>7 DEF EntriesCurrent
  <2>1. /\ tab[p].ctx \in live
        /\ tab[p].tbl \subseteq {r \in regs[tab[p].ctx] : tab[p].base \in Span(r)}
    BY DEF PgtInv, EntriesCurrent
  <2>2. Par(p) \subseteq {r \in regs[c] : tab[p].base \in Span(r)}
    BY DEF Par, Params
  <2> QED
    BY <1>3, <1>7, <2>1, <2>2
<1>25. OneTablePerSlot'
  BY <1>7 DEF PgtInv, OneTablePerSlot
<1>26. PagerPointers'
  <2> SUFFICES ASSUME NEW d \in Ctxs, NEW i \in Slots, array'[d][i] # NIL
               PROVE  /\ tab'[array'[d][i]].at # "free" /\ tab'[array'[d][i]].ctx = d
                      /\ tab'[array'[d][i]].base = i
    BY DEF PagerPointers
  <2>1. /\ array'[d][i] \in Tables
        /\ tab[array'[d][i]].at # "free" /\ tab[array'[d][i]].ctx = d
        /\ tab[array'[d][i]].base = i
    BY <1>9 DEF PgtInv, PgtTypeOK, PagerPointers
  <2> QED
    BY <1>7, <2>1
<1> QED
  BY <1>p, <1>13, <1>17, <1>18, <1>19, <1>20, <1>21, <1>22, <1>23, <1>24, <1>25, <1>26
     DEF PgtInv

-----------------------------------------------------------------------------

\* Every step keeps the invariant.
LEMMA PgtNextInv == PgtInv /\ [PgtNext]_pgtVars => PgtInv'
<1> SUFFICES ASSUME PgtInv, [PgtNext]_pgtVars PROVE PgtInv'
  OBVIOUS
<1>1. ASSUME NEW t \in PgtThreads, Step(t) PROVE PgtInv'
  BY <1>1, FreeKeeps, LockKeeps, PopKeeps, FailKeepsInv, SleepKeeps, AllocatedKeeps,
     MapFailsKeeps, MappedKeeps, ReturnKeeps, CleanParamKeeps, LeaveKeeps, ClearKeeps, FlushKeeps
     DEF Step
<1>2. ASSUME NEW t \in PgtThreads, NEW c \in Ctxs, NEW P \in SUBSET ParamRegion,
             Enter(t, c, P)
      PROVE  PgtInv'
  <2>1. P \in SUBSET Region
    BY DEF ParamRegion
  <2> QED
    BY <1>2, <2>1, EnterKeeps
<1>3. ASSUME NEW t \in PgtThreads, NEW r \in PagedRegion,
             Map(t, r) \/ Unmap(t, r) \/ \E s \in Span(r) : PageIn(t, r, s)
      PROVE  PgtInv'
  <2>1. r \in Region
    BY DEF PagedRegion
  <2> QED
    BY <1>3, <2>1, MapKeeps, UnmapKeeps, PageInKeeps
<1>4. ASSUME NEW c \in Ctxs, Create(c) \/ Destroy(c) PROVE PgtInv'
  BY <1>4, CreateKeeps, DestroyKeeps
<1>5. ASSUME NEW c \in Ctxs, NEW r \in PagedRegion, NEW s \in Span(r), PageOut(c, r, s)
      PROVE  PgtInv'
  BY <1>5, PageOutKeeps DEF PagedRegion
<1>6. CASE UNCHANGED pgtVars
  <2>1. UNCHANGED <<pgt_mu, tab, array, regs, live, stack, cur, dir, rem, stale, at>>
    BY <1>6 DEF pgtVars
  <2>2. /\ \A u \in PgtThreads : Top(u)' = Top(u) /\ Own(u)' = Own(u)
        /\ \A u \in PgtThreads, c \in Ctxs : Inside(u, c)' = Inside(u, c)
        /\ Avail' = Avail
        /\ \A R : Need(R)' = Need(R)
    BY <2>1 DEF Top, Own, Inside, Avail, Need
  <2>3. PgtTypeOK' /\ LockOK' /\ FlushOK'
    BY <2>1 DEF PgtInv, PgtTypeOK, LockOK, FlushOK, Absent, Allocating
  <2>4. CtxOK'
    BY <2>1, <2>2 DEF PgtInv, CtxOK
  <2>5. AtOK' /\ OwnOK' /\ MapOK' /\ PagerOK'
    BY <2>1, <2>2
       DEF PgtInv, AtOK, OwnOK, MapOK, PagerOK, Running, Allocating, Absent
  <2>6. WaitOK'
    BY <2>1, <2>2, WaitKeeps DEF PgtInv, WillTell, Running
  <2>7. EntriesCurrent' /\ OneTablePerSlot' /\ PagerPointers'
    BY <2>1, TablesSame DEF PgtInv
  <2> QED
    BY <2>3, <2>4, <2>5, <2>6, <2>7 DEF PgtInv
<1> QED
  BY <1>1, <1>2, <1>3, <1>4, <1>5, <1>6 DEF PgtNext

\* mm/pgt_cache.c and its users, for every number of threads, contexts, tables and
\* slots: tables map only what their context has, one per slot; the pager's pointers
\* lead to the tables of their context, and so do the page directories for all regions,
\* unless the code has left them stale; no thread waits in pgt_alloc() for tables that
\* nobody will tell it of, but for those that a vm_map() which failed has given back.
THEOREM PageTablesCorrect == PgtSpec => []PageTablesSafe
<1>1. PgtInv => PageTablesSafe
  <2> SUFFICES ASSUME PgtInv PROVE PageTablesSafe
    OBVIOUS
  <2>1. UserMapOwned
    BY PgtAssumption DEF PgtInv, MapOK, PagerOK, UserMapOwned, Running, Own
  <2>2. NoForgottenWaiter
    BY DEF PgtInv, WaitOK, NoForgottenWaiter, WillTell
  <2> QED
    BY <2>1, <2>2 DEF PgtInv, PageTablesSafe
<1> QED
  BY <1>1, PgtInitInv, PgtNextInv, PTL DEF PgtSpec
=============================================================================
