------------------------------ MODULE MCThreads -----------------------------
(* The threads with their RPCs, and two users of the mutex of Monitor: the    *)
(* recursive mutex and the pool of page tables.  Each is checked alone; what  *)
(* is not checked stays in its initial state.                                 *)
EXTENDS RecursiveMutex, ThreadRpc, PgtCache

VARIABLE part

PartInit ==
    part \in {"recursive", "pgt", "rpc"} /\ Init /\ PgtInit /\ RpcInit

PartNext ==
    /\ UNCHANGED part
    /\ \/ part = "recursive" /\ Next /\ UNCHANGED <<pgtVars, rpcVars>>
       \/ part = "pgt" /\ PgtNext /\ UNCHANGED <<vars, rpcVars>>
       \/ part = "rpc" /\ RpcNext /\ UNCHANGED <<vars, pgtVars>>

\* The fairness of the page tables asks for nothing in their initial state.
PartSpec ==
    PartInit /\ [][PartNext]_<<part, vars, pgtVars, rpcVars>> /\ PgtFairness
=============================================================================
