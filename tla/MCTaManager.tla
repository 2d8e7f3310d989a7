---------------------------- MODULE MCTaManager ----------------------------
(* Model checking instances of TaManager. *)
EXTENDS TaManager

CONSTANTS A, B   \* TAs

\* Threads and addresses are interchangeable.
Symmetry ==
    Permutations(Threads) \cup Permutations(Sessions) \cup Permutations(Ctxs)

\* No TA calls another; A calls B; A calls B, and each itself.
NoCalls == {}
AcyclicCalls == {<<A, B>>}
CyclicCalls == {<<A, A>>, <<A, B>>, <<B, B>>}
=============================================================================
