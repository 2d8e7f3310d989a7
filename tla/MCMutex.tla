------------------------------ MODULE MCMutex ------------------------------
(* Model checking instances of Mutex. *)
EXTENDS Mutex

\* Threads are interchangeable.
Symmetry == Permutations(Threads)
=============================================================================
