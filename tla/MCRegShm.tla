------------------------------ MODULE MCRegShm ------------------------------
(* Model checking instances of RegShm. *)
EXTENDS RegShm

\* Threads, addresses and cookies are interchangeable.
Symmetry ==
    Permutations(Threads) \cup Permutations(Mobjs) \cup Permutations(Cookies)
=============================================================================
