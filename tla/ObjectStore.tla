---------------------------- MODULE ObjectStore -----------------------------
(***************************************************************************)
(* What the file system promises of the objects of a TA: each has a name   *)
(* and a content, and every operation takes effect at once or not at all,  *)
(* also if the power is lost.                                              *)
(***************************************************************************)
CONSTANTS Names, Contents, NONE

VARIABLE store

Init == store = [n \in Names |-> NONE]

Put == \E n \in Names, c \in Contents : store' = [store EXCEPT ![n] = c]

Move ==
    \E n, m \in Names :
       /\ store[n] # NONE /\ store[m] = NONE
       /\ store' = [store EXCEPT ![m] = store[n], ![n] = NONE]

Delete == \E n \in Names : store' = [store EXCEPT ![n] = NONE]

Spec == Init /\ [][Put \/ Move \/ Delete]_store
=============================================================================
