------------------------------ MODULE Monitor ------------------------------
(***************************************************************************)
(* What core/include/kernel/mutex.h promises to its users: a read/write    *)
(* lock with condition variables, without queue, spinlock or notification. *)
(* Releasing the lock and starting to wait for a condition variable is one *)
(* step, a signal ends one wait, a broadcast all of them, and a thread     *)
(* that waited owns the lock again in the mode it had.                     *)
(*                                                                         *)
(* Nothing is promised about who gets the lock next: a thread may take it  *)
(* before one that asked earlier.                                          *)
(***************************************************************************)
CONSTANTS
    Threads,    \* the threads
    Condvars,   \* the condition variables
    NULL        \* no condition variable

VARIABLES
    phase,   \* where each thread is: "out", "want", "own" or "wait"
    how,     \* how it owns, or will own, the lock: "read" or "write"
    cv       \* the condition variable it waits for

mvars == <<phase, how, cv>>

Phase == {"out", "want", "own", "wait"}
How == {"read", "write"}

TypeOK ==
    /\ phase \in [Threads -> Phase]
    /\ how \in [Threads -> How]
    /\ cv \in [Threads -> Condvars \cup {NULL}]

Init ==
    /\ phase = [t \in Threads |-> "out"]
    /\ how = [t \in Threads |-> "write"]
    /\ cv = [t \in Threads |-> NULL]

\* The lock can be given in mode m: no owner excludes it.
Grantable(m) ==
    \A u \in Threads : phase[u] = "own" => m = "read" /\ how[u] = "read"

\* A thread asks for the lock.
Request(t, m) ==
    /\ phase[t] = "out"
    /\ phase' = [phase EXCEPT ![t] = "want"]
    /\ how' = [how EXCEPT ![t] = m]
    /\ UNCHANGED cv

\* A thread that asked for the lock, or whose wait has ended, gets it.
Grant(t) ==
    /\ phase[t] = "want"
    /\ Grantable(how[t])
    /\ phase' = [phase EXCEPT ![t] = "own"]
    /\ UNCHANGED <<how, cv>>

\* A try succeeds.
Try(t, m) ==
    /\ phase[t] = "out"
    /\ Grantable(m)
    /\ phase' = [phase EXCEPT ![t] = "own"]
    /\ how' = [how EXCEPT ![t] = m]
    /\ UNCHANGED cv

Release(t) ==
    /\ phase[t] = "own"
    /\ phase' = [phase EXCEPT ![t] = "out"]
    /\ how' = [how EXCEPT ![t] = "write"]
    /\ UNCHANGED cv

\* Release the lock and wait for c, at once.
Wait(t, c) ==
    /\ phase[t] = "own"
    /\ phase' = [phase EXCEPT ![t] = "wait"]
    /\ cv' = [cv EXCEPT ![t] = c]
    /\ UNCHANGED how

\* An owner ends the wait of the threads in W.
EndWait(W) ==
    /\ phase' = [u \in Threads |-> IF u \in W THEN "want" ELSE phase[u]]
    /\ cv' = [u \in Threads |-> IF u \in W THEN NULL ELSE cv[u]]
    /\ UNCHANGED how

Waiting(c) == {u \in Threads : phase[u] = "wait" /\ cv[u] = c}

\* The owner t ends the wait of one thread that waits for c.
Signal(t, c) ==
    /\ phase[t] = "own"
    /\ \E u \in Waiting(c) : EndWait({u})

\* The owner t ends the wait of all threads that wait for c.
Broadcast(t, c) ==
    /\ phase[t] = "own"
    /\ EndWait(Waiting(c))

Next ==
    \E t \in Threads :
        \/ \E m \in How : Request(t, m) \/ Try(t, m)
        \/ Grant(t)
        \/ Release(t)
        \/ \E c \in Condvars : Wait(t, c) \/ Signal(t, c) \/ Broadcast(t, c)

Spec == Init /\ [][Next]_mvars
=============================================================================
