----------------------------- MODULE AtomicFile -----------------------------
(***************************************************************************)
(* What tee/fs_htree.h promises of a file: updates are atomic.  An open    *)
(* file is written and cut in a working copy, which a commit makes the     *)
(* content of the file at once.  A power loss, or an error, loses the      *)
(* working copy and nothing else.                                          *)
(***************************************************************************)
EXTENDS Integers, Sequences

CONSTANTS Values, MaxBlocks, NONE

VARIABLES disk, work

vars == <<disk, work>>

Init == disk = NONE /\ work = NONE

\* The contents that writing one block, or cutting, makes of c.
Written(c) ==
    {[i \in 1..(IF n > Len(c) THEN n ELSE Len(c)) |-> IF i = n THEN v ELSE c[i]] :
        n \in 1..(IF Len(c) < MaxBlocks THEN Len(c) + 1 ELSE MaxBlocks), v \in Values}

Cut(c) == {SubSeq(c, 1, n) : n \in 0..Len(c)}

\* A file that does not exist is created empty, another one opened.
Open == work = NONE /\ work' = IF disk = NONE THEN <<>> ELSE disk

Update == work # NONE /\ work' \in Written(work) \cup Cut(work)

Lose == work' = NONE

Commit == work # NONE /\ disk' = work /\ work' = work

Next == (disk' = disk /\ (Open \/ Update \/ Lose)) \/ Commit

Spec == Init /\ [][Next]_vars
=============================================================================
