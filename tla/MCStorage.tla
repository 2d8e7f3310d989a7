----------------------------- MODULE MCStorage ------------------------------
(* Secure storage, in two parts that are checked alone: the file system of    *)
(* objects, and a file of blocks, on whose atomic updates the first relies.   *)
EXTENDS ReeFs

CONSTANTS MaxBlocks, BlockWrites, MaxCounter, CutBy, CutNodesMax, Faults

ASSUME MCStorageAssumption ==
    /\ MaxBlocks \in Nat \ {0} /\ BlockWrites \in Nat /\ MaxCounter \in Nat
    /\ CutBy \subseteq 0..MaxBlocks
    /\ Faults \subseteq {"create", "commit", "truncate", "retry"}

VARIABLES part, kind, head, node, block, exists, ref, ht, pc, stamp

fileVars == <<kind, head, node, block, exists, ref, ht, pc, stamp>>

Blocks == INSTANCE HashTree WITH MaxWrites <- BlockWrites, clock <- stamp

PartInit ==
    /\ Init /\ Blocks!Init
    /\ \/ part = "file"
       \/ part = "objects" /\ kind = "object"

PartNext ==
    /\ UNCHANGED part
    /\ \/ part = "file" /\ Blocks!Next /\ UNCHANGED vars
       \/ part = "objects" /\ Next /\ UNCHANGED fileVars

PartSpec == PartInit /\ [][PartNext]_<<part, vars, fileVars>>

\* Of a file: what was committed last can be opened and read.
FileRecoverable == Blocks!TypeOK /\ Blocks!Recoverable

\* fs_htree.h:10: updates of a file are atomic.
ImplementsAtomicFile == Blocks!ImplementsAtomicFile
=============================================================================
