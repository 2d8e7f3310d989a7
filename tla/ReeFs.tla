------------------------------- MODULE ReeFs --------------------------------
(***************************************************************************)
(* The REE file system: tee/tee_ree_fs.c and its directory,                *)
(* tee/fs_dirfile.c.                                                       *)
(*                                                                         *)
(* Objects are files with a number, and the directory maps a name to the   *)
(* number and to the hash of the root of the file.  The directory is a     *)
(* file whose updates are atomic (module HashTree): with CFG_RPMB_FS it is *)
(* committed when the RPMB has its hash, without by its own header.  Of a  *)
(* file only its two versions are kept, each a number that stands for hash *)
(* and content.  ree_fs_mutex is held by one operation at a time, whose    *)
(* steps are the writes to normal world; between them the power may be     *)
(* lost.                                                                   *)
(***************************************************************************)
EXTENDS Integers, Functions, FiniteSetsExt

CONSTANTS
    Handles,     \* file handles
    Iters,       \* directories opened to enumerate the objects
    Names,       \* object identifiers
    Nums,        \* file numbers, an interval from 0
    MaxWrites,   \* bound: the number of file versions
    Modes,       \* "io": RPCs that write fail; "retry": a handle is used on
                 \* after an error; "share": an object is open more than once;
                 \* "enum": operations fail while directories are open
    NONE

Idx == 1..Cardinality(Names)
Stamps == 0..MaxWrites    \* 0: nothing usable
Version == 0..1

VARIABLES
    dir,     \* the committed directory
    file,    \* the files of normal world, with two versions
    dirh,    \* ree_fs_dirh, the open directory with what is not committed
    refs,    \* ree_fs_dirh_refcount
    hnd,     \* struct tee_fs_fd
    it,      \* struct tee_fs_dir
    op,      \* the operation that holds ree_fs_mutex
    clock,
    fault    \* an assertion has failed or a null pointer was used

memory == <<dirh, refs, hnd, it, op>>
vars == <<dir, file, dirh, refs, hnd, it, op, clock, fault>>

NoEnts == [i \in Idx |-> NONE]
NoOp == [kind |-> "none", h |-> NONE, pc |-> "none", oid |-> NONE, num |-> NONE,
         old |-> NONE, hash |-> 0]

\* struct dirfile_entry, struct tee_fs_dirfile_dirh, struct tee_fs_fd,
\* struct tee_fs_dir.
Entry == [oid : Names, num : Nums, hash : Stamps \ {0}]
Entries == [Idx -> Entry \cup {NONE}]
Dirh == [ents : Entries, used : SUBSET Nums]
Handle == [oid : Names, num : Nums, idx : Idx, slot : Version, hash : Stamps \ {0},
           gone : BOOLEAN, tree : BOOLEAN, err : BOOLEAN]
Iterator == [valid : BOOLEAN, idx : Idx \cup {0}]
Operation == [kind : {"none", "create", "write", "remove"}, h : Handles \cup {NONE},
              pc : {"none", "sync", "name", "unlink", "hash"}, oid : Names \cup {NONE},
              num : Nums \cup {NONE}, old : Nums \cup {NONE}, hash : Stamps]

ASSUME ReeFsAssumption ==
    /\ IsFiniteSet(Handles) /\ IsFiniteSet(Iters) /\ IsFiniteSet(Names)
    /\ Nums \subseteq Nat /\ MaxWrites \in Nat
    /\ Modes \subseteq {"io", "retry", "share", "enum"}
    /\ NONE \notin Stamps \cup Nums \cup Names \cup Handles
    /\ NONE \notin Entry /\ NONE \notin Dirh /\ NONE \notin Handle
    /\ NONE \notin [Version -> Stamps] /\ NONE \notin Iterator

TypeOK ==
    /\ dir \in Entries
    /\ file \in [Nums -> [Version -> Stamps] \cup {NONE}]
    /\ dirh \in Dirh \cup {NONE}
    /\ refs \in Nat
    /\ hnd \in [Handles -> Handle \cup {NONE}]
    /\ it \in [Iters -> Iterator \cup {NONE}]
    /\ op \in Operation
    /\ clock \in Stamps
    /\ fault \in BOOLEAN

Init ==
    /\ dir = NoEnts
    /\ file = [n \in Nums |-> NONE]
    /\ dirh = NONE
    /\ refs = 0
    /\ hnd = [h \in Handles |-> NONE]
    /\ it = [d \in Iters |-> NONE]
    /\ op = NoOp
    /\ clock = 0
    /\ fault = FALSE

-----------------------------------------------------------------------------
(* The directory.                                                          *)

Numbers(ents) == {ents[i].num : i \in {j \in Idx : ents[j] # NONE}}

\* tee_fs_dirfile_find().
Find(ents, oid) == {i \in Idx : ents[i] # NONE /\ ents[i].oid = oid}

\* tee_fs_dirfile_find() of no name: the first entry that is free.
FirstFree(ents) == Min({i \in Idx : ents[i] = NONE})

\* Mutant: the number of a temporary file is the first that no other temporary
\* file has.
GetTmpAny(d) == Min(Nums \ (d.used \ Numbers(d.ents)))

\* tee_fs_dirfile_get_tmp().
GetTmp(d) == Min(Nums \ d.used)

\* open_dirh() unless the directory is open.
GetDirh == IF dirh # NONE THEN dirh ELSE [ents |-> dir, used |-> Numbers(dir)]

\* Mutant: the directory stays open after an error.
PutDirhKeeps(d, r, close) ==
    /\ refs' = r - 1
    /\ IF r = 1 THEN dirh' = NONE ELSE dirh' = d
    /\ it' = IF r = 1 THEN [i \in Iters |-> IF it[i] = NONE THEN NONE ELSE [it[i] EXCEPT !.valid = FALSE]]
             ELSE it

\* put_dirh_primitive(): directories that are being enumerated keep a pointer to
\* the one that is closed.
PutDirh(d, r, close) ==
    /\ refs' = r - 1
    /\ IF r = 1 \/ close
       THEN /\ dirh' = NONE
            /\ it' = [i \in Iters |-> IF it[i] = NONE THEN NONE ELSE [it[i] EXCEPT !.valid = FALSE]]
       ELSE dirh' = d /\ it' = it

\* Mutant: an error closes the directory and keeps the reference.
FailsKeepsRef(d, r) ==
    ("enum" \in Modes \/ \A i \in Iters : it[i] = NONE) /\ PutDirh(d, r + 1, TRUE)

\* An operation ends with an error and closes the directory, which forgets the
\* changes of d that are not committed.
Fails(d, r) == ("enum" \in Modes \/ \A i \in Iters : it[i] = NONE) /\ PutDirh(d, r, TRUE)

-----------------------------------------------------------------------------
(* Handles.                                                                *)

NewHandle(oid, num, idx, slot, hash) ==
    [oid |-> oid, num |-> num, idx |-> idx, slot |-> slot, hash |-> hash,
     gone |-> FALSE, tree |-> TRUE, err |-> FALSE]

Idle(h) == op = NoOp /\ hnd[h] = NONE
Usable(h) == op = NoOp /\ hnd[h] # NONE /\ ("retry" \in Modes \/ ~hnd[h].err)

IsOpen(oid, hs) == \E h \in hs : hnd[h] # NONE /\ hnd[h].oid = oid

\* tee_pobj_get() lets an object be opened once, unless all handles share it; who
\* renames or removes it has it alone.
MayOpen(oid) == "share" \in Modes \/ ~IsOpen(oid, Handles)
Exclusive(h) == Usable(h) /\ ~IsOpen(hnd[h].oid, Handles \ {h})

\* OPTEE_RPC_FS_REMOVE: handles of the file keep what they have opened.
Unlink(n) ==
    /\ file' = [file EXCEPT ![n] = NONE]
    /\ hnd' = [h \in Handles |->
                 IF hnd[h] # NONE /\ hnd[h].num = n THEN [hnd[h] EXCEPT !.gone = TRUE] ELSE hnd[h]]

\* ree_fs_open().
Open(h, oid) ==
    /\ Idle(h) /\ MayOpen(oid)
    /\ LET d == GetDirh
           found == Find(d.ents, oid)
           e == d.ents[Min(found)]
           slots == {v \in Version : file[e.num] # NONE /\ file[e.num][v] = e.hash}
       IN  IF found # {} /\ slots # {}
           THEN /\ dirh' = d /\ refs' = refs + 1 /\ it' = it
                /\ hnd' = [hnd EXCEPT ![h] = NewHandle(oid, e.num, Min(found), Min(slots), e.hash)]
           ELSE Fails(d, refs + 1) /\ hnd' = hnd
    /\ UNCHANGED <<dir, file, op, clock, fault>>

\* ree_fs_close().
Close(h) ==
    /\ op = NoOp /\ hnd[h] # NONE
    /\ PutDirh(dirh, refs, FALSE)
    /\ hnd' = [hnd EXCEPT ![h] = NONE]
    /\ UNCHANGED <<dir, file, op, clock, fault>>

-----------------------------------------------------------------------------
(* ree_fs_create().                                                        *)

CreateStart(h, oid) ==
    /\ Idle(h) /\ MayOpen(oid) /\ clock < MaxWrites
    /\ LET d == GetDirh
           n == GetTmp(d)
       IN  /\ d.used # Nums
           /\ dirh' = [d EXCEPT !.used = @ \cup {n}]
           /\ file' = [file EXCEPT ![n] = [v \in Version |-> 0]]
           /\ op' = [NoOp EXCEPT !.kind = "create", !.h = h, !.pc = "sync", !.oid = oid, !.num = n]
    /\ refs' = refs + 1
    /\ UNCHANGED <<dir, hnd, it, clock, fault>>

\* The content is written and tee_fs_htree_sync_to_storage() gives the hash.
CreateSync ==
    /\ op.kind = "create" /\ op.pc = "sync"
    /\ file' = [file EXCEPT ![op.num][1] = clock + 1]
    /\ clock' = clock + 1
    /\ op' = [op EXCEPT !.pc = "name", !.hash = clock + 1]
    /\ UNCHANGED <<dir, dirh, refs, hnd, it, fault>>

\* The directory is closed and the temporary file removed.
CreateError(d) ==
    /\ Fails(d, refs)
    /\ Unlink(op.num)
    /\ op' = NoOp
    /\ dir' = dir

\* tee_fs_dirfile_rename() for a new file: the entry with the name gets it.
NamedIdx == Min(IF Find(dirh.ents, op.oid) = {} THEN {FirstFree(dirh.ents)}
                ELSE Find(dirh.ents, op.oid))
Named == [dirh EXCEPT !.ents[NamedIdx] = [oid |-> op.oid, num |-> op.num, hash |-> op.hash]]

\* Mutant: the old file is removed before the directory is committed.
CommitNameUnlinksFirst ==
    IF op.old = NONE /\ dirh.ents[NamedIdx] # NONE
    THEN /\ Unlink(dirh.ents[NamedIdx].num)
         /\ op' = [op EXCEPT !.old = dirh.ents[NamedIdx].num]
         /\ UNCHANGED <<dir, dirh>>
    ELSE /\ dir' = Named.ents /\ dirh' = Named
         /\ op' = NoOp
         /\ hnd' = [hnd EXCEPT ![op.h] = NewHandle(op.oid, op.num, NamedIdx, 1, op.hash)]
         /\ file' = file

CommitName ==
    /\ dir' = Named.ents /\ dirh' = Named
    /\ IF dirh.ents[NamedIdx] = NONE THEN op' = NoOp
       ELSE op' = [op EXCEPT !.pc = "unlink", !.old = dirh.ents[NamedIdx].num]
    /\ hnd' = [hnd EXCEPT ![op.h] = NewHandle(op.oid, op.num, NamedIdx, 1, op.hash)]
    /\ file' = file

\* set_name().
SetName(overwrite) ==
    /\ op.kind = "create" /\ op.pc = "name" /\ (overwrite \/ ~IsOpen(op.oid, Handles))
    /\ IF Find(dirh.ents, op.oid) # {} /\ ~overwrite
       THEN CreateError(dirh)
       ELSE CommitName /\ UNCHANGED <<refs, it>>
    /\ UNCHANGED <<clock, fault>>

CreateUnlink ==
    /\ op.kind = "create" /\ op.pc = "unlink"
    /\ Unlink(op.old)
    /\ op' = NoOp
    /\ UNCHANGED <<dir, dirh, refs, it, clock, fault>>

\* An RPC fails: of the file, of the directory, or the one that removes the old
\* file, whose result nobody looks at.
CreateFails ==
    /\ "io" \in Modes /\ op.kind = "create"
    /\ IF op.pc = "unlink" THEN op' = NoOp /\ UNCHANGED <<dir, file, dirh, refs, hnd, it>>
       ELSE CreateError(IF op.pc = "name" THEN Named ELSE dirh)
    /\ UNCHANGED <<clock, fault>>

-----------------------------------------------------------------------------
(* ree_fs_write() and ree_fs_truncate().                                   *)

\* The content of version s of the file of handle h becomes c.
PutVersion(h, s, c) ==
    file' = IF hnd[h].gone THEN file ELSE [file EXCEPT ![hnd[h].num][s] = c]

\* The first write goes to the version that the handle does not use.
WriteStart(h) ==
    /\ Usable(h) /\ clock < MaxWrites
    /\ IF hnd[h].tree
       THEN /\ dirh' = GetDirh /\ refs' = refs + 1
            /\ op' = [NoOp EXCEPT !.kind = "write", !.h = h, !.pc = "sync"]
            /\ PutVersion(h, 1 - hnd[h].slot, 0)
            /\ fault' = fault
       ELSE fault' = TRUE /\ UNCHANGED <<file, dirh, refs, op>>
    /\ UNCHANGED <<dir, hnd, it, clock>>

\* tee_fs_htree_sync_to_storage().
WriteSync ==
    /\ op.kind = "write" /\ op.pc = "sync"
    /\ PutVersion(op.h, 1 - hnd[op.h].slot, clock + 1)
    /\ hnd' = [hnd EXCEPT ![op.h].slot = 1 - @, ![op.h].hash = clock + 1]
    /\ clock' = clock + 1
    /\ op' = [op EXCEPT !.pc = "hash"]
    /\ UNCHANGED <<dir, dirh, refs, it, fault>>

Hashed(h) == [dirh EXCEPT !.ents[h.idx].hash = h.hash]

\* tee_fs_dirfile_update_hash() and the commit of the directory.  An entry that
\* was removed has number 0.
WriteCommit ==
    /\ op.kind = "write" /\ op.pc = "hash"
    /\ LET h == hnd[op.h]
           e == dirh.ents[h.idx]
           d == IF e = NONE THEN dirh ELSE Hashed(h)
       IN  IF h.num = (IF e = NONE THEN 0 ELSE e.num) /\ h.num \in dirh.used
           THEN /\ dir' = d.ents
                /\ PutDirh(d, refs, FALSE)
                /\ op' = NoOp /\ fault' = fault
           ELSE fault' = TRUE /\ UNCHANGED <<dir, dirh, refs, it, op>>
    /\ UNCHANGED <<file, hnd, clock>>

\* Before the tree is written an error ends the tree of the handle, later only the
\* directory is closed.
WriteFails ==
    /\ "io" \in Modes /\ op.kind = "write"
    /\ Fails(IF op.pc = "sync" \/ dirh.ents[hnd[op.h].idx] = NONE THEN dirh ELSE Hashed(hnd[op.h]), refs)
    /\ hnd' = [hnd EXCEPT ![op.h].tree = @ /\ op.pc # "sync", ![op.h].err = TRUE]
    /\ op' = NoOp
    /\ UNCHANGED <<dir, file, clock, fault>>

-----------------------------------------------------------------------------
(* Names.                                                                  *)

\* ree_fs_rename(), which is never asked to overwrite.
Rename(h, oid) ==
    /\ Exclusive(h) /\ ~IsOpen(oid, Handles)
    /\ LET d == GetDirh
           mine == Find(d.ents, hnd[h].oid)
           new == [d EXCEPT !.ents[Min(mine)].oid = oid]
       IN  IF Find(d.ents, oid) # {} \/ mine = {}
           THEN Fails(d, refs + 1) /\ UNCHANGED <<dir, hnd>>
           ELSE \/ /\ dir' = new.ents /\ dirh' = new
                   /\ hnd' = [hnd EXCEPT ![h].oid = oid]
                   /\ UNCHANGED <<refs, it>>
                \/ /\ "io" \in Modes
                   /\ Fails(new, refs + 1) /\ UNCHANGED <<dir, hnd>>
    /\ UNCHANGED <<file, op, clock, fault>>

\* ree_fs_remove(), after which the handle is closed in any case.
RemoveObject(h) ==
    /\ Exclusive(h)
    /\ LET d == GetDirh
           mine == Find(d.ents, hnd[h].oid)
           i == Min(mine)
           new == [ents |-> [d.ents EXCEPT ![i] = NONE], used |-> d.used \ {d.ents[i].num}]
       IN  \/ /\ mine # {}
              /\ dir' = new.ents /\ dirh' = new
              /\ refs' = refs + 1
              /\ op' = [NoOp EXCEPT !.kind = "remove", !.h = h, !.old = d.ents[i].num]
              /\ UNCHANGED <<hnd, it>>
           \/ /\ "io" \in Modes \/ mine = {}
              /\ Fails(IF mine = {} THEN d ELSE new, refs)
              /\ hnd' = [hnd EXCEPT ![h] = NONE]
              /\ UNCHANGED <<dir, op>>
    /\ UNCHANGED <<file, clock, fault>>

RemoveUnlink ==
    /\ op.kind = "remove"
    /\ file' = [file EXCEPT ![op.old] = NONE]
    /\ hnd' = [h \in Handles |->
                 IF h = op.h THEN NONE
                 ELSE IF hnd[h] # NONE /\ hnd[h].num = op.old THEN [hnd[h] EXCEPT !.gone = TRUE]
                 ELSE hnd[h]]
    /\ PutDirh(dirh, refs - 1, FALSE)
    /\ op' = NoOp
    /\ UNCHANGED <<dir, clock, fault>>

-----------------------------------------------------------------------------
(* Enumeration of the objects.                                             *)

\* ree_fs_opendir_rpc().
OpenDir(i) ==
    /\ op = NoOp /\ it[i] = NONE
    /\ LET d == GetDirh
       IN  IF d.ents = NoEnts
           THEN dirh' = (IF refs = 0 THEN NONE ELSE d) /\ UNCHANGED <<refs, it>>
           ELSE /\ dirh' = d /\ refs' = refs + 1
                /\ it' = [it EXCEPT ![i] = [valid |-> TRUE, idx |-> 0]]
    /\ UNCHANGED <<dir, file, hnd, op, clock, fault>>

\* ree_fs_readdir_rpc().
ReadDir(i) ==
    /\ op = NoOp /\ it[i] # NONE
    /\ fault' = (fault \/ ~it[i].valid)
    /\ LET more == {k \in Idx : k > it[i].idx /\ it[i].valid /\ dirh.ents[k] # NONE}
       IN  it' = IF more = {} THEN it ELSE [it EXCEPT ![i].idx = Min(more)]
    /\ UNCHANGED <<dir, file, dirh, refs, hnd, op, clock>>

\* ree_fs_closedir_rpc(), put_dirh(): the directory must be the one that is open.
CloseDir(i) ==
    /\ op = NoOp /\ it[i] # NONE
    /\ IF it[i].valid
       THEN /\ refs' = refs - 1
            /\ dirh' = IF refs = 1 THEN NONE ELSE dirh
            /\ it' = [it EXCEPT ![i] = NONE]
            /\ fault' = fault
       ELSE fault' = TRUE /\ UNCHANGED <<refs, dirh, it>>
    /\ UNCHANGED <<dir, file, hnd, op, clock>>

-----------------------------------------------------------------------------
PowerLoss ==
    /\ dirh' = NONE /\ refs' = 0
    /\ hnd' = [h \in Handles |-> NONE] /\ it' = [i \in Iters |-> NONE]
    /\ op' = NoOp
    /\ UNCHANGED <<dir, file, clock, fault>>

Next ==
    \/ \E h \in Handles :
          \/ Close(h) \/ WriteStart(h) \/ RemoveObject(h)
          \/ \E oid \in Names : Open(h, oid) \/ CreateStart(h, oid) \/ Rename(h, oid)
    \/ CreateSync \/ (\E overwrite \in BOOLEAN : SetName(overwrite)) \/ CreateUnlink
    \/ CreateFails \/ WriteSync \/ WriteCommit \/ WriteFails \/ RemoveUnlink
    \/ \E i \in Iters : OpenDir(i) \/ ReadDir(i) \/ CloseDir(i)
    \/ PowerLoss

Spec == Init /\ [][Next]_vars

-----------------------------------------------------------------------------
\* The content of an object in the committed directory: 0 if its file does not
\* have it.
Object(oid) ==
    LET e == dir[Min(Find(dir, oid))]
    IN  IF Find(dir, oid) = {} THEN NONE
        ELSE IF file[e.num] # NONE /\ e.hash \in Range(file[e.num]) THEN e.hash ELSE 0

\* Creating, writing, renaming and removing objects happens at once, or, if the
\* power is lost or a write fails before the directory is committed, not at all;
\* no object changes by an operation on another one.
Objects == INSTANCE ObjectStore WITH
    Contents <- Stamps \ {0}, store <- [oid \in Names |-> Object(oid)]

ImplementsObjectStore == Objects!Spec

\* Every object of the committed directory has its file, and no other one has it.
Recoverable ==
    \A i \in Idx : dir[i] # NONE =>
        /\ Object(dir[i].oid) # 0
        /\ \A j \in Idx \ {i} : dir[j] # NONE => dir[j].num # dir[i].num

\* A handle that can be used has a version of the file that no one else has
\* overwritten: reading does not find it corrupt, which would remove the object.
HandleReadable ==
    \A h \in Handles :
        hnd[h] # NONE /\ hnd[h].tree /\ ~hnd[h].gone => file[hnd[h].num][hnd[h].slot] = hnd[h].hash

\* ree_fs_dirh_refcount counts the handles and directories that are open and the
\* operation that is going on.
RefCountExact ==
    refs = Cardinality({h \in Handles : hnd[h] # NONE}) + Cardinality({i \in Iters : it[i] # NONE})
           + (IF op.kind = "none" \/ (op.kind = "create" /\ hnd[op.h] # NONE) THEN 0 ELSE 1)

\* The number of a file that is in the open directory, or open, is not given to a
\* temporary file, which would empty it.
NumbersReserved ==
    dirh # NONE =>
        /\ Numbers(dirh.ents) \subseteq dirh.used
        /\ op.kind = "create" /\ op.pc # "unlink" => op.num \notin Numbers(dir)

\* fs_dirfile.c:343, tee_ree_fs.c: the assertions on directory and handles hold and
\* the trees of handles exist when they are used.
AssertionsHold == ~fault

\* Of the file system: every object of the committed directory has its file, with
\* the content that the directory has the hash of, and no other object has that
\* file, whatever step of set_name(), ree_fs_write() or ree_fs_remove() was the
\* last; a handle reads the version that it was told of, which nobody overwrites;
\* ree_fs_dirh_refcount counts the users of the directory, also after errors;
\* tee_fs_dirfile_get_tmp() gives out no number of a file in use; and the assertions
\* of fs_dirfile.c and tee_ree_fs.c hold.
ObjectsSafe ==
    /\ TypeOK
    /\ Recoverable /\ HandleReadable
    /\ RefCountExact /\ NumbersReserved /\ AssertionsHold
=============================================================================
