---------------------------- MODULE ReeFsProofs -----------------------------
(***************************************************************************)
(* Proofs about ReeFs.                                                     *)
(***************************************************************************)
EXTENDS ReeFs, ListLemmas, FiniteSetTheorems, TLAPS

\* The entries of the committed directory name different objects and files, and
\* each file has the version that its entry has the hash of.
DirOK ==
    /\ \A i, j \in Idx :
          /\ dir[i] # NONE /\ dir[j] # NONE
          /\ dir[i].oid = dir[j].oid \/ dir[i].num = dir[j].num
          => i = j
    /\ \A i \in Idx : dir[i] # NONE =>
          /\ file[dir[i].num] # NONE
          /\ \E v \in Version : file[dir[i].num][v] = dir[i].hash

\* The open directory is the committed one: changes are committed, or the directory
\* is closed, before the mutex is released.  It is open where it is used.
DirhOK ==
    /\ dirh # NONE => dirh.ents = dir /\ Numbers(dir) \subseteq dirh.used
    /\ op.kind # "none" \/ (\E i \in Iters : it[i] # NONE) => dirh # NONE
    /\ \A i \in Iters : it[i] # NONE => it[i].valid

\* The handle's object is being removed, or a new version of it committed.
Removing(h) == op.kind = "remove" /\ op.h = h
Committing(h) == op.kind = "write" /\ op.h = h /\ op.pc = "hash"

\* A handle that is not being removed has the entry of its object, and a version of
\* the file that the next write leaves alone: the committed one, or the one that is
\* about to be committed.
Fits(h) ==
    hnd[h] # NONE /\ ~Removing(h) =>
        /\ ~hnd[h].gone
        /\ dir[hnd[h].idx] # NONE
        /\ dir[hnd[h].idx].oid = hnd[h].oid /\ dir[hnd[h].idx].num = hnd[h].num
        /\ hnd[h].tree => file[hnd[h].num][hnd[h].slot] = hnd[h].hash
        /\ ~hnd[h].err =>
              /\ hnd[h].tree
              /\ IF Committing(h)
                 THEN file[hnd[h].num][1 - hnd[h].slot] = dir[hnd[h].idx].hash
                 ELSE dir[hnd[h].idx].hash = hnd[h].hash

HandleOK == \A h \in Handles : Fits(h)

\* An object is open once.
HandlesDistinct ==
    \A g, h \in Handles :
        hnd[g] # NONE /\ hnd[h] # NONE /\ hnd[g].oid = hnd[h].oid => g = h

\* What the operation that holds the mutex works on: a new file is not in the
\* directory yet, a file to be removed no longer.
OpOK ==
    /\ op.kind = "none" => op = NoOp
    /\ op.kind # "none" => op.h \in Handles
    /\ op.kind = "create" =>
          \/ /\ op.pc \in {"sync", "name"}
             /\ hnd[op.h] = NONE /\ op.oid \in Names /\ ~IsOpen(op.oid, Handles)
             /\ op.num \in Nums \ Numbers(dir) /\ op.num \in dirh.used
             /\ file[op.num] # NONE
             /\ op.pc = "name" => op.hash # 0 /\ file[op.num][1] = op.hash
          \/ op.pc = "unlink" /\ hnd[op.h] # NONE /\ op.old \in Nums \ Numbers(dir)
    /\ op.kind = "write" =>
          op.pc \in {"sync", "hash"} /\ hnd[op.h] # NONE /\ ~hnd[op.h].err
    /\ op.kind = "remove" =>
          /\ hnd[op.h] # NONE /\ op.old \in Nums \ Numbers(dir)
          /\ hnd[op.h].tree => file[hnd[op.h].num][hnd[op.h].slot] = hnd[op.h].hash
    /\ op.pc = "sync" => clock < MaxWrites

\* What ree_fs_dirh_refcount counts.
Opens == {h \in Handles : hnd[h] # NONE}
Walks == {i \in Iters : it[i] # NONE}
OpRef == IF op.kind = "none" \/ (op.kind = "create" /\ hnd[op.h] # NONE) THEN 0 ELSE 1
Count == refs = Cardinality(Opens) + Cardinality(Walks) + OpRef

Inv ==
    /\ TypeOK /\ DirOK /\ DirhOK /\ HandleOK /\ HandlesDistinct /\ OpOK
    /\ Count /\ ~fault

-----------------------------------------------------------------------------
(* Facts about states.                                                     *)

\* The least of one number.
LEMMA MinOne ==
    ASSUME NEW i \in Int
    PROVE  Min({i}) = i
  BY DEF Min

\* The least of some numbers is one of them.
LEMMA MinIn ==
    ASSUME NEW S \in SUBSET Nat, S # {}
    PROVE  Min(S) \in S
<1>1. \E b \in S : \A a \in S : b <= a
  BY LeastNumber
<1> QED
  BY <1>1 DEF Min

\* The positions in the directory are numbers.
LEMMA IdxNat == Cardinality(Names) \in Nat /\ Idx \in SUBSET Nat
  BY ReeFsAssumption, FS_CardinalityType DEF Idx

\* The fields of entries, handles and the operation.
LEMMA EntryFields ==
    ASSUME TypeOK, NEW i \in Idx, dir[i] # NONE
    PROVE  /\ dir[i] \in Entry /\ dir[i].oid \in Names /\ dir[i].num \in Nums
           /\ dir[i].hash \in Stamps /\ dir[i].hash # 0
           /\ dir[i].num \in Numbers(dir)
<1>1. dir[i] \in Entry
  BY DEF TypeOK, Entries
<1> QED
  BY <1>1 DEF Entry, Numbers

\* The fields of an open handle.
LEMMA HandleFields ==
    ASSUME TypeOK, NEW h \in Handles, hnd[h] # NONE
    PROVE  /\ hnd[h] \in Handle /\ hnd[h].oid \in Names /\ hnd[h].num \in Nums
           /\ hnd[h].idx \in Idx /\ hnd[h].slot \in Version /\ 1 - hnd[h].slot \in Version
           /\ hnd[h].slot # 1 - hnd[h].slot
           /\ hnd[h].hash \in Stamps /\ hnd[h].hash # 0
           /\ hnd[h].gone \in BOOLEAN /\ hnd[h].tree \in BOOLEAN /\ hnd[h].err \in BOOLEAN
<1>1. hnd[h] \in Handle
  BY DEF TypeOK
<1> QED
  BY <1>1 DEF Handle, Version

\* The entry of an open object, which is the only one with its name.
LEMMA HandleEntry ==
    ASSUME Inv, NEW h \in Handles, hnd[h] # NONE, ~Removing(h)
    PROVE  /\ hnd[h].idx \in Idx /\ dir[hnd[h].idx] # NONE
           /\ dir[hnd[h].idx].oid = hnd[h].oid /\ dir[hnd[h].idx].num = hnd[h].num
           /\ hnd[h].num \in Numbers(dir)
           /\ Find(dir, hnd[h].oid) = {hnd[h].idx}
           /\ Min(Find(dir, hnd[h].oid)) = hnd[h].idx
<1>1. /\ hnd[h].idx \in Idx /\ dir[hnd[h].idx] # NONE
      /\ dir[hnd[h].idx].oid = hnd[h].oid /\ dir[hnd[h].idx].num = hnd[h].num
  BY HandleFields DEF Inv, HandleOK, Fits
<1>2. hnd[h].num \in Numbers(dir)
  BY <1>1, EntryFields DEF Inv
<1>3. Find(dir, hnd[h].oid) = {hnd[h].idx}
  BY <1>1 DEF Find, Inv, DirOK
<1>4. hnd[h].idx \in Int
  BY <1>1, IdxNat
<1> QED
  BY <1>1, <1>2, <1>3, <1>4, MinOne

\* open_dirh() reads the committed directory.
LEMMA GetDirhIsDir ==
    ASSUME Inv
    PROVE  GetDirh \in Dirh /\ GetDirh.ents = dir /\ Numbers(dir) \subseteq GetDirh.used
<1>1. Numbers(dir) \subseteq Nums
  BY EntryFields DEF Inv, Numbers
<1>2. CASE dirh = NONE
  BY <1>1, <1>2 DEF GetDirh, Dirh, Inv, TypeOK
<1>3. CASE dirh # NONE
  BY <1>3 DEF GetDirh, Inv, TypeOK, DirhOK
<1> QED
  BY <1>2, <1>3

\* Open handles and enumerations can be counted.
LEMMA Finite ==
    /\ IsFiniteSet(Opens) /\ Cardinality(Opens) \in Nat
    /\ IsFiniteSet(Walks) /\ Cardinality(Walks) \in Nat
<1>1. Opens \in SUBSET Handles /\ Walks \in SUBSET Iters
  BY DEF Opens, Walks
<1> QED
  BY <1>1, ReeFsAssumption, FS_Subset, FS_CardinalityType

\* If the directory has one user, a handle or an operation, nobody enumerates.
LEMMA OneUser ==
    ASSUME Inv
    PROVE  /\ \A h \in Handles : hnd[h] # NONE => Cardinality(Opens) >= 1
           /\ \A i \in Iters : it[i] # NONE => Cardinality(Walks) >= 1
<1>1. ASSUME NEW h \in Handles, hnd[h] # NONE PROVE Cardinality(Opens) >= 1
  <2>1. Opens # {}
    BY <1>1 DEF Opens
  <2> QED
    BY <2>1, Finite, FS_EmptySet
<1>2. ASSUME NEW i \in Iters, it[i] # NONE PROVE Cardinality(Walks) >= 1
  <2>1. Walks # {}
    BY <1>2 DEF Walks
  <2> QED
    BY <2>1, Finite, FS_EmptySet
<1> QED
  BY <1>1, <1>2

\* What opening and closing a handle does to the number of open ones.
LEMMA OpenedOne ==
    ASSUME Inv, NEW h \in Handles,
           \A g \in Handles \ {h} : (hnd'[g] = NONE) = (hnd[g] = NONE)
    PROVE  /\ hnd[h] = NONE /\ hnd'[h] # NONE => Cardinality(Opens') = Cardinality(Opens) + 1
           /\ hnd[h] # NONE /\ hnd'[h] = NONE => Cardinality(Opens') = Cardinality(Opens) - 1
           /\ (hnd'[h] = NONE) = (hnd[h] = NONE) => Opens' = Opens
<1>1. CASE hnd[h] = NONE /\ hnd'[h] # NONE
  <2>1. Opens' = Opens \cup {h} /\ h \notin Opens
    BY <1>1 DEF Opens
  <2> QED
    BY <1>1, <2>1, Finite, FS_AddElement
<1>2. CASE hnd[h] # NONE /\ hnd'[h] = NONE
  <2>1. Opens' = Opens \ {h} /\ h \in Opens
    BY <1>2 DEF Opens
  <2> QED
    BY <1>2, <2>1, Finite, FS_RemoveElement
<1>3. CASE (hnd'[h] = NONE) = (hnd[h] = NONE)
  BY <1>3 DEF Opens
<1> QED
  BY <1>1, <1>2, <1>3

\* An error closes the directory, which nobody enumerates.
LEMMA FailsEffect ==
    ASSUME Inv, "enum" \notin Modes, NEW d, NEW r, Fails(d, r)
    PROVE  /\ refs' = r - 1 /\ dirh' = NONE /\ it' = it
           /\ \A i \in Iters : it[i] = NONE
           /\ Walks' = Walks
<1>1. /\ \A i \in Iters : it[i] = NONE
      /\ refs' = r - 1 /\ dirh' = NONE
      /\ it' = [i \in Iters |-> IF it[i] = NONE THEN NONE ELSE [it[i] EXCEPT !.valid = FALSE]]
  BY DEF Fails, PutDirh
<1>2. it' = it
  BY <1>1 DEF Inv, TypeOK
<1> QED
  BY <1>1, <1>2 DEF Walks

\* Who puts the directory leaves it open, unless it was the last, when nobody
\* enumerates.
LEMMA PutDirhEffect ==
    ASSUME Inv, NEW d, NEW r \in Int, PutDirh(d, r, FALSE), r = 1 => Cardinality(Walks) = 0
    PROVE  /\ it' = it /\ refs' = r - 1
           /\ dirh' = d \/ (dirh' = NONE /\ \A i \in Iters : it[i] = NONE)
           /\ r # 1 => dirh' = d
<1>1. CASE r = 1
  <2>1. Walks = {}
    BY <1>1, Finite, FS_EmptySet
  <2>2. \A i \in Iters : it[i] = NONE
    BY <2>1 DEF Walks
  <2>3. it' = [i \in Iters |-> it[i]]
    BY <1>1, <2>2 DEF PutDirh
  <2> QED
    BY <1>1, <2>2, <2>3 DEF PutDirh, Inv, TypeOK
<1>2. CASE r # 1
  BY <1>2 DEF PutDirh
<1> QED
  BY <1>1, <1>2

\* A handle that a step leaves alone.
LEMMA FitsKeeps ==
    ASSUME NEW h \in Handles, Fits(h), hnd'[h] = hnd[h],
           Removing(h)' <=> Removing(h), Committing(h)' <=> Committing(h),
           hnd[h] # NONE /\ ~Removing(h) =>
              dir'[hnd[h].idx] = dir[hnd[h].idx] /\ file'[hnd[h].num] = file[hnd[h].num]
    PROVE  Fits(h)'
  BY DEF Fits

\* No operation is going on.
LEMMA Quiet ==
    /\ NoOp \in Operation /\ NoOp.kind = "none" /\ NoOp.pc = "none"
    /\ op = NoOp => \A h \in Handles : ~Removing(h) /\ ~Committing(h)
    /\ op' = NoOp => \A h \in Handles : ~Removing(h)' /\ ~Committing(h)'
<1>1. 0 \in Stamps
  BY ReeFsAssumption DEF Stamps
<1> QED
  BY <1>1 DEF NoOp, Operation, Removing, Committing

\* Two handles have different entries and files.
LEMMA OtherHandle ==
    ASSUME Inv, NEW g \in Handles, NEW h \in Handles, g # h,
           hnd[g] # NONE, hnd[h] # NONE, ~Removing(g), ~Removing(h)
    PROVE  hnd[g].idx # hnd[h].idx /\ hnd[g].num # hnd[h].num
<1>1. hnd[g].oid # hnd[h].oid
  BY DEF Inv, HandlesDistinct
<1> QED
  BY <1>1, HandleEntry DEF Inv, DirOK

\* A file that is not in the directory is of no handle: who removes it leaves the
\* handles as they are.
LEMMA UnlinkEffect ==
    ASSUME Inv, NEW n \in Nums, n \notin Numbers(dir), Unlink(n),
           \A h \in Handles : ~Removing(h)
    PROVE  hnd' = hnd /\ file' = [file EXCEPT ![n] = NONE]
<1>1. \A h \in Handles : ~(hnd[h] # NONE /\ hnd[h].num = n)
  BY HandleEntry
<1>2. hnd' = [h \in Handles |-> hnd[h]]
  BY <1>1 DEF Unlink
<1> QED
  BY <1>2 DEF Inv, TypeOK, Unlink

\* The initial state satisfies the invariant.
LEMMA InitInv == Init => Inv
<1> SUFFICES ASSUME Init PROVE Inv
  OBVIOUS
<1>1. TypeOK
  <2>1. 0 \in Stamps /\ dir \in Entries
    BY ReeFsAssumption DEF Stamps, Init, NoEnts, Entries
  <2> QED
    BY <2>1, Quiet DEF Init, TypeOK
<1>2. DirOK /\ DirhOK /\ HandleOK /\ HandlesDistinct
  BY Quiet DEF Init, DirOK, DirhOK, HandleOK, Fits, HandlesDistinct, NoEnts
<1>3. OpOK
  BY Quiet DEF Init, OpOK
<1>4. Opens = {} /\ Walks = {} /\ OpRef = 0
  BY Quiet DEF Init, Opens, Walks, OpRef
<1>5. Count
  BY <1>4, FS_EmptySet DEF Count, Init
<1> QED
  BY <1>1, <1>2, <1>3, <1>5 DEF Inv, Init

-----------------------------------------------------------------------------
(* Handles.                                                                *)

\* Opening an object: the handle gets the committed version.
LEMMA OpenInv ==
    ASSUME Inv, Modes \subseteq {"io"}, NEW h \in Handles, NEW oid \in Names, Open(h, oid)
    PROVE  Inv'
<1>1. /\ op = NoOp /\ op' = op /\ hnd[h] = NONE /\ ~IsOpen(oid, Handles)
      /\ dir' = dir /\ file' = file /\ clock' = clock /\ fault' = fault
  BY DEF Open, Idle, MayOpen
<1>2. GetDirh \in Dirh /\ GetDirh.ents = dir /\ Numbers(dir) \subseteq GetDirh.used
  BY GetDirhIsDir
<1>3. DirOK' /\ OpOK' /\ ~fault' /\ OpRef' = 0 /\ OpRef = 0
  BY <1>1, Quiet DEF Inv, DirOK, OpOK, OpRef
<1> DEFINE i == Min(Find(dir, oid))
           slots == {v \in Version : file[dir[i].num] # NONE /\ file[dir[i].num][v] = dir[i].hash}
           s == Min(slots)
           new == NewHandle(oid, dir[i].num, i, s, dir[i].hash)
<1>4. CASE /\ Find(dir, oid) # {} /\ slots # {}
           /\ dirh' = GetDirh /\ refs' = refs + 1 /\ it' = it
           /\ hnd' = [hnd EXCEPT ![h] = new]
  <2>1. i \in Idx /\ dir[i] # NONE /\ dir[i].oid = oid
    <3>1. Find(dir, oid) \in SUBSET Nat
      BY IdxNat DEF Find
    <3>2. i \in Find(dir, oid)
      BY <1>4, <3>1, MinIn
    <3> QED
      BY <3>2 DEF Find
  <2>2. s \in Version /\ file[dir[i].num][s] = dir[i].hash
    <3>1. slots \in SUBSET Nat
      BY DEF Version
    <3>2. s \in slots
      BY <1>4, <3>1, MinIn
    <3> QED
      BY <3>2
  <2>3. new \in Handle
    BY <2>1, <2>2, EntryFields DEF Inv, NewHandle, Handle
  <2> HIDE DEF i, s, slots
  <2>4. new # NONE
    BY <2>3, ReeFsAssumption
  <2>5. /\ new.oid = oid /\ new.idx = i /\ new.num = dir[i].num /\ new.slot = s
        /\ new.hash = dir[i].hash /\ ~new.gone /\ new.tree /\ ~new.err
    BY DEF NewHandle
  <2> HIDE DEF new
  <2>6. hnd'[h] = new /\ \A g \in Handles \ {h} : hnd'[g] = hnd[g]
    BY <1>4 DEF Inv, TypeOK
  <2>7. TypeOK'
    BY <1>1, <1>2, <1>4, <2>3 DEF Inv, TypeOK
  <2>8. DirhOK'
    BY <1>1, <1>2, <1>4, ReeFsAssumption DEF Inv, DirhOK
  <2>9. ASSUME NEW g \in Handles PROVE Fits(g)'
    <3>1. CASE g = h
      BY <3>1, <2>1, <2>2, <2>5, <2>6, <1>1, Quiet DEF Fits
    <3>2. CASE g # h
      <4>1. Fits(g)
        BY DEF Inv, HandleOK
      <4>2. (Removing(g)' <=> Removing(g)) /\ (Committing(g)' <=> Committing(g))
        BY <1>1 DEF Removing, Committing
      <4>3. hnd'[g] = hnd[g]
        BY <2>6, <3>2
      <4> QED
        BY <4>1, <4>2, <4>3, <1>1, FitsKeeps
    <3> QED
      BY <3>1, <3>2
  <2>10. HandlesDistinct'
    BY <1>1, <2>5, <2>6 DEF Inv, HandlesDistinct, IsOpen
  <2>11. Cardinality(Opens') = Cardinality(Opens) + 1 /\ Walks' = Walks
    BY <1>1, <1>4, <2>4, <2>6, OpenedOne DEF Walks
  <2>12. Count'
    BY <1>3, <1>4, <2>11, Finite DEF Inv, Count
  <2> QED
    BY <1>3, <2>7, <2>8, <2>9, <2>10, <2>12 DEF Inv, HandleOK
<1>5. CASE Fails(GetDirh, refs + 1) /\ hnd' = hnd
  <2>1. refs' = refs /\ dirh' = NONE /\ it' = it /\ (\A k \in Iters : it[k] = NONE) /\ Walks' = Walks
    BY <1>5, FailsEffect DEF Inv, TypeOK
  <2>2. TypeOK' /\ DirhOK'
    BY <1>1, <1>5, <2>1, Quiet DEF Inv, TypeOK, DirhOK
  <2>3. HandleOK' /\ HandlesDistinct'
    BY <1>1, <1>5 DEF Inv, HandleOK, HandlesDistinct, Fits, Removing, Committing
  <2>4. Count'
    BY <1>3, <1>5, <2>1 DEF Inv, Count, Opens
  <2> QED
    BY <1>3, <2>2, <2>3, <2>4 DEF Inv
<1> QED
  BY <1>2, <1>4, <1>5 DEF Open

\* Closing a handle gives its reference of the directory back.
LEMMA CloseInv ==
    ASSUME Inv, Modes \subseteq {"io"}, NEW h \in Handles, Close(h)
    PROVE  Inv'
<1>1. /\ op = NoOp /\ op' = op /\ hnd[h] # NONE
      /\ dir' = dir /\ file' = file /\ clock' = clock /\ fault' = fault
      /\ hnd' = [hnd EXCEPT ![h] = NONE] /\ PutDirh(dirh, refs, FALSE)
  BY DEF Close
<1>2. DirOK' /\ OpOK' /\ ~fault' /\ OpRef' = 0 /\ OpRef = 0
  BY <1>1, Quiet DEF Inv, DirOK, OpOK, OpRef
<1>3. hnd'[h] = NONE /\ \A g \in Handles \ {h} : hnd'[g] = hnd[g]
  BY <1>1 DEF Inv, TypeOK
<1>4. /\ refs = Cardinality(Opens) + Cardinality(Walks) /\ Cardinality(Opens) >= 1
      /\ Cardinality(Opens') = Cardinality(Opens) - 1
  BY <1>1, <1>2, <1>3, OneUser, OpenedOne, Finite DEF Inv, Count
<1>5. it' = it /\ refs' = refs - 1 /\ (dirh' = dirh \/ (dirh' = NONE /\ \A i \in Iters : it[i] = NONE))
  <2>1. refs \in Int /\ (refs = 1 => Cardinality(Walks) = 0)
    BY <1>4, Finite
  <2> QED
    BY <2>1, <1>1, PutDirhEffect
<1>6. TypeOK'
  <2>1. refs' \in Nat
    BY <1>4, <1>5, Finite
  <2> QED
    BY <2>1, <1>1, <1>5 DEF Inv, TypeOK
<1>7. DirhOK'
  BY <1>1, <1>5, Quiet DEF Inv, DirhOK
<1>8. HandleOK' /\ HandlesDistinct'
  BY <1>1, <1>3 DEF Inv, HandleOK, HandlesDistinct, Fits, Removing, Committing
<1>9. Count'
  BY <1>2, <1>4, <1>5, Finite DEF Count, Walks
<1> QED
  BY <1>2, <1>6, <1>7, <1>8, <1>9 DEF Inv

-----------------------------------------------------------------------------
(* ree_fs_create().                                                        *)

\* A new object gets a file number that no entry has.
LEMMA CreateStartInv ==
    ASSUME Inv, Modes \subseteq {"io"}, NEW h \in Handles, NEW oid \in Names, CreateStart(h, oid)
    PROVE  Inv'
<1> DEFINE n == GetTmp(GetDirh)
<1>1. /\ op = NoOp /\ hnd[h] = NONE /\ ~IsOpen(oid, Handles) /\ clock < MaxWrites
      /\ GetDirh.used # Nums
      /\ dirh' = [GetDirh EXCEPT !.used = @ \cup {n}]
      /\ file' = [file EXCEPT ![n] = [v \in Version |-> 0]]
      /\ op' = [NoOp EXCEPT !.kind = "create", !.h = h, !.pc = "sync", !.oid = oid, !.num = n]
      /\ refs' = refs + 1
      /\ dir' = dir /\ hnd' = hnd /\ it' = it /\ clock' = clock /\ fault' = fault
  BY DEF CreateStart, Idle, MayOpen
<1>2. GetDirh \in Dirh /\ GetDirh.ents = dir /\ Numbers(dir) \subseteq GetDirh.used
  BY GetDirhIsDir
<1>3. n \in Nums /\ n \notin GetDirh.used
  <2>1. Nums \ GetDirh.used \in SUBSET Nat /\ Nums \ GetDirh.used # {}
    BY <1>1, <1>2, ReeFsAssumption DEF Dirh
  <2> QED
    BY <2>1, MinIn DEF GetTmp
<1> HIDE DEF n
<1>4. /\ dirh' \in Dirh /\ dirh'.ents = dir /\ dirh'.used = GetDirh.used \cup {n}
      /\ dirh' # NONE
  BY <1>1, <1>2, <1>3, ReeFsAssumption DEF Dirh
<1>5. /\ op' \in Operation /\ op'.kind = "create" /\ op'.h = h /\ op'.pc = "sync"
      /\ op'.oid = oid /\ op'.num = n
  BY <1>1, <1>3, Quiet DEF NoOp, Operation
<1>6. [v \in Version |-> 0] \in [Version -> Stamps]
  BY ReeFsAssumption DEF Stamps
<1>7. /\ file'[n] # NONE /\ \A m \in Nums \ {n} : file'[m] = file[m]
      /\ file' \in [Nums -> [Version -> Stamps] \cup {NONE}]
  BY <1>1, <1>3, <1>6, ReeFsAssumption DEF Inv, TypeOK
<1>8. TypeOK'
  BY <1>1, <1>4, <1>5, <1>7 DEF Inv, TypeOK
<1>9. DirOK'
  <2>1. \A i \in Idx : dir[i] # NONE => dir[i].num \in Nums \ {n}
    BY <1>2, <1>3, EntryFields DEF Inv
  <2> QED
    BY <1>1, <1>7, <2>1 DEF Inv, DirOK
<1>10. DirhOK'
  BY <1>1, <1>2, <1>4 DEF Inv, DirhOK
<1>11. ASSUME NEW g \in Handles PROVE Fits(g)'
  <2>1. Fits(g) /\ hnd'[g] = hnd[g]
    BY <1>1 DEF Inv, HandleOK
  <2>2. ~Removing(g)' /\ ~Removing(g) /\ ~Committing(g)' /\ ~Committing(g)
    BY <1>1, <1>5, Quiet DEF Removing, Committing
  <2>3. hnd[g] # NONE => hnd[g].num \in Nums \ {n}
    BY <2>2, <1>2, <1>3, HandleEntry, HandleFields DEF Inv
  <2>4. hnd[g] # NONE /\ ~Removing(g) =>
            dir'[hnd[g].idx] = dir[hnd[g].idx] /\ file'[hnd[g].num] = file[hnd[g].num]
    BY <2>3, <1>1, <1>7
  <2> QED
    BY <2>1, <2>2, <2>4, FitsKeeps
<1>12. HandlesDistinct'
  BY <1>1 DEF Inv, HandlesDistinct
<1>13. OpOK'
  BY <1>1, <1>2, <1>3, <1>4, <1>5, <1>7 DEF Inv, OpOK, IsOpen
<1>14. Opens' = Opens /\ Walks' = Walks /\ OpRef = 0 /\ OpRef' = 1
  BY <1>1, <1>5, Quiet DEF Opens, Walks, OpRef
<1>15. Count'
  BY <1>1, <1>14, Finite DEF Inv, Count
<1> QED
  BY <1>1, <1>8, <1>9, <1>10, <1>11, <1>12, <1>13, <1>15 DEF Inv, HandleOK

\* The new file is written; no entry refers to it yet.
LEMMA CreateSyncInv ==
    ASSUME Inv, CreateSync
    PROVE  Inv'
<1>1. /\ op.kind = "create" /\ op.pc = "sync"
      /\ file' = [file EXCEPT ![op.num][1] = clock + 1] /\ clock' = clock + 1
      /\ op' = [op EXCEPT !.pc = "name", !.hash = clock + 1]
      /\ dir' = dir /\ dirh' = dirh /\ refs' = refs /\ hnd' = hnd /\ it' = it /\ fault' = fault
  BY DEF CreateSync
<1>2. /\ op.h \in Handles /\ hnd[op.h] = NONE /\ op.oid \in Names /\ ~IsOpen(op.oid, Handles)
      /\ op.num \in Nums \ Numbers(dir) /\ op.num \in dirh.used
      /\ file[op.num] # NONE /\ clock < MaxWrites
  BY <1>1 DEF Inv, OpOK
<1>3. clock + 1 \in Stamps /\ clock + 1 # 0
  BY <1>2, ReeFsAssumption DEF Inv, TypeOK, Stamps
<1>4. /\ op' \in Operation /\ op'.kind = "create" /\ op'.h = op.h /\ op'.pc = "name"
      /\ op'.oid = op.oid /\ op'.num = op.num /\ op'.hash = clock + 1
  BY <1>1, <1>3 DEF Inv, TypeOK, Operation
<1>5. file'[op.num] = [file[op.num] EXCEPT ![1] = clock + 1] /\ file[op.num] \in [Version -> Stamps]
  BY <1>1, <1>2 DEF Inv, TypeOK
<1>6. file'[op.num] \in [Version -> Stamps] /\ file'[op.num][1] = clock + 1 /\ file'[op.num] # NONE
  BY <1>3, <1>5, ReeFsAssumption DEF Version
<1>7. /\ file' \in [Nums -> [Version -> Stamps] \cup {NONE}]
      /\ \A m \in Nums \ {op.num} : file'[m] = file[m]
  BY <1>1, <1>5, <1>6 DEF Inv, TypeOK
<1>8. TypeOK'
  BY <1>1, <1>3, <1>4, <1>7 DEF Inv, TypeOK
<1>9. DirOK'
  <2>1. \A i \in Idx : dir[i] # NONE => dir[i].num \in Nums \ {op.num}
    BY <1>2, EntryFields DEF Inv
  <2> QED
    BY <1>1, <1>7, <2>1 DEF Inv, DirOK
<1>10. DirhOK'
  BY <1>1, <1>4 DEF Inv, DirhOK
<1>11. ASSUME NEW g \in Handles PROVE Fits(g)'
  <2>1. Fits(g) /\ hnd'[g] = hnd[g]
    BY <1>1 DEF Inv, HandleOK
  <2>2. ~Removing(g)' /\ ~Removing(g) /\ ~Committing(g)' /\ ~Committing(g)
    BY <1>1, <1>4 DEF Removing, Committing
  <2>3. hnd[g] # NONE => hnd[g].num \in Nums \ {op.num}
    BY <2>2, <1>2, HandleEntry, HandleFields DEF Inv
  <2>4. hnd[g] # NONE /\ ~Removing(g) =>
            dir'[hnd[g].idx] = dir[hnd[g].idx] /\ file'[hnd[g].num] = file[hnd[g].num]
    BY <2>3, <1>1, <1>7
  <2> QED
    BY <2>1, <2>2, <2>4, FitsKeeps
<1>12. HandlesDistinct'
  BY <1>1 DEF Inv, HandlesDistinct
<1>13. OpOK'
  BY <1>1, <1>2, <1>3, <1>4, <1>6 DEF Inv, OpOK, IsOpen
<1>14. Opens' = Opens /\ Walks' = Walks /\ OpRef' = OpRef
  BY <1>1, <1>2, <1>4 DEF Opens, Walks, OpRef
<1>15. Count'
  BY <1>1, <1>14 DEF Inv, Count
<1> QED
  BY <1>1, <1>8, <1>9, <1>10, <1>11, <1>12, <1>13, <1>15 DEF Inv, HandleOK

\* The temporary file is removed and the directory closed.
LEMMA CreateErrorInv ==
    ASSUME Inv, Modes \subseteq {"io"}, op.kind = "create", op.pc \in {"sync", "name"},
           NEW d, CreateError(d), clock' = clock, fault' = fault
    PROVE  Inv'
<1>1. /\ op.h \in Handles /\ hnd[op.h] = NONE
      /\ op.num \in Nums \ Numbers(dir)
  BY DEF Inv, OpOK
<1>2. \A h \in Handles : ~Removing(h) /\ ~Committing(h)
  BY DEF Removing, Committing
<1>3. op' = NoOp /\ dir' = dir /\ Fails(d, refs) /\ Unlink(op.num)
  BY DEF CreateError
<1>4. hnd' = hnd /\ file' = [file EXCEPT ![op.num] = NONE]
  BY <1>1, <1>2, <1>3, UnlinkEffect
<1>5. refs' = refs - 1 /\ dirh' = NONE /\ it' = it /\ (\A i \in Iters : it[i] = NONE) /\ Walks' = Walks
  BY <1>3, FailsEffect
<1>6. Opens' = Opens /\ OpRef = 1 /\ OpRef' = 0
  BY <1>1, <1>3, <1>4, Quiet DEF Opens, OpRef
<1>7. Count' /\ refs' \in Nat
  BY <1>5, <1>6, Finite DEF Inv, Count
<1>8. TypeOK'
  BY <1>1, <1>3, <1>4, <1>5, <1>7, Quiet DEF Inv, TypeOK
<1>9. \A m \in Numbers(dir) : file'[m] = file[m]
  <2>1. Numbers(dir) \subseteq Nums
    BY EntryFields DEF Inv, Numbers
  <2> QED
    BY <2>1, <1>1, <1>4 DEF Inv, TypeOK
<1>10. DirOK'
  <2>1. \A i \in Idx : dir[i] # NONE => dir[i].num \in Numbers(dir)
    BY EntryFields DEF Inv
  <2> QED
    BY <2>1, <1>3, <1>9 DEF Inv, DirOK
<1>11. DirhOK' /\ OpOK' /\ HandlesDistinct'
  BY <1>3, <1>4, <1>5, Quiet DEF Inv, DirhOK, OpOK, HandlesDistinct
<1>12. ASSUME NEW g \in Handles PROVE Fits(g)'
  <2>1. Fits(g) /\ hnd'[g] = hnd[g]
    BY <1>4 DEF Inv, HandleOK
  <2>2. ~Removing(g)' /\ ~Removing(g) /\ ~Committing(g)' /\ ~Committing(g)
    BY <1>2, <1>3, Quiet
  <2>3. hnd[g] # NONE => hnd[g].num \in Numbers(dir)
    BY <2>2, HandleEntry
  <2>4. hnd[g] # NONE /\ ~Removing(g) =>
            dir'[hnd[g].idx] = dir[hnd[g].idx] /\ file'[hnd[g].num] = file[hnd[g].num]
    BY <2>3, <1>3, <1>9
  <2> QED
    BY <2>1, <2>2, <2>4, FitsKeeps
<1> QED
  BY <1>7, <1>8, <1>10, <1>11, <1>12 DEF Inv, HandleOK

\* The directory has an entry for each name: one is free for a new one.
LEMMA RoomForName ==
    ASSUME Inv, NEW oid \in Names, Find(dir, oid) = {}
    PROVE  \E i \in Idx : dir[i] = NONE
<1> SUFFICES ASSUME \A i \in Idx : dir[i] # NONE
             PROVE  FALSE
  OBVIOUS
<1> DEFINE f == [i \in Idx |-> dir[i].oid]
<1>1. f \in [Idx -> Names \ {oid}]
  BY EntryFields DEF Inv, Find
<1>2. IsFiniteSet(Idx) /\ Cardinality(Idx) = Cardinality(Names)
  BY IdxNat, FS_Interval DEF Idx
<1>3. IsFiniteSet(Names \ {oid}) /\ Cardinality(Names \ {oid}) = Cardinality(Names) - 1
  BY ReeFsAssumption, FS_RemoveElement
<1>4. Cardinality(Names \ {oid}) < Cardinality(Idx)
  BY <1>2, <1>3, IdxNat
<1> HIDE DEF f
<1>5. \E i, j \in Idx : i # j /\ f[i] = f[j]
  BY <1>1, <1>2, <1>3, <1>4, FS_PigeonHole
<1> QED
  BY <1>5 DEF f, Inv, DirOK

\* The entry that a new file gets.
LEMMA NamedEntry ==
    ASSUME Inv, op.kind = "create", op.pc = "name"
    PROVE  /\ dirh # NONE /\ dirh \in Dirh /\ dirh.ents = dir
           /\ NamedIdx \in Idx
           /\ dir[NamedIdx] # NONE => dir[NamedIdx].oid = op.oid
           /\ \A i \in Idx \ {NamedIdx} : dir[i] # NONE => dir[i].oid # op.oid
           /\ Named.ents = [dir EXCEPT ![NamedIdx] = [oid |-> op.oid, num |-> op.num, hash |-> op.hash]]
           /\ Named \in Dirh /\ Named.used = dirh.used
           /\ Find(dir, op.oid) = {} => dir[NamedIdx] = NONE
<1>1. dirh # NONE /\ dirh \in Dirh /\ dirh.ents = dir
  BY DEF Inv, TypeOK, DirhOK
<1>2. op.oid \in Names /\ op.num \in Nums /\ op.hash \in Stamps \ {0}
  BY DEF Inv, TypeOK, OpOK, Operation
<1>3. /\ NamedIdx \in Idx
      /\ dir[NamedIdx] # NONE => dir[NamedIdx].oid = op.oid
      /\ \A i \in Idx \ {NamedIdx} : dir[i] # NONE => dir[i].oid # op.oid
      /\ Find(dir, op.oid) = {} => dir[NamedIdx] = NONE
  <2>1. CASE Find(dir, op.oid) = {}
    <3> DEFINE free == {i \in Idx : dir[i] = NONE}
    <3>1. free \in SUBSET Nat /\ free # {}
      BY <1>2, <2>1, RoomForName, IdxNat
    <3>2. Min(free) \in free
      BY <3>1, MinIn
    <3>3. NamedIdx = Min(free)
      <4>1. FirstFree(dir) = Min(free)
        BY DEF FirstFree
      <4>2. Min({Min(free)}) = Min(free)
        BY <3>1, <3>2, MinOne
      <4> QED
        BY <1>1, <2>1, <4>1, <4>2 DEF NamedIdx
    <3> QED
      BY <2>1, <3>2, <3>3 DEF Find
  <2>2. CASE Find(dir, op.oid) # {}
    <3>1. Find(dir, op.oid) \in SUBSET Nat
      BY IdxNat DEF Find
    <3>2. NamedIdx = Min(Find(dir, op.oid))
      BY <1>1, <2>2 DEF NamedIdx
    <3>3. NamedIdx \in Find(dir, op.oid)
      BY <2>2, <3>1, <3>2, MinIn
    <3> QED
      BY <2>2, <3>3 DEF Find, Inv, DirOK
  <2> QED
    BY <2>1, <2>2
<1>4. [oid |-> op.oid, num |-> op.num, hash |-> op.hash] \in Entry
  BY <1>2 DEF Entry
<1>5. /\ Named.ents = [dir EXCEPT ![NamedIdx] = [oid |-> op.oid, num |-> op.num, hash |-> op.hash]]
      /\ Named \in Dirh /\ Named.used = dirh.used
  BY <1>1, <1>3, <1>4 DEF Named, Dirh, Entries
<1> QED
  BY <1>1, <1>3, <1>5

\* The directory is committed with the entry of the new object.
LEMMA CommitNameInv ==
    ASSUME Inv, op.kind = "create", op.pc = "name", CommitName,
           UNCHANGED <<refs, it, clock, fault>>
    PROVE  Inv'
<1> DEFINE k == NamedIdx
           e == [oid |-> op.oid, num |-> op.num, hash |-> op.hash]
           new == NewHandle(op.oid, op.num, k, 1, op.hash)
<1>1. /\ op.h \in Handles /\ hnd[op.h] = NONE /\ op.oid \in Names /\ ~IsOpen(op.oid, Handles)
      /\ op.num \in Nums \ Numbers(dir) /\ op.num \in dirh.used
      /\ file[op.num] # NONE /\ op.hash \in Stamps \ {0} /\ file[op.num][1] = op.hash
  BY DEF Inv, TypeOK, OpOK, Operation
<1>2. /\ dirh # NONE /\ dirh \in Dirh /\ dirh.ents = dir /\ k \in Idx
      /\ dir[k] # NONE => dir[k].oid = op.oid
      /\ \A i \in Idx \ {k} : dir[i] # NONE => dir[i].oid # op.oid
      /\ Named.ents = [dir EXCEPT ![k] = e]
      /\ Named \in Dirh /\ Named.used = dirh.used
  BY NamedEntry
<1>3. e \in Entry /\ new \in Handle
  BY <1>1, <1>2 DEF Entry, Handle, NewHandle, Version
<1>4. /\ new.oid = op.oid /\ new.idx = k /\ new.num = op.num /\ new.slot = 1
      /\ new.hash = op.hash /\ ~new.gone /\ new.tree /\ ~new.err
      /\ e.oid = op.oid /\ e.num = op.num /\ e.hash = op.hash
      /\ e # NONE /\ new # NONE
  BY <1>3, ReeFsAssumption DEF NewHandle
<1>5. /\ dir' = [dir EXCEPT ![k] = e] /\ dirh' = Named /\ file' = file
      /\ hnd' = [hnd EXCEPT ![op.h] = new]
      /\ refs' = refs /\ it' = it /\ clock' = clock /\ fault' = fault
      /\ \/ dir[k] = NONE /\ op' = NoOp
         \/ dir[k] # NONE /\ op' = [op EXCEPT !.pc = "unlink", !.old = dir[k].num]
  BY <1>2 DEF CommitName
<1> HIDE DEF k, e, new
<1>6. dir'[k] = e /\ \A i \in Idx \ {k} : dir'[i] = dir[i]
  BY <1>2, <1>5 DEF Inv, TypeOK, Entries
<1>7. hnd'[op.h] = new /\ \A g \in Handles \ {op.h} : hnd'[g] = hnd[g]
  BY <1>1, <1>5 DEF Inv, TypeOK
<1>8. /\ op' \in Operation
      /\ \/ op' = NoOp
         \/ op'.kind = "create" /\ op'.pc = "unlink" /\ op'.h = op.h /\ op'.old = dir[k].num /\ dir[k] # NONE
  <2>1. CASE dir[k] = NONE
    BY <2>1, <1>5, Quiet
  <2>2. CASE dir[k] # NONE
    BY <2>2, <1>2, <1>5, EntryFields DEF Inv, TypeOK, Operation
  <2> QED
    BY <2>1, <2>2
<1>9. TypeOK'
  <2>1. dir' \in Entries
    BY <1>3, <1>5 DEF Inv, TypeOK, Entries
  <2>2. hnd' \in [Handles -> Handle \cup {NONE}]
    BY <1>3, <1>5 DEF Inv, TypeOK
  <2> QED
    BY <2>1, <2>2, <1>2, <1>5, <1>8 DEF Inv, TypeOK
<1>10. \A i \in Idx : dir[i] # NONE => dir[i].num # op.num
  BY <1>1, EntryFields DEF Inv
<1>11. DirOK'
  <2>1. \A i, j \in Idx :
          /\ dir'[i] # NONE /\ dir'[j] # NONE
          /\ dir'[i].oid = dir'[j].oid \/ dir'[i].num = dir'[j].num
          => i = j
    BY <1>2, <1>4, <1>6, <1>10 DEF Inv, DirOK
  <2>2. \A i \in Idx : dir'[i] # NONE =>
          file[dir'[i].num] # NONE /\ \E v \in Version : file[dir'[i].num][v] = dir'[i].hash
    <3>1. 1 \in Version
      BY DEF Version
    <3> QED
      BY <3>1, <1>1, <1>4, <1>6 DEF Inv, DirOK
  <2> QED
    BY <2>1, <2>2, <1>5 DEF DirOK
<1>12. Numbers(dir') \subseteq dirh.used
  <2>1. ASSUME NEW i \in Idx, dir'[i] # NONE PROVE dir'[i].num \in dirh.used
    BY <2>1, <1>1, <1>2, <1>4, <1>6, EntryFields DEF Inv, DirhOK
  <2> QED
    BY <2>1 DEF Numbers
<1>13. dir[k] # NONE => dir[k].num \in Nums \ Numbers(dir')
  <2>1. ASSUME dir[k] # NONE, NEW i \in Idx, dir'[i] # NONE PROVE dir'[i].num # dir[k].num
    BY <2>1, <1>2, <1>4, <1>6, <1>10 DEF Inv, DirOK
  <2>2. dir[k] # NONE => dir[k].num \in Nums
    BY <1>2, EntryFields DEF Inv
  <2> QED
    BY <2>1, <2>2 DEF Numbers
<1>14. DirhOK'
  <2>1. dirh' # NONE /\ dirh'.ents = dir' /\ Numbers(dir') \subseteq dirh'.used
    BY <1>2, <1>5, <1>12, ReeFsAssumption
  <2> QED
    BY <2>1, <1>5 DEF Inv, DirhOK
<1>15. ASSUME NEW g \in Handles PROVE ~Removing(g) /\ ~Removing(g)' /\ ~Committing(g) /\ ~Committing(g)'
  BY <1>8, Quiet DEF Removing, Committing
<1>16. ASSUME NEW g \in Handles PROVE Fits(g)'
  <2>1. CASE g = op.h
    BY <2>1, <1>1, <1>4, <1>5, <1>6, <1>7, <1>15 DEF Fits
  <2>2. CASE g # op.h
    <3>1. Fits(g) /\ hnd'[g] = hnd[g]
      BY <2>2, <1>7 DEF Inv, HandleOK
    <3>2. ASSUME hnd[g] # NONE PROVE hnd[g].idx \in Idx \ {k}
      <4>1. hnd[g].idx \in Idx /\ dir[hnd[g].idx] # NONE /\ dir[hnd[g].idx].oid = hnd[g].oid
        BY <3>2, <1>15, HandleEntry
      <4>2. hnd[g].oid # op.oid
        BY <3>2, <1>1 DEF IsOpen
      <4> QED
        BY <4>1, <4>2, <1>2
    <3>3. hnd[g] # NONE /\ ~Removing(g) =>
            dir'[hnd[g].idx] = dir[hnd[g].idx] /\ file'[hnd[g].num] = file[hnd[g].num]
      BY <3>2, <1>5, <1>6
    <3> QED
      BY <3>1, <3>3, <1>15, FitsKeeps
  <2> QED
    BY <2>1, <2>2
<1>17. HandlesDistinct'
  BY <1>1, <1>4, <1>7 DEF Inv, HandlesDistinct, IsOpen
<1>18. OpOK'
  <2>1. CASE op' = NoOp
    BY <2>1, Quiet DEF OpOK
  <2>2. CASE op'.kind = "create" /\ op'.pc = "unlink" /\ op'.h = op.h /\ op'.old = dir[k].num /\ dir[k] # NONE
    BY <2>2, <1>1, <1>4, <1>7, <1>13 DEF OpOK
  <2> QED
    BY <2>1, <2>2, <1>8
<1>19. Cardinality(Opens') = Cardinality(Opens) + 1 /\ Walks' = Walks /\ OpRef = 1 /\ OpRef' = 0
  <2>1. Cardinality(Opens') = Cardinality(Opens) + 1
    BY <1>1, <1>4, <1>7, OpenedOne
  <2>2. OpRef = 1 /\ Walks' = Walks
    BY <1>1, <1>5 DEF OpRef, Walks
  <2>3. OpRef' = 0
    BY <1>4, <1>7, <1>8, Quiet DEF OpRef
  <2> QED
    BY <2>1, <2>2, <2>3
<1>20. Count'
  BY <1>5, <1>19, Finite DEF Inv, Count
<1> QED
  BY <1>5, <1>9, <1>11, <1>14, <1>16, <1>17, <1>18, <1>20 DEF Inv, HandleOK

\* Naming the new object fails or commits.
LEMMA SetNameInv ==
    ASSUME Inv, Modes \subseteq {"io"}, NEW overwrite \in BOOLEAN, SetName(overwrite)
    PROVE  Inv'
  BY CreateErrorInv, CommitNameInv DEF SetName

\* The file of the object that was overwritten is removed.
LEMMA CreateUnlinkInv ==
    ASSUME Inv, CreateUnlink
    PROVE  Inv'
<1>1. /\ op.kind = "create" /\ op.pc = "unlink" /\ Unlink(op.old) /\ op' = NoOp
      /\ dir' = dir /\ dirh' = dirh /\ refs' = refs /\ it' = it /\ clock' = clock /\ fault' = fault
  BY DEF CreateUnlink
<1>2. op.h \in Handles /\ hnd[op.h] # NONE /\ op.old \in Nums \ Numbers(dir)
  BY <1>1 DEF Inv, OpOK
<1>3. \A g \in Handles : ~Removing(g) /\ ~Removing(g)' /\ ~Committing(g) /\ ~Committing(g)'
  BY <1>1, Quiet DEF Removing, Committing
<1>4. hnd' = hnd /\ file' = [file EXCEPT ![op.old] = NONE]
  BY <1>1, <1>2, <1>3, UnlinkEffect
<1>5. \A m \in Numbers(dir) : file'[m] = file[m]
  <2>1. Numbers(dir) \subseteq Nums
    BY EntryFields DEF Inv, Numbers
  <2> QED
    BY <2>1, <1>2, <1>4 DEF Inv, TypeOK
<1>6. TypeOK'
  BY <1>1, <1>4, Quiet DEF Inv, TypeOK
<1>7. DirOK'
  <2>1. \A i \in Idx : dir[i] # NONE => dir[i].num \in Numbers(dir)
    BY EntryFields DEF Inv
  <2> QED
    BY <2>1, <1>1, <1>5 DEF Inv, DirOK
<1>8. DirhOK' /\ OpOK' /\ HandlesDistinct'
  BY <1>1, <1>4, Quiet DEF Inv, DirhOK, OpOK, HandlesDistinct
<1>9. ASSUME NEW g \in Handles PROVE Fits(g)'
  <2>1. Fits(g) /\ hnd'[g] = hnd[g]
    BY <1>4 DEF Inv, HandleOK
  <2>2. hnd[g] # NONE => hnd[g].num \in Numbers(dir)
    BY <1>3, HandleEntry
  <2>3. hnd[g] # NONE /\ ~Removing(g) =>
            dir'[hnd[g].idx] = dir[hnd[g].idx] /\ file'[hnd[g].num] = file[hnd[g].num]
    BY <2>2, <1>1, <1>5
  <2> QED
    BY <2>1, <2>3, <1>3, FitsKeeps
<1>10. Opens' = Opens /\ Walks' = Walks /\ OpRef' = OpRef
  BY <1>1, <1>2, <1>4, Quiet DEF Opens, Walks, OpRef
<1>11. Count'
  BY <1>1, <1>10 DEF Inv, Count
<1> QED
  BY <1>1, <1>6, <1>7, <1>8, <1>9, <1>11 DEF Inv, HandleOK

\* A creation that fails removes its file and closes the directory.
LEMMA CreateFailsInv ==
    ASSUME Inv, Modes \subseteq {"io"}, CreateFails
    PROVE  Inv'
<1>1. op.kind = "create" /\ clock' = clock /\ fault' = fault
  BY DEF CreateFails
<1>2. CASE op.pc # "unlink"
  <2>1. op.pc \in {"sync", "name"}
    BY <1>1, <1>2 DEF Inv, OpOK
  <2> QED
    BY <1>1, <1>2, <2>1, CreateErrorInv DEF CreateFails
<1>3. CASE op.pc = "unlink"
  <2>1. /\ op' = NoOp /\ dir' = dir /\ file' = file /\ dirh' = dirh /\ refs' = refs /\ hnd' = hnd
        /\ it' = it
    BY <1>3 DEF CreateFails
  <2>2. op.h \in Handles /\ hnd[op.h] # NONE
    BY <1>1, <1>3 DEF Inv, OpOK
  <2>3. TypeOK' /\ DirOK' /\ DirhOK' /\ OpOK' /\ HandlesDistinct'
    BY <1>1, <2>1, Quiet DEF Inv, TypeOK, DirOK, DirhOK, OpOK, HandlesDistinct
  <2>4. \A g \in Handles : ~Removing(g) /\ ~Removing(g)' /\ ~Committing(g) /\ ~Committing(g)'
    BY <1>1, <1>3, <2>1, Quiet DEF Removing, Committing
  <2>5. HandleOK'
    BY <2>1, <2>4, FitsKeeps DEF Inv, HandleOK
  <2>6. Opens' = Opens /\ Walks' = Walks /\ OpRef' = OpRef
    BY <1>1, <2>1, <2>2, Quiet DEF Opens, Walks, OpRef
  <2>7. Count'
    BY <2>1, <2>6 DEF Inv, Count
  <2> QED
    BY <1>1, <2>3, <2>5, <2>7 DEF Inv
<1> QED
  BY <1>2, <1>3

-----------------------------------------------------------------------------
(* ree_fs_write() and ree_fs_truncate().                                   *)

\* A write changes one version of the file of its handle and nothing of the others.
LEMMA PutVersionEffect ==
    ASSUME Inv, NEW h \in Handles, hnd[h] # NONE, ~Removing(h), NEW s \in Version,
           NEW c \in Stamps, PutVersion(h, s, c)
    PROVE  /\ file' \in [Nums -> [Version -> Stamps] \cup {NONE}]
           /\ file[hnd[h].num] # NONE /\ file'[hnd[h].num] # NONE
           /\ file'[hnd[h].num][s] = c
           /\ \A v \in Version \ {s} : file'[hnd[h].num][v] = file[hnd[h].num][v]
           /\ \A m \in Nums \ {hnd[h].num} : file'[m] = file[m]
<1> DEFINE n == hnd[h].num
<1>1. n \in Nums /\ ~hnd[h].gone /\ file[n] # NONE
  BY HandleFields, HandleEntry DEF Inv, HandleOK, Fits, DirOK
<1>2. file' = [file EXCEPT ![n][s] = c]
  BY <1>1 DEF PutVersion
<1> HIDE DEF n
<1>3. file[n] \in [Version -> Stamps] /\ file'[n] = [file[n] EXCEPT ![s] = c]
  BY <1>1, <1>2 DEF Inv, TypeOK
<1>4. file'[n] \in [Version -> Stamps] /\ file'[n] # NONE /\ file'[n][s] = c
      /\ \A v \in Version \ {s} : file'[n][v] = file[n][v]
  BY <1>3, ReeFsAssumption
<1>5. /\ file' \in [Nums -> [Version -> Stamps] \cup {NONE}]
      /\ \A m \in Nums \ {n} : file'[m] = file[m]
  BY <1>1, <1>2, <1>3, <1>4 DEF Inv, TypeOK
<1> QED
  BY <1>1, <1>4, <1>5 DEF n

\* A write begins with the tree of the handle.
LEMMA WriteStartInv ==
    ASSUME Inv, Modes \subseteq {"io"}, NEW h \in Handles, WriteStart(h)
    PROVE  Inv'
<1> DEFINE H == hnd[h]
<1>1. op = NoOp /\ H # NONE /\ ~H.err /\ clock < MaxWrites
  BY DEF WriteStart, Usable
<1>2. \A g \in Handles : ~Removing(g) /\ ~Committing(g)
  BY <1>1, Quiet
<1>3. /\ ~H.gone /\ dir[H.idx] # NONE /\ dir[H.idx].num = H.num /\ H.tree
      /\ file[H.num][H.slot] = H.hash /\ dir[H.idx].hash = H.hash
  BY <1>1, <1>2 DEF Inv, HandleOK, Fits
<1>4. /\ dirh' = GetDirh /\ refs' = refs + 1
      /\ op' = [NoOp EXCEPT !.kind = "write", !.h = h, !.pc = "sync"]
      /\ PutVersion(h, 1 - H.slot, 0) /\ fault' = fault
      /\ dir' = dir /\ hnd' = hnd /\ it' = it /\ clock' = clock
  BY <1>3 DEF WriteStart
<1>5. /\ H.num \in Nums /\ H.idx \in Idx /\ H.slot \in Version /\ 1 - H.slot \in Version
      /\ H.slot # 1 - H.slot
  BY <1>1, HandleFields DEF Inv
<1>6. /\ file' \in [Nums -> [Version -> Stamps] \cup {NONE}]
      /\ file'[H.num] # NONE /\ file'[H.num][H.slot] = file[H.num][H.slot]
      /\ \A m \in Nums \ {H.num} : file'[m] = file[m]
  <2>1. 0 \in Stamps
    BY ReeFsAssumption DEF Stamps
  <2> QED
    BY <2>1, <1>1, <1>2, <1>4, <1>5, PutVersionEffect
<1>7. GetDirh \in Dirh /\ GetDirh.ents = dir /\ Numbers(dir) \subseteq GetDirh.used /\ GetDirh # NONE
  BY GetDirhIsDir, ReeFsAssumption
<1>8. op' \in Operation /\ op'.kind = "write" /\ op'.h = h /\ op'.pc = "sync"
  BY <1>4, Quiet DEF NoOp, Operation
<1> HIDE DEF H
<1>9. TypeOK'
  BY <1>4, <1>6, <1>7, <1>8 DEF Inv, TypeOK
<1>10. DirOK'
  <2>1. ASSUME NEW i \in Idx, dir[i] # NONE
        PROVE  file'[dir[i].num] # NONE /\ \E v \in Version : file'[dir[i].num][v] = dir[i].hash
    <3>1. CASE dir[i].num = H.num
      <4>1. i = H.idx
        BY <2>1, <3>1, <1>3, <1>5 DEF Inv, DirOK
      <4> QED
        BY <4>1, <1>3, <1>5, <1>6
    <3>2. CASE dir[i].num # H.num
      BY <2>1, <3>2, <1>6, EntryFields DEF Inv, DirOK
    <3> QED
      BY <3>1, <3>2
  <2> QED
    BY <2>1, <1>4 DEF Inv, DirOK
<1>11. DirhOK'
  BY <1>4, <1>7 DEF Inv, DirhOK
<1>12. \A g \in Handles : ~Removing(g)' /\ ~Committing(g)'
  BY <1>8 DEF Removing, Committing
<1>13. ASSUME NEW g \in Handles PROVE Fits(g)'
  <2>1. CASE g = h
    BY <2>1, <1>2, <1>3, <1>4, <1>6, <1>12 DEF H, Fits, Inv, HandleOK
  <2>2. CASE g # h
    <3>1. Fits(g) /\ hnd'[g] = hnd[g]
      BY <1>4 DEF Inv, HandleOK
    <3>2. hnd[g] # NONE => hnd[g].num \in Nums \ {H.num}
      BY <2>2, <1>1, <1>2, OtherHandle, HandleFields DEF H, Inv
    <3>3. hnd[g] # NONE /\ ~Removing(g) =>
            dir'[hnd[g].idx] = dir[hnd[g].idx] /\ file'[hnd[g].num] = file[hnd[g].num]
      BY <3>2, <1>4, <1>6
    <3> QED
      BY <3>1, <3>3, <1>2, <1>12, FitsKeeps
  <2> QED
    BY <2>1, <2>2
<1>14. HandlesDistinct'
  BY <1>4 DEF Inv, HandlesDistinct
<1>15. OpOK'
  BY <1>1, <1>4, <1>8 DEF OpOK, H
<1>16. Opens' = Opens /\ Walks' = Walks /\ OpRef = 0 /\ OpRef' = 1
  BY <1>1, <1>4, <1>8, Quiet DEF Opens, Walks, OpRef
<1>17. Count'
  BY <1>4, <1>16, Finite DEF Inv, Count
<1> QED
  BY <1>4, <1>9, <1>10, <1>11, <1>13, <1>14, <1>15, <1>17 DEF Inv, HandleOK

\* A write goes to the version that the directory does not refer to.
LEMMA WriteSyncInv ==
    ASSUME Inv, WriteSync
    PROVE  Inv'
<1> DEFINE h == op.h
           H == hnd[op.h]
           new == [H EXCEPT !.slot = 1 - @, !.hash = clock + 1]
<1>1. /\ op.kind = "write" /\ op.pc = "sync" /\ PutVersion(op.h, 1 - H.slot, clock + 1)
      /\ hnd' = [hnd EXCEPT ![op.h].slot = 1 - @, ![op.h].hash = clock + 1]
      /\ clock' = clock + 1 /\ op' = [op EXCEPT !.pc = "hash"]
      /\ dir' = dir /\ dirh' = dirh /\ refs' = refs /\ it' = it /\ fault' = fault
  BY DEF WriteSync
<1>2. h \in Handles /\ H # NONE /\ ~H.err /\ clock < MaxWrites
  BY <1>1 DEF Inv, OpOK
<1>3. clock + 1 \in Stamps \ {0}
  BY <1>2, ReeFsAssumption DEF Inv, TypeOK, Stamps
<1>4. \A g \in Handles : ~Removing(g) /\ ~Committing(g)
  BY <1>1 DEF Removing, Committing
<1>5. /\ ~H.gone /\ dir[H.idx] # NONE /\ dir[H.idx].num = H.num /\ dir[H.idx].oid = H.oid /\ H.tree
      /\ file[H.num][H.slot] = H.hash /\ dir[H.idx].hash = H.hash
  BY <1>2, <1>4 DEF Inv, HandleOK, Fits
<1>6. /\ H \in Handle /\ H.num \in Nums /\ H.idx \in Idx /\ H.slot \in Version
      /\ 1 - H.slot \in Version /\ H.slot # 1 - H.slot /\ 1 - (1 - H.slot) = H.slot
  <2>1. H \in Handle /\ H.num \in Nums /\ H.idx \in Idx /\ H.slot \in Version
        /\ 1 - H.slot \in Version /\ H.slot # 1 - H.slot
    BY <1>2, HandleFields DEF Inv
  <2>2. 1 - (1 - H.slot) = H.slot
    BY <2>1 DEF Version
  <2> QED
    BY <2>1, <2>2
<1>7. /\ file' \in [Nums -> [Version -> Stamps] \cup {NONE}]
      /\ file'[H.num] # NONE /\ file'[H.num][H.slot] = file[H.num][H.slot]
      /\ file'[H.num][1 - H.slot] = clock + 1
      /\ \A m \in Nums \ {H.num} : file'[m] = file[m]
  BY <1>1, <1>2, <1>3, <1>4, <1>6, PutVersionEffect
<1>8. /\ new \in Handle /\ new.oid = H.oid /\ new.num = H.num /\ new.idx = H.idx /\ new.slot = 1 - H.slot
      /\ new.hash = clock + 1 /\ new.gone = H.gone /\ new.tree = H.tree /\ new.err = H.err
  BY <1>3, <1>6 DEF Handle
<1>9. hnd' = [hnd EXCEPT ![op.h] = new]
  BY <1>1, <1>2, <1>6 DEF Inv, TypeOK, Handle
<1>10. new # NONE
  BY <1>8, ReeFsAssumption
<1> HIDE DEF h, H, new
<1>11. hnd'[h] = new /\ \A g \in Handles \ {h} : hnd'[g] = hnd[g]
  BY <1>2, <1>9 DEF h, Inv, TypeOK
<1>12. op' \in Operation /\ op'.kind = "write" /\ op'.h = h /\ op'.pc = "hash"
  BY <1>1 DEF h, Inv, TypeOK, Operation
<1>13. TypeOK'
  <2>1. hnd' \in [Handles -> Handle \cup {NONE}]
    BY <1>8, <1>9 DEF Inv, TypeOK
  <2> QED
    BY <2>1, <1>1, <1>3, <1>7, <1>12 DEF Inv, TypeOK
<1>14. DirOK'
  <2>1. ASSUME NEW i \in Idx, dir[i] # NONE
        PROVE  file'[dir[i].num] # NONE /\ \E v \in Version : file'[dir[i].num][v] = dir[i].hash
    <3>1. CASE dir[i].num = H.num
      <4>1. i = H.idx
        BY <2>1, <3>1, <1>5, <1>6 DEF Inv, DirOK
      <4> QED
        BY <4>1, <1>5, <1>6, <1>7
    <3>2. CASE dir[i].num # H.num
      BY <2>1, <3>2, <1>7, EntryFields DEF Inv, DirOK
    <3> QED
      BY <3>1, <3>2
  <2> QED
    BY <2>1, <1>1 DEF Inv, DirOK
<1>15. DirhOK'
  BY <1>1, <1>12 DEF Inv, DirhOK
<1>16. \A g \in Handles : ~Removing(g)' /\ (Committing(g)' <=> g = h)
  BY <1>12 DEF Removing, Committing
<1>17. ASSUME NEW g \in Handles PROVE Fits(g)'
  <2>1. CASE g = h
    <3>1. file'[new.num][new.slot] = new.hash /\ file'[new.num][1 - new.slot] = dir'[new.idx].hash
      BY <1>1, <1>5, <1>6, <1>7, <1>8
    <3>2. ~new.gone /\ dir'[new.idx] # NONE /\ dir'[new.idx].oid = new.oid /\ dir'[new.idx].num = new.num /\ new.tree
      BY <1>1, <1>5, <1>8
    <3> QED
      BY <2>1, <3>1, <3>2, <1>11, <1>16 DEF Fits
  <2>2. CASE g # h
    <3>1. Fits(g) /\ hnd'[g] = hnd[g]
      BY <2>2, <1>11 DEF Inv, HandleOK
    <3>2. hnd[g] # NONE => hnd[g].num \in Nums \ {H.num}
      BY <2>2, <1>2, <1>4, OtherHandle, HandleFields DEF H, h, Inv
    <3>3. hnd[g] # NONE /\ ~Removing(g) =>
            dir'[hnd[g].idx] = dir[hnd[g].idx] /\ file'[hnd[g].num] = file[hnd[g].num]
      BY <3>2, <1>1, <1>7
    <3> QED
      BY <2>2, <3>1, <3>3, <1>4, <1>16, FitsKeeps
  <2> QED
    BY <2>1, <2>2
<1>18. HandlesDistinct'
  BY <1>2, <1>8, <1>11 DEF H, h, Inv, HandlesDistinct
<1>19. OpOK'
  BY <1>2, <1>8, <1>10, <1>11, <1>12 DEF OpOK
<1>20. Opens' = Opens
  BY <1>2, <1>10, <1>11, OpenedOne DEF H, h
<1>21. Walks' = Walks /\ OpRef' = OpRef
  BY <1>1, <1>12 DEF Walks, OpRef
<1>22. Count'
  BY <1>1, <1>20, <1>21 DEF Inv, Count
<1> QED
  BY <1>1, <1>13, <1>14, <1>15, <1>17, <1>18, <1>19, <1>22 DEF Inv, HandleOK

\* The entry with the hash of the version that was written.
LEMMA HashedEntry ==
    ASSUME Inv, op.kind = "write", op.pc = "hash"
    PROVE  /\ op.h \in Handles /\ hnd[op.h] # NONE /\ hnd[op.h] \in Handle
           /\ dirh # NONE /\ dirh \in Dirh /\ dirh.ents = dir
           /\ hnd[op.h].idx \in Idx /\ dir[hnd[op.h].idx] # NONE
           /\ dir[hnd[op.h].idx].oid = hnd[op.h].oid /\ dir[hnd[op.h].idx].num = hnd[op.h].num
           /\ hnd[op.h].num \in dirh.used
           /\ Hashed(hnd[op.h]) \in Dirh /\ Hashed(hnd[op.h]).used = dirh.used
           /\ Hashed(hnd[op.h]).ents = [dir EXCEPT ![hnd[op.h].idx] =
                 [oid |-> hnd[op.h].oid, num |-> hnd[op.h].num, hash |-> hnd[op.h].hash]]
<1> DEFINE H == hnd[op.h]
           e == [oid |-> H.oid, num |-> H.num, hash |-> H.hash]
<1>1. op.h \in Handles /\ H # NONE /\ ~Removing(op.h)
  BY DEF Inv, OpOK, Removing
<1>2. dirh # NONE /\ dirh \in Dirh /\ dirh.ents = dir /\ Numbers(dir) \subseteq dirh.used
  BY DEF Inv, TypeOK, DirhOK
<1>3. H \in Handle /\ H.oid \in Names /\ H.num \in Nums /\ H.idx \in Idx /\ H.hash \in Stamps \ {0}
  BY <1>1, HandleFields DEF Inv
<1>4. dir[H.idx] # NONE /\ dir[H.idx].oid = H.oid /\ dir[H.idx].num = H.num /\ H.num \in Numbers(dir)
  BY <1>1, HandleEntry
<1>5. e \in Entry /\ dir[H.idx] \in Entry
  BY <1>3, <1>4, EntryFields DEF Inv, Entry
<1>6. [dir[H.idx] EXCEPT !.hash = H.hash] = e
  BY <1>4, <1>5 DEF Entry
<1> HIDE DEF H
<1>7. Hashed(H) = [dirh EXCEPT !.ents = [dir EXCEPT ![H.idx] = e]]
  BY <1>2, <1>6 DEF Hashed, Dirh
<1>8. [dir EXCEPT ![H.idx] = e] \in Entries
  BY <1>5 DEF Inv, TypeOK, Entries
<1> HIDE DEF e
<1>9. Hashed(H) \in Dirh /\ Hashed(H).used = dirh.used /\ Hashed(H).ents = [dir EXCEPT ![H.idx] = e]
  BY <1>2, <1>7, <1>8 DEF Dirh
<1> QED
  BY <1>1, <1>2, <1>3, <1>4, <1>9 DEF H, e

\* tee_fs_dirfile_update_hash() finds the entry of the handle, and the directory
\* stays open for the handle.
LEMMA WriteCommitEffect ==
    ASSUME Inv, WriteCommit
    PROVE  /\ op.kind = "write" /\ op.pc = "hash" /\ op' = NoOp
           /\ dir' = Hashed(hnd[op.h]).ents /\ dirh' = Hashed(hnd[op.h]) /\ it' = it
           /\ refs' = refs - 1 /\ refs' \in Nat
           /\ file' = file /\ hnd' = hnd /\ clock' = clock /\ fault' = fault
<1>1. op.kind = "write" /\ op.pc = "hash" /\ file' = file /\ hnd' = hnd /\ clock' = clock
  BY DEF WriteCommit
<1>2. /\ op.h \in Handles /\ hnd[op.h] # NONE
      /\ dirh.ents[hnd[op.h].idx] # NONE /\ dirh.ents[hnd[op.h].idx].num = hnd[op.h].num
      /\ hnd[op.h].num \in dirh.used
  BY <1>1, HashedEntry
<1>3. /\ dir' = Hashed(hnd[op.h]).ents /\ PutDirh(Hashed(hnd[op.h]), refs, FALSE)
      /\ op' = NoOp /\ fault' = fault
  BY <1>2 DEF WriteCommit
<1>4. OpRef = 1
  BY <1>1 DEF OpRef
<1>5. refs \in Int /\ refs # 1 /\ refs - 1 \in Nat
  <2>1. Cardinality(Opens) >= 1
    BY <1>2, OneUser
  <2>2. refs = Cardinality(Opens) + Cardinality(Walks) + 1
    BY <1>4 DEF Inv, Count
  <2> QED
    BY <2>1, <2>2, Finite
<1> QED
  BY <1>1, <1>3, <1>5, PutDirhEffect

\* The directory is committed with the new hash.
LEMMA WriteCommitInv ==
    ASSUME Inv, WriteCommit
    PROVE  Inv'
<1> DEFINE h == op.h
           H == hnd[op.h]
           e == [oid |-> H.oid, num |-> H.num, hash |-> H.hash]
<1>1. /\ op.kind = "write" /\ op.pc = "hash" /\ op' = NoOp
      /\ dir' = Hashed(H).ents /\ dirh' = Hashed(H) /\ it' = it
      /\ refs' = refs - 1 /\ refs' \in Nat
      /\ file' = file /\ hnd' = hnd /\ clock' = clock /\ fault' = fault
  BY WriteCommitEffect
<1>2. /\ h \in Handles /\ H # NONE /\ H \in Handle
      /\ dirh # NONE /\ dirh.ents = dir
      /\ H.idx \in Idx /\ dir[H.idx] # NONE
      /\ dir[H.idx].oid = H.oid /\ dir[H.idx].num = H.num
      /\ Hashed(H) \in Dirh /\ Hashed(H).used = dirh.used
      /\ Hashed(H).ents = [dir EXCEPT ![H.idx] = e]
  BY <1>1, HashedEntry
<1>3. ~H.err /\ ~Removing(h) /\ Committing(h)
  BY <1>1 DEF Inv, OpOK, Removing, Committing
<1>4. ~H.gone /\ H.tree /\ file[H.num][H.slot] = H.hash
  BY <1>2, <1>3 DEF Inv, HandleOK, Fits
<1>5. e \in Entry /\ e # NONE /\ e.oid = H.oid /\ e.num = H.num /\ e.hash = H.hash
  BY <1>2, ReeFsAssumption DEF Handle, Entry
<1>6. H.slot \in Version
  BY <1>2 DEF Handle
<1> HIDE DEF H, h, e
<1>7. dir'[H.idx] = e /\ \A i \in Idx \ {H.idx} : dir'[i] = dir[i]
  BY <1>1, <1>2 DEF Inv, TypeOK, Entries
<1>8. TypeOK'
  <2>1. dir' \in Entries
    BY <1>1, <1>2 DEF Dirh
  <2> QED
    BY <2>1, <1>1, <1>2, Quiet DEF Inv, TypeOK
<1>9. DirOK'
  <2>1. \A i, j \in Idx :
          /\ dir'[i] # NONE /\ dir'[j] # NONE
          /\ dir'[i].oid = dir'[j].oid \/ dir'[i].num = dir'[j].num
          => i = j
    BY <1>2, <1>5, <1>7 DEF Inv, DirOK
  <2>2. \A i \in Idx : dir'[i] # NONE =>
          file[dir'[i].num] # NONE /\ \E v \in Version : file[dir'[i].num][v] = dir'[i].hash
    BY <1>2, <1>4, <1>5, <1>6, <1>7 DEF Inv, DirOK
  <2> QED
    BY <2>1, <2>2, <1>1 DEF DirOK
<1>10. Numbers(dir') \subseteq dirh.used
  <2>1. ASSUME NEW i \in Idx, dir'[i] # NONE PROVE dir'[i].num \in dirh.used
    BY <2>1, <1>2, <1>5, <1>7, EntryFields DEF Inv, DirhOK
  <2> QED
    BY <2>1 DEF Numbers
<1>11. DirhOK'
  BY <1>1, <1>2, <1>10, Quiet, ReeFsAssumption DEF Inv, DirhOK
<1>12. \A g \in Handles : ~Removing(g)' /\ ~Removing(g) /\ ~Committing(g)' /\ (Committing(g) <=> g = h)
  BY <1>1, Quiet DEF Removing, Committing, h
<1>13. ASSUME NEW g \in Handles PROVE Fits(g)'
  <2>1. CASE g = h
    <3>1. hnd'[g] = H
      BY <2>1, <1>1 DEF H, h
    <3> QED
      BY <2>1, <3>1, <1>1, <1>4, <1>5, <1>7, <1>12 DEF Fits
  <2>2. CASE g # h
    <3>1. Fits(g) /\ hnd'[g] = hnd[g]
      BY <1>1 DEF Inv, HandleOK
    <3>2. hnd[g] # NONE => hnd[g].idx \in Idx \ {H.idx}
      BY <2>2, <1>2, <1>12, OtherHandle, HandleFields DEF H, h, Inv
    <3>3. hnd[g] # NONE /\ ~Removing(g) =>
            dir'[hnd[g].idx] = dir[hnd[g].idx] /\ file'[hnd[g].num] = file[hnd[g].num]
      BY <3>2, <1>1, <1>7
    <3> QED
      BY <2>2, <3>1, <3>3, <1>12, FitsKeeps
  <2> QED
    BY <2>1, <2>2
<1>14. HandlesDistinct' /\ OpOK'
  BY <1>1, Quiet DEF Inv, HandlesDistinct, OpOK
<1>15. Opens' = Opens /\ Walks' = Walks /\ OpRef = 1 /\ OpRef' = 0
  BY <1>1, Quiet DEF Opens, Walks, OpRef
<1>16. Count'
  BY <1>1, <1>15, Finite DEF Inv, Count
<1> QED
  BY <1>1, <1>8, <1>9, <1>11, <1>13, <1>14, <1>16 DEF Inv, HandleOK

\* A write that fails leaves the committed version alone.
LEMMA WriteFailsInv ==
    ASSUME Inv, Modes \subseteq {"io"}, WriteFails
    PROVE  Inv'
<1> DEFINE h == op.h
           H == hnd[op.h]
           new == [H EXCEPT !.tree = @ /\ op.pc # "sync", !.err = TRUE]
<1>1. /\ op.kind = "write" /\ op' = NoOp
      /\ hnd' = [hnd EXCEPT ![op.h].tree = @ /\ op.pc # "sync", ![op.h].err = TRUE]
      /\ dir' = dir /\ file' = file /\ clock' = clock /\ fault' = fault
  BY DEF WriteFails
<1>2. \E d : Fails(d, refs)
  BY DEF WriteFails
<1>3. refs' = refs - 1 /\ dirh' = NONE /\ it' = it /\ (\A i \in Iters : it[i] = NONE) /\ Walks' = Walks
  BY <1>2, FailsEffect
<1>4. h \in Handles /\ H # NONE /\ H \in Handle
  BY <1>1, HandleFields DEF Inv, OpOK
<1>5. /\ new \in Handle /\ new.oid = H.oid /\ new.num = H.num /\ new.idx = H.idx /\ new.slot = H.slot
      /\ new.hash = H.hash /\ new.gone = H.gone /\ (new.tree => H.tree) /\ new.err
  BY <1>4 DEF Handle
<1>6. hnd' = [hnd EXCEPT ![op.h] = new]
  BY <1>1, <1>4 DEF Inv, TypeOK, Handle
<1>7. new # NONE
  BY <1>5, ReeFsAssumption
<1> HIDE DEF h, H, new
<1>8. hnd'[h] = new /\ \A g \in Handles \ {h} : hnd'[g] = hnd[g]
  BY <1>4, <1>6 DEF h, Inv, TypeOK
<1>9. Opens' = Opens /\ OpRef = 1 /\ OpRef' = 0
  <2>1. Opens' = Opens
    BY <1>4, <1>7, <1>8, OpenedOne DEF H, h
  <2> QED
    BY <2>1, <1>1, Quiet DEF OpRef
<1>10. Count' /\ refs' \in Nat
  BY <1>3, <1>9, Finite DEF Inv, Count
<1>11. TypeOK'
  <2>1. hnd' \in [Handles -> Handle \cup {NONE}]
    BY <1>5, <1>6 DEF Inv, TypeOK
  <2> QED
    BY <2>1, <1>1, <1>3, <1>10, Quiet DEF Inv, TypeOK
<1>12. DirOK' /\ DirhOK' /\ OpOK'
  BY <1>1, <1>3, Quiet DEF Inv, DirOK, DirhOK, OpOK
<1>13. \A g \in Handles : ~Removing(g)' /\ ~Removing(g) /\ ~Committing(g)' /\ (g # h => ~Committing(g))
  BY <1>1, Quiet DEF Removing, Committing, h
<1>14. ASSUME NEW g \in Handles PROVE Fits(g)'
  <2>1. Fits(g)
    BY DEF Inv, HandleOK
  <2>2. CASE g = h
    <3>1. /\ ~H.gone /\ dir[H.idx] # NONE /\ dir[H.idx].oid = H.oid /\ dir[H.idx].num = H.num
          /\ H.tree => file[H.num][H.slot] = H.hash
      BY <2>1, <2>2, <1>4, <1>13 DEF Fits, H, h
    <3>2. /\ ~new.gone /\ dir'[new.idx] # NONE
          /\ dir'[new.idx].oid = new.oid /\ dir'[new.idx].num = new.num
          /\ new.tree => file'[new.num][new.slot] = new.hash
      BY <3>1, <1>1, <1>5
    <3> QED
      BY <2>2, <3>2, <1>5, <1>8 DEF Fits
  <2>3. CASE g # h
    BY <2>1, <2>3, <1>1, <1>8, <1>13, FitsKeeps
  <2> QED
    BY <2>2, <2>3
<1>15. HandlesDistinct'
  BY <1>4, <1>5, <1>8 DEF H, h, Inv, HandlesDistinct
<1> QED
  BY <1>1, <1>10, <1>11, <1>12, <1>14, <1>15 DEF Inv, HandleOK

-----------------------------------------------------------------------------
(* Names.                                                                  *)

\* What ree_fs_rename() commits.
LEMMA RenameEffect ==
    ASSUME Inv, Modes \subseteq {"io"}, NEW h \in Handles, NEW oid \in Names, Rename(h, oid)
    PROVE  /\ op = NoOp /\ op' = op /\ hnd[h] # NONE /\ hnd[h] \in Handle /\ ~IsOpen(oid, Handles)
           /\ hnd[h].idx \in Idx /\ dir[hnd[h].idx] # NONE
           /\ dir[hnd[h].idx].oid = hnd[h].oid /\ dir[hnd[h].idx].num = hnd[h].num
           /\ file' = file /\ clock' = clock /\ fault' = fault
           /\ \/ /\ \E d : Fails(d, refs + 1)
                 /\ dir' = dir /\ hnd' = hnd
              \/ /\ Find(dir, oid) = {}
                 /\ dir' = [dir EXCEPT ![hnd[h].idx] =
                              [oid |-> oid, num |-> hnd[h].num, hash |-> dir[hnd[h].idx].hash]]
                 /\ dir' \in Entries
                 /\ dirh' \in Dirh /\ dirh'.ents = dir' /\ dirh'.used = GetDirh.used
                 /\ hnd' = [hnd EXCEPT ![h].oid = oid]
                 /\ refs' = refs /\ it' = it
<1> DEFINE H == hnd[h]
           d == GetDirh
           e == [oid |-> oid, num |-> H.num, hash |-> dir[H.idx].hash]
           new == [d EXCEPT !.ents[H.idx].oid = oid]
<1>1. /\ op = NoOp /\ op' = op /\ H # NONE /\ ~IsOpen(oid, Handles)
      /\ file' = file /\ clock' = clock /\ fault' = fault
  BY DEF Rename, Exclusive, Usable
<1>2. ~Removing(h)
  BY <1>1, Quiet
<1>3. /\ H.idx \in Idx /\ dir[H.idx] # NONE
      /\ dir[H.idx].oid = H.oid /\ dir[H.idx].num = H.num
      /\ Find(dir, H.oid) # {} /\ Min(Find(dir, H.oid)) = H.idx
  BY <1>1, <1>2, HandleEntry
<1>4. H \in Handle /\ H.num \in Nums
  BY <1>1, HandleFields DEF Inv
<1>5. d \in Dirh /\ d.ents = dir
  BY GetDirhIsDir
<1>6. dir[H.idx] \in Entry /\ dir[H.idx].hash \in Stamps \ {0}
  BY <1>3, EntryFields DEF Inv
<1>7. e \in Entry /\ [dir[H.idx] EXCEPT !.oid = oid] = e
  BY <1>3, <1>4, <1>6 DEF Entry
<1>8. \/ /\ \E x : Fails(x, refs + 1)
         /\ dir' = dir /\ hnd' = hnd
      \/ /\ Find(dir, oid) = {}
         /\ dir' = new.ents /\ dirh' = new
         /\ hnd' = [hnd EXCEPT ![h].oid = oid]
         /\ refs' = refs /\ it' = it
  BY <1>3, <1>5 DEF Rename
<1> HIDE DEF H, d
<1>9. new = [d EXCEPT !.ents = [dir EXCEPT ![H.idx] = e]]
  BY <1>5, <1>7 DEF Dirh
<1>10. [dir EXCEPT ![H.idx] = e] \in Entries
  BY <1>7 DEF Inv, TypeOK, Entries
<1> HIDE DEF e, new
<1>11. new \in Dirh /\ new.ents = [dir EXCEPT ![H.idx] = e] /\ new.used = d.used
  BY <1>5, <1>9, <1>10 DEF Dirh
<1> QED
  BY <1>1, <1>3, <1>4, <1>8, <1>10, <1>11 DEF H, d, e

\* The directory is committed with the new name.
LEMMA RenameInv ==
    ASSUME Inv, Modes \subseteq {"io"}, NEW h \in Handles, NEW oid \in Names, Rename(h, oid)
    PROVE  Inv'
<1> DEFINE H == hnd[h]
           e == [oid |-> oid, num |-> H.num, hash |-> dir[H.idx].hash]
           new == [H EXCEPT !.oid = oid]
<1>1. /\ op = NoOp /\ op' = op /\ H # NONE /\ H \in Handle /\ ~IsOpen(oid, Handles)
      /\ H.idx \in Idx /\ dir[H.idx] # NONE
      /\ dir[H.idx].oid = H.oid /\ dir[H.idx].num = H.num
      /\ file' = file /\ clock' = clock /\ fault' = fault
  BY RenameEffect
<1>2. \A g \in Handles : ~Removing(g)' /\ ~Removing(g) /\ ~Committing(g)' /\ ~Committing(g)
  BY <1>1, Quiet
<1>3. CASE (\E d : Fails(d, refs + 1)) /\ dir' = dir /\ hnd' = hnd
  <2>1. refs' = refs /\ dirh' = NONE /\ it' = it /\ (\A k \in Iters : it[k] = NONE) /\ Walks' = Walks
    BY <1>3, FailsEffect DEF Inv, TypeOK
  <2>2. TypeOK' /\ DirOK' /\ DirhOK' /\ OpOK' /\ HandlesDistinct'
    BY <1>1, <1>3, <2>1, Quiet DEF Inv, TypeOK, DirOK, DirhOK, OpOK, HandlesDistinct
  <2>3. HandleOK'
    BY <1>1, <1>2, <1>3, FitsKeeps DEF Inv, HandleOK
  <2>4. Count'
    BY <1>1, <1>3, <2>1 DEF Inv, Count, Opens, OpRef
  <2> QED
    BY <1>1, <2>2, <2>3, <2>4 DEF Inv
<1>4. CASE /\ Find(dir, oid) = {} /\ dir' = [dir EXCEPT ![H.idx] = e] /\ dir' \in Entries
           /\ dirh' \in Dirh /\ dirh'.ents = dir' /\ dirh'.used = GetDirh.used
           /\ hnd' = [hnd EXCEPT ![h].oid = oid] /\ refs' = refs /\ it' = it
  <2>1. e # NONE /\ e.oid = oid /\ e.num = H.num /\ e.hash = dir[H.idx].hash
    <3>1. H.num \in Nums /\ dir[H.idx].hash \in Stamps \ {0}
      BY <1>1, HandleFields, EntryFields DEF Inv
    <3>2. e \in Entry
      BY <3>1 DEF Entry
    <3> QED
      BY <3>2, ReeFsAssumption
  <2>2. /\ new \in Handle /\ new.oid = oid /\ new.num = H.num /\ new.idx = H.idx /\ new.slot = H.slot
        /\ new.hash = H.hash /\ new.gone = H.gone /\ new.tree = H.tree /\ new.err = H.err
    BY <1>1 DEF Handle
  <2>3. hnd' = [hnd EXCEPT ![h] = new] /\ new # NONE
    BY <2>2, <1>4, ReeFsAssumption
  <2> HIDE DEF H, e, new
  <2>4. hnd'[h] = new /\ \A g \in Handles \ {h} : hnd'[g] = hnd[g]
    BY <2>3 DEF Inv, TypeOK
  <2>5. dir'[H.idx] = e /\ \A i \in Idx \ {H.idx} : dir'[i] = dir[i]
    BY <1>1, <1>4 DEF Inv, TypeOK, Entries
  <2>6. TypeOK'
    <3>1. hnd' \in [Handles -> Handle \cup {NONE}]
      BY <2>2, <2>3 DEF Inv, TypeOK
    <3> QED
      BY <3>1, <1>1, <1>4 DEF Inv, TypeOK
  <2>7. DirOK'
    <3>1. \A i \in Idx : dir[i] # NONE => dir[i].oid # oid
      BY <1>4 DEF Find
    <3>2. \A i, j \in Idx :
            /\ dir'[i] # NONE /\ dir'[j] # NONE
            /\ dir'[i].oid = dir'[j].oid \/ dir'[i].num = dir'[j].num
            => i = j
      BY <3>1, <1>1, <2>1, <2>5 DEF Inv, DirOK
    <3>3. \A i \in Idx : dir'[i] # NONE =>
            file[dir'[i].num] # NONE /\ \E v \in Version : file[dir'[i].num][v] = dir'[i].hash
      BY <1>1, <2>1, <2>5 DEF Inv, DirOK
    <3> QED
      BY <3>2, <3>3, <1>1 DEF DirOK
  <2>8. DirhOK'
    <3>1. Numbers(dir) \subseteq GetDirh.used
      BY GetDirhIsDir
    <3>2. ASSUME NEW i \in Idx, dir'[i] # NONE PROVE dir'[i].num \in Numbers(dir)
      BY <3>2, <1>1, <2>1, <2>5, EntryFields DEF Inv
    <3>3. Numbers(dir') \subseteq dirh'.used /\ dirh' # NONE
      BY <3>1, <3>2, <1>4, ReeFsAssumption DEF Numbers
    <3> QED
      BY <3>3, <1>4 DEF Inv, DirhOK
  <2>9. ASSUME NEW g \in Handles PROVE Fits(g)'
    <3>1. Fits(g)
      BY DEF Inv, HandleOK
    <3>2. CASE g = h
      BY <3>1, <3>2, <1>1, <1>2, <2>1, <2>2, <2>4, <2>5 DEF Fits, H
    <3>3. CASE g # h
      <4>1. hnd[g] # NONE => hnd[g].idx \in Idx \ {H.idx}
        BY <3>3, <1>1, <1>2, OtherHandle, HandleFields DEF H, Inv
      <4>2. hnd'[g] = hnd[g]
        BY <3>3, <2>4
      <4>3. hnd[g] # NONE /\ ~Removing(g) =>
              dir'[hnd[g].idx] = dir[hnd[g].idx] /\ file'[hnd[g].num] = file[hnd[g].num]
        BY <4>1, <1>1, <2>5
      <4> QED
        BY <3>1, <4>2, <4>3, <1>2, FitsKeeps
    <3> QED
      BY <3>2, <3>3
  <2>10. HandlesDistinct'
    BY <1>1, <2>2, <2>4 DEF Inv, HandlesDistinct, IsOpen
  <2>11. OpOK'
    BY <1>1, Quiet DEF OpOK
  <2>12. Opens' = Opens /\ Walks' = Walks /\ OpRef = 0 /\ OpRef' = 0
    <3>1. Opens' = Opens
      BY <1>1, <2>3, <2>4, OpenedOne DEF H
    <3> QED
      BY <3>1, <1>1, <1>4, Quiet DEF Walks, OpRef
  <2>13. Count'
    BY <1>4, <2>12 DEF Inv, Count
  <2> QED
    BY <1>1, <2>6, <2>7, <2>8, <2>9, <2>10, <2>11, <2>13 DEF Inv, HandleOK
<1> QED
  BY <1>3, <1>4, RenameEffect

\* What ree_fs_remove() commits.
LEMMA RemoveObjectEffect ==
    ASSUME Inv, Modes \subseteq {"io"}, NEW h \in Handles, RemoveObject(h)
    PROVE  /\ op = NoOp /\ hnd[h] # NONE /\ hnd[h] \in Handle /\ ~hnd[h].err
           /\ hnd[h].idx \in Idx /\ dir[hnd[h].idx] # NONE
           /\ dir[hnd[h].idx].oid = hnd[h].oid /\ dir[hnd[h].idx].num = hnd[h].num
           /\ file' = file /\ clock' = clock /\ fault' = fault /\ hnd[h].num \in Nums
           /\ \/ /\ \E d : Fails(d, refs)
                 /\ hnd' = [hnd EXCEPT ![h] = NONE] /\ dir' = dir /\ op' = op
              \/ /\ dir' = [dir EXCEPT ![hnd[h].idx] = NONE]
                 /\ dirh' = [ents |-> dir', used |-> GetDirh.used \ {hnd[h].num}]
                 /\ op' = [NoOp EXCEPT !.kind = "remove", !.h = h, !.old = hnd[h].num]
                 /\ refs' = refs + 1 /\ hnd' = hnd /\ it' = it
<1>1. /\ op = NoOp /\ hnd[h] # NONE /\ ~hnd[h].err
      /\ file' = file /\ clock' = clock /\ fault' = fault
  BY DEF RemoveObject, Exclusive, Usable
<1>2. ~Removing(h)
  BY <1>1, Quiet
<1>3. /\ hnd[h].idx \in Idx /\ dir[hnd[h].idx] # NONE
      /\ dir[hnd[h].idx].oid = hnd[h].oid /\ dir[hnd[h].idx].num = hnd[h].num
      /\ Find(dir, hnd[h].oid) # {} /\ Min(Find(dir, hnd[h].oid)) = hnd[h].idx
  BY <1>1, <1>2, HandleEntry
<1>4. hnd[h] \in Handle /\ hnd[h].num \in Nums
  BY <1>1, HandleFields DEF Inv
<1>5. GetDirh.ents = dir
  BY GetDirhIsDir
<1>6. \/ /\ \E d : Fails(d, refs)
         /\ hnd' = [hnd EXCEPT ![h] = NONE] /\ dir' = dir /\ op' = op
      \/ /\ dir' = [dir EXCEPT ![hnd[h].idx] = NONE]
         /\ dirh' = [ents |-> dir', used |-> GetDirh.used \ {hnd[h].num}]
         /\ op' = [NoOp EXCEPT !.kind = "remove", !.h = h, !.old = hnd[h].num]
         /\ refs' = refs + 1 /\ hnd' = hnd /\ it' = it
  BY <1>3, <1>5 DEF RemoveObject
<1> QED
  BY <1>1, <1>3, <1>4, <1>6

\* The directory is committed without the entry.
LEMMA RemoveObjectInv ==
    ASSUME Inv, Modes \subseteq {"io"}, NEW h \in Handles, RemoveObject(h)
    PROVE  Inv'
<1> DEFINE H == hnd[h]
<1>1. /\ op = NoOp /\ H # NONE /\ H \in Handle /\ ~H.err
      /\ H.idx \in Idx /\ dir[H.idx] # NONE
      /\ dir[H.idx].oid = H.oid /\ dir[H.idx].num = H.num
      /\ file' = file /\ clock' = clock /\ fault' = fault /\ H.num \in Nums
  BY RemoveObjectEffect
<1>2. \A g \in Handles : ~Removing(g) /\ ~Committing(g)
  BY <1>1, Quiet
<1>3. OpRef = 0
  BY <1>1, Quiet DEF OpRef
<1>4. CASE /\ \E d : Fails(d, refs)
           /\ hnd' = [hnd EXCEPT ![h] = NONE] /\ dir' = dir /\ op' = op
  <2>1. /\ refs' = refs - 1 /\ dirh' = NONE /\ it' = it /\ (\A k \in Iters : it[k] = NONE)
        /\ Walks' = Walks
    BY <1>4, FailsEffect
  <2>2. hnd'[h] = NONE /\ \A g \in Handles \ {h} : hnd'[g] = hnd[g]
    BY <1>4 DEF Inv, TypeOK
  <2>3. /\ Cardinality(Opens') = Cardinality(Opens) - 1 /\ Cardinality(Opens) >= 1
        /\ OpRef' = 0
    <3>1. Cardinality(Opens') = Cardinality(Opens) - 1 /\ Cardinality(Opens) >= 1
      BY <1>1, <2>2, OneUser, OpenedOne
    <3> QED
      BY <3>1, <1>1, <1>4, Quiet DEF OpRef
  <2>4. Count' /\ refs' \in Nat
    BY <1>3, <2>1, <2>3, Finite DEF Inv, Count
  <2>5. TypeOK' /\ DirOK' /\ DirhOK' /\ OpOK'
    BY <1>1, <1>4, <2>1, <2>4, Quiet DEF Inv, TypeOK, DirOK, DirhOK, OpOK
  <2>6. HandleOK' /\ HandlesDistinct'
    BY <1>1, <1>4, <2>2 DEF Inv, HandleOK, HandlesDistinct, Fits, Removing, Committing
  <2> QED
    BY <1>1, <2>4, <2>5, <2>6 DEF Inv
<1>5. CASE /\ dir' = [dir EXCEPT ![H.idx] = NONE]
           /\ dirh' = [ents |-> dir', used |-> GetDirh.used \ {H.num}]
           /\ op' = [NoOp EXCEPT !.kind = "remove", !.h = h, !.old = H.num]
           /\ refs' = refs + 1 /\ hnd' = hnd /\ it' = it
  <2>1. op' \in Operation /\ op'.kind = "remove" /\ op'.h = h /\ op'.old = H.num /\ op'.pc = "none"
    BY <1>1, <1>5, Quiet DEF NoOp, Operation
  <2>2. H.tree => file[H.num][H.slot] = H.hash
    BY <1>1, <1>2 DEF Inv, HandleOK, Fits
  <2> HIDE DEF H
  <2>3. dir'[H.idx] = NONE /\ (\A i \in Idx \ {H.idx} : dir'[i] = dir[i]) /\ dir' \in Entries
    BY <1>1, <1>5 DEF Inv, TypeOK, Entries
  <2>4. /\ GetDirh \in Dirh /\ Numbers(dir) \subseteq GetDirh.used
    BY GetDirhIsDir
  <2>5. dirh' \in Dirh /\ dirh' # NONE
    <3>1. dirh' \in Dirh
      BY <2>3, <2>4, <1>5 DEF Dirh
    <3> QED
      BY <3>1, ReeFsAssumption
  <2>6. TypeOK'
    BY <1>1, <1>5, <2>1, <2>3, <2>5 DEF Inv, TypeOK
  <2>7. ASSUME NEW i \in Idx, dir'[i] # NONE
        PROVE  dir'[i] = dir[i] /\ dir[i].num # H.num /\ dir[i].num \in Numbers(dir)
    BY <2>3, <2>7, <1>1, EntryFields DEF Inv, DirOK
  <2>8. DirOK'
    BY <2>7, <1>1 DEF Inv, DirOK
  <2>9. Numbers(dir') \subseteq GetDirh.used \ {H.num}
    BY <2>4, <2>7 DEF Numbers
  <2>10. DirhOK'
    BY <1>5, <2>5, <2>9 DEF Inv, DirhOK
  <2>11. \A g \in Handles : (Removing(g)' <=> g = h) /\ ~Committing(g)'
    BY <2>1 DEF Removing, Committing
  <2>12. ASSUME NEW g \in Handles PROVE Fits(g)'
    <3>1. CASE g = h
      BY <3>1, <2>11 DEF Fits
    <3>2. CASE g # h
      <4>1. hnd[g] # NONE => hnd[g].idx \in Idx \ {H.idx}
        BY <3>2, <1>1, <1>2, OtherHandle, HandleFields DEF H, Inv
      <4>2. Fits(g) /\ hnd'[g] = hnd[g]
        BY <1>5 DEF Inv, HandleOK
      <4>3. hnd[g] # NONE /\ ~Removing(g) =>
              dir'[hnd[g].idx] = dir[hnd[g].idx] /\ file'[hnd[g].num] = file[hnd[g].num]
        BY <4>1, <1>1, <2>3
      <4> QED
        BY <3>2, <4>2, <4>3, <1>2, <2>11, FitsKeeps
    <3> QED
      BY <3>1, <3>2
  <2>13. HandlesDistinct'
    BY <1>5 DEF Inv, HandlesDistinct
  <2>14. OpOK'
    <3>1. H.num \in Nums \ Numbers(dir')
      BY <1>1, <2>9
    <3> QED
      BY <3>1, <1>1, <1>5, <2>1, <2>2 DEF OpOK, H
  <2>15. Opens' = Opens /\ Walks' = Walks /\ OpRef' = 1
    BY <1>5, <2>1 DEF Opens, Walks, OpRef
  <2>16. Count'
    BY <1>3, <1>5, <2>15, Finite DEF Inv, Count
  <2> QED
    BY <1>1, <2>6, <2>8, <2>10, <2>12, <2>13, <2>14, <2>16 DEF Inv, HandleOK
<1> QED
  BY <1>4, <1>5, RemoveObjectEffect

\* The file of the removed object goes, and its handle.
LEMMA RemoveUnlinkInv ==
    ASSUME Inv, RemoveUnlink
    PROVE  Inv'
<1>1. /\ op.kind = "remove" /\ op' = NoOp /\ file' = [file EXCEPT ![op.old] = NONE]
      /\ hnd' = [h \in Handles |->
                 IF h = op.h THEN NONE
                 ELSE IF hnd[h] # NONE /\ hnd[h].num = op.old THEN [hnd[h] EXCEPT !.gone = TRUE]
                 ELSE hnd[h]]
      /\ PutDirh(dirh, refs - 1, FALSE)
      /\ dir' = dir /\ clock' = clock /\ fault' = fault
  BY DEF RemoveUnlink
<1>2. op.h \in Handles /\ hnd[op.h] # NONE /\ op.old \in Nums \ Numbers(dir) /\ dirh # NONE
  BY <1>1 DEF Inv, OpOK, DirhOK
<1>3. \A g \in Handles : /\ ~Removing(g)' /\ (Removing(g) <=> g = op.h)
                        /\ ~Committing(g) /\ ~Committing(g)'
  BY <1>1, Quiet DEF Removing, Committing
<1>4. ASSUME NEW g \in Handles \ {op.h}, hnd[g] # NONE PROVE hnd[g].num \in Numbers(dir)
  BY <1>3, <1>4, HandleEntry
<1>5. hnd'[op.h] = NONE /\ \A g \in Handles \ {op.h} : hnd'[g] = hnd[g]
  BY <1>1, <1>2, <1>4
<1>6. \A m \in Numbers(dir) : file'[m] = file[m]
  <2>1. Numbers(dir) \subseteq Nums
    BY EntryFields DEF Inv, Numbers
  <2> QED
    BY <2>1, <1>1, <1>2 DEF Inv, TypeOK
<1>7. OpRef = 1 /\ OpRef' = 0
  BY <1>1, Quiet DEF OpRef
<1>8. /\ Cardinality(Opens) >= 1 /\ Cardinality(Opens') = Cardinality(Opens) - 1
      /\ refs = Cardinality(Opens) + Cardinality(Walks) + 1
  BY <1>2, <1>5, <1>7, OneUser, OpenedOne DEF Inv, Count
<1>9. /\ it' = it /\ refs' = refs - 2
      /\ dirh' = dirh \/ (dirh' = NONE /\ \A i \in Iters : it[i] = NONE)
  <2>1. refs - 1 \in Int /\ (refs - 1 = 1 => Cardinality(Walks) = 0)
    BY <1>8, Finite
  <2>2. refs - 1 - 1 = refs - 2
    BY <1>8, Finite
  <2> QED
    BY <2>1, <2>2, <1>1, PutDirhEffect
<1>10. Count' /\ refs' \in Nat
  <2>1. Walks' = Walks
    BY <1>9 DEF Walks
  <2> QED
    BY <2>1, <1>7, <1>8, <1>9, Finite DEF Count
<1>11. TypeOK'
  <2>1. hnd' \in [Handles -> Handle \cup {NONE}]
    BY <1>1, <1>5 DEF Inv, TypeOK
  <2> QED
    BY <2>1, <1>1, <1>9, <1>10, Quiet DEF Inv, TypeOK
<1>12. DirOK'
  <2>1. \A i \in Idx : dir[i] # NONE => dir[i].num \in Numbers(dir)
    BY EntryFields DEF Inv
  <2> QED
    BY <2>1, <1>1, <1>6 DEF Inv, DirOK
<1>13. DirhOK' /\ OpOK'
  BY <1>1, <1>9, Quiet DEF Inv, DirhOK, OpOK
<1>14. ASSUME NEW g \in Handles PROVE Fits(g)'
  <2>1. CASE g = op.h
    BY <2>1, <1>5 DEF Fits
  <2>2. CASE g # op.h
    <3>1. hnd[g] # NONE /\ ~Removing(g) =>
            dir'[hnd[g].idx] = dir[hnd[g].idx] /\ file'[hnd[g].num] = file[hnd[g].num]
      BY <2>2, <1>1, <1>4, <1>6
    <3>2. Fits(g) /\ hnd'[g] = hnd[g]
      BY <2>2, <1>5 DEF Inv, HandleOK
    <3> QED
      BY <2>2, <3>1, <3>2, <1>3, FitsKeeps
  <2> QED
    BY <2>1, <2>2
<1>15. HandlesDistinct'
  BY <1>5 DEF Inv, HandlesDistinct
<1> QED
  BY <1>1, <1>10, <1>11, <1>12, <1>13, <1>14, <1>15 DEF Inv, HandleOK

-----------------------------------------------------------------------------
(* Enumeration and the loss of power.                                      *)

\* An enumeration takes a reference of the directory.
LEMMA OpenDirInv ==
    ASSUME Inv, NEW i \in Iters, OpenDir(i)
    PROVE  Inv'
<1>1. /\ op = NoOp /\ op' = op /\ it[i] = NONE
      /\ dir' = dir /\ file' = file /\ hnd' = hnd /\ clock' = clock /\ fault' = fault
  BY DEF OpenDir
<1>2. GetDirh \in Dirh /\ GetDirh.ents = dir /\ Numbers(dir) \subseteq GetDirh.used
  BY GetDirhIsDir
<1>3. DirOK' /\ HandlesDistinct' /\ OpOK' /\ ~fault' /\ Opens' = Opens /\ OpRef = 0 /\ OpRef' = 0
  BY <1>1, Quiet DEF Inv, DirOK, HandlesDistinct, OpOK, Opens, OpRef
<1>4. HandleOK'
  BY <1>1 DEF Inv, HandleOK, Fits, Removing, Committing
<1>5. CASE dirh' = (IF refs = 0 THEN NONE ELSE GetDirh) /\ refs' = refs /\ it' = it
  <2>1. refs = 0 => \A k \in Iters : it[k] = NONE
    <3>1. refs = Cardinality(Opens) + Cardinality(Walks)
      BY <1>3, Finite DEF Inv, Count
    <3>2. refs = 0 => Walks = {}
      BY <3>1, Finite, FS_EmptySet
    <3> QED
      BY <3>2 DEF Walks
  <2>2. TypeOK'
    BY <1>1, <1>2, <1>5 DEF Inv, TypeOK
  <2>3. DirhOK'
    BY <1>1, <1>2, <1>5, <2>1, Quiet, ReeFsAssumption DEF Inv, DirhOK
  <2>4. Count'
    BY <1>3, <1>5 DEF Inv, Count, Walks
  <2> QED
    BY <1>3, <1>4, <2>2, <2>3, <2>4 DEF Inv
<1>6. CASE dirh' = GetDirh /\ refs' = refs + 1 /\ it' = [it EXCEPT ![i] = [valid |-> TRUE, idx |-> 0]]
  <2>1. [valid |-> TRUE, idx |-> 0] \in Iterator
    BY DEF Iterator
  <2>2. /\ it'[i] # NONE /\ it'[i].valid /\ \A k \in Iters \ {i} : it'[k] = it[k]
        /\ it' \in [Iters -> Iterator \cup {NONE}]
    BY <2>1, <1>6, ReeFsAssumption DEF Inv, TypeOK
  <2>3. TypeOK'
    BY <1>1, <1>2, <1>6, <2>2 DEF Inv, TypeOK
  <2>4. DirhOK'
    BY <1>1, <1>2, <1>6, <2>2, ReeFsAssumption DEF Inv, DirhOK
  <2>5. Walks' = Walks \cup {i} /\ i \notin Walks
    BY <1>1, <2>2 DEF Walks
  <2>6. Cardinality(Walks') = Cardinality(Walks) + 1
    BY <2>5, Finite, FS_AddElement
  <2>7. Count'
    BY <1>3, <1>6, <2>6, Finite DEF Inv, Count
  <2> QED
    BY <1>3, <1>4, <2>3, <2>4, <2>7 DEF Inv
<1> QED
  BY <1>5, <1>6 DEF OpenDir

\* An enumeration goes on to the next entry.
LEMMA ReadDirInv ==
    ASSUME Inv, NEW i \in Iters, ReadDir(i)
    PROVE  Inv'
<1> DEFINE more == {k \in Idx : k > it[i].idx /\ it[i].valid /\ dirh.ents[k] # NONE}
<1>1. /\ op = NoOp /\ op' = op /\ it[i] # NONE /\ fault' = (fault \/ ~it[i].valid)
      /\ dir' = dir /\ file' = file /\ dirh' = dirh /\ refs' = refs /\ hnd' = hnd /\ clock' = clock
      /\ it' = IF more = {} THEN it ELSE [it EXCEPT ![i].idx = Min(more)]
  BY DEF ReadDir
<1>2. it[i].valid /\ ~fault'
  BY <1>1 DEF Inv, DirhOK
<1>3. it[i] \in Iterator
  BY <1>1 DEF Inv, TypeOK
<1>4. it' = it \/ \E x \in Iterator : x.valid /\ it' = [it EXCEPT ![i] = x]
  <2>1. CASE more # {}
    <3>1. more \in SUBSET Nat
      BY IdxNat
    <3>2. Min(more) \in Idx
      BY <2>1, <3>1, MinIn
    <3> HIDE DEF more
    <3>3. [it[i] EXCEPT !.idx = Min(more)] \in Iterator /\ [it[i] EXCEPT !.idx = Min(more)].valid
      BY <1>2, <1>3, <3>2 DEF Iterator
    <3>4. it' = [it EXCEPT ![i] = [it[i] EXCEPT !.idx = Min(more)]]
      BY <1>1, <2>1
    <3> QED
      BY <3>3, <3>4
  <2> QED
    BY <2>1, <1>1
<1> HIDE DEF more
<1>5. /\ it' \in [Iters -> Iterator \cup {NONE}]
      /\ \A k \in Iters : (it'[k] = NONE <=> it[k] = NONE) /\ (it'[k] # NONE => it'[k].valid)
  <2>1. CASE it' = it
    BY <2>1 DEF Inv, TypeOK, DirhOK
  <2>2. ASSUME NEW x \in Iterator, x.valid, it' = [it EXCEPT ![i] = x]
        PROVE  /\ it' \in [Iters -> Iterator \cup {NONE}]
               /\ \A k \in Iters : (it'[k] = NONE <=> it[k] = NONE) /\ (it'[k] # NONE => it'[k].valid)
    BY <2>2, <1>1, ReeFsAssumption DEF Inv, TypeOK, DirhOK
  <2> QED
    BY <2>1, <2>2, <1>4
<1>6. TypeOK' /\ DirOK' /\ DirhOK' /\ HandlesDistinct' /\ OpOK'
  BY <1>1, <1>2, <1>5, Quiet DEF Inv, TypeOK, DirOK, DirhOK, HandlesDistinct, OpOK
<1>7. HandleOK'
  BY <1>1 DEF Inv, HandleOK, Fits, Removing, Committing
<1>8. Walks' = Walks /\ Opens' = Opens /\ OpRef' = OpRef
  BY <1>1, <1>5 DEF Walks, Opens, OpRef
<1>9. Count'
  BY <1>1, <1>8 DEF Inv, Count
<1> QED
  BY <1>2, <1>6, <1>7, <1>9 DEF Inv

\* An enumeration gives its reference back.
LEMMA CloseDirInv ==
    ASSUME Inv, NEW i \in Iters, CloseDir(i)
    PROVE  Inv'
<1>1. /\ op = NoOp /\ op' = op /\ it[i] # NONE /\ it[i].valid
      /\ dir' = dir /\ file' = file /\ hnd' = hnd /\ clock' = clock
  BY DEF CloseDir, Inv, DirhOK
<1>2. /\ refs' = refs - 1 /\ dirh' = (IF refs = 1 THEN NONE ELSE dirh)
      /\ it' = [it EXCEPT ![i] = NONE] /\ fault' = fault
  BY <1>1 DEF CloseDir
<1>3. it'[i] = NONE /\ \A k \in Iters \ {i} : it'[k] = it[k]
  BY <1>2 DEF Inv, TypeOK
<1>4. Walks' = Walks \ {i} /\ i \in Walks
  BY <1>1, <1>3 DEF Walks
<1>5. Cardinality(Walks') = Cardinality(Walks) - 1 /\ Cardinality(Walks) >= 1 /\ IsFiniteSet(Walks')
  BY <1>1, <1>4, OneUser, Finite, FS_RemoveElement
<1>6. Opens' = Opens /\ OpRef = 0 /\ OpRef' = 0
  BY <1>1, Quiet DEF Opens, OpRef
<1>7. refs = Cardinality(Opens) + Cardinality(Walks)
  BY <1>6, Finite DEF Inv, Count
<1>8. Count' /\ refs' \in Nat
  BY <1>2, <1>5, <1>6, <1>7, Finite DEF Count
<1>9. refs = 1 => \A k \in Iters : it'[k] = NONE
  <2>1. refs = 1 => Walks' = {}
    BY <1>5, <1>7, Finite, FS_EmptySet
  <2> QED
    BY <2>1 DEF Walks
<1>10. TypeOK'
  BY <1>1, <1>2, <1>8 DEF Inv, TypeOK
<1>11. DirhOK'
  BY <1>1, <1>2, <1>3, <1>9, Quiet DEF Inv, DirhOK
<1>12. DirOK' /\ HandlesDistinct' /\ OpOK' /\ ~fault'
  BY <1>1, <1>2, Quiet DEF Inv, DirOK, HandlesDistinct, OpOK
<1>13. HandleOK'
  BY <1>1 DEF Inv, HandleOK, Fits, Removing, Committing
<1> QED
  BY <1>8, <1>10, <1>11, <1>12, <1>13 DEF Inv

\* Power is lost: what is left is the committed directory and the files.
LEMMA PowerLossInv ==
    ASSUME Inv, PowerLoss
    PROVE  Inv'
<1>1. /\ dirh' = NONE /\ refs' = 0
      /\ hnd' = [h \in Handles |-> NONE] /\ it' = [i \in Iters |-> NONE]
      /\ op' = NoOp
      /\ dir' = dir /\ file' = file /\ clock' = clock /\ fault' = fault
  BY DEF PowerLoss
<1>2. TypeOK' /\ DirOK' /\ DirhOK' /\ HandleOK' /\ HandlesDistinct' /\ OpOK'
  BY <1>1, Quiet DEF Inv, TypeOK, DirOK, DirhOK, HandleOK, Fits, HandlesDistinct, OpOK
<1>3. Opens' = {} /\ Walks' = {} /\ OpRef' = 0
  BY <1>1, Quiet DEF Opens, Walks, OpRef
<1>4. Count'
  BY <1>1, <1>3, FS_EmptySet DEF Count
<1> QED
  BY <1>1, <1>2, <1>4 DEF Inv

\* Every step keeps the invariant.
LEMMA NextInv ==
    ASSUME Inv, Modes \subseteq {"io"}, [Next]_vars
    PROVE  Inv'
<1>1. ASSUME NEW h \in Handles, Close(h) \/ WriteStart(h) \/ RemoveObject(h) PROVE Inv'
  BY <1>1, CloseInv, WriteStartInv, RemoveObjectInv
<1>2. ASSUME NEW h \in Handles, NEW oid \in Names,
             Open(h, oid) \/ CreateStart(h, oid) \/ Rename(h, oid)
      PROVE  Inv'
  BY <1>2, OpenInv, CreateStartInv, RenameInv
<1>3. ASSUME NEW i \in Iters, OpenDir(i) \/ ReadDir(i) \/ CloseDir(i) PROVE Inv'
  BY <1>3, OpenDirInv, ReadDirInv, CloseDirInv
<1>4. ASSUME \/ CreateSync \/ (\E overwrite \in BOOLEAN : SetName(overwrite)) \/ CreateUnlink
             \/ CreateFails
      PROVE  Inv'
  BY <1>4, CreateSyncInv, SetNameInv, CreateUnlinkInv, CreateFailsInv
<1>5. ASSUME WriteSync \/ WriteCommit \/ WriteFails \/ RemoveUnlink \/ PowerLoss
      PROVE  Inv'
  BY <1>5, WriteSyncInv, WriteCommitInv, WriteFailsInv, RemoveUnlinkInv, PowerLossInv
<1>6. ASSUME UNCHANGED vars PROVE Inv'
  <2>1. /\ dir' = dir /\ file' = file /\ dirh' = dirh /\ refs' = refs /\ hnd' = hnd /\ it' = it
        /\ op' = op /\ clock' = clock /\ fault' = fault
    BY <1>6 DEF vars
  <2>2. TypeOK' /\ DirOK' /\ DirhOK' /\ HandlesDistinct'
    BY <2>1 DEF Inv, TypeOK, DirOK, DirhOK, HandlesDistinct
  <2>3. OpOK' /\ HandleOK'
    BY <2>1 DEF Inv, OpOK, IsOpen, HandleOK, Fits, Removing, Committing
  <2>4. Count'
    BY <2>1 DEF Inv, Count, Opens, Walks, OpRef
  <2> QED
    BY <2>1, <2>2, <2>3, <2>4 DEF Inv
<1> QED
  BY <1>1, <1>2, <1>3, <1>4, <1>5, <1>6 DEF Next

-----------------------------------------------------------------------------
(* The objects that are safe.                                              *)

\* The content of the objects of a directory d whose files have what d has the
\* hashes of.
Committed(d, oid) == IF Find(d, oid) = {} THEN NONE ELSE d[Min(Find(d, oid))].hash

\* No other entry has the name of entry i.
OnlyEntry(d, i) == \A j \in Idx : d[j] # NONE /\ d[j].oid = d[i].oid => j = i

\* The committed version of an object with one entry is the hash in it.
LEMMA CommittedAt ==
    ASSUME NEW d, NEW i \in Idx, d[i] # NONE, OnlyEntry(d, i)
    PROVE  Find(d, d[i].oid) = {i} /\ Min({i}) = i /\ Committed(d, d[i].oid) = d[i].hash
<1>1. Find(d, d[i].oid) = {i}
  BY DEF Find, OnlyEntry
<1>2. Min({i}) = i
  BY IdxNat, MinOne
<1> QED
  BY <1>1, <1>2 DEF Committed

\* Directories with the same entries for a name agree on the object.
LEMMA CommittedSame ==
    ASSUME NEW d, NEW e, NEW oid, Find(e, oid) = Find(d, oid),
           \A i \in Find(d, oid) : e[i] = d[i]
    PROVE  Committed(e, oid) = Committed(d, oid)
<1>1. CASE Find(d, oid) # {}
  <2>1. Find(d, oid) \in SUBSET Nat
    BY IdxNat DEF Find
  <2>2. Min(Find(d, oid)) \in Find(d, oid)
    BY <1>1, <2>1, MinIn
  <2> QED
    BY <2>2 DEF Committed
<1>2. CASE Find(d, oid) = {}
  BY <1>2 DEF Committed
<1> QED
  BY <1>1, <1>2

\* What the next open finds is the committed version.
LEMMA ObjectIsCommitted ==
    Inv => \A oid \in Names : Object(oid) = Committed(dir, oid)
<1> SUFFICES ASSUME Inv, NEW oid \in Names
             PROVE  Object(oid) = Committed(dir, oid)
  OBVIOUS
<1>1. CASE Find(dir, oid) = {}
  BY <1>1 DEF Object, Committed
<1>2. CASE Find(dir, oid) # {}
  <2> DEFINE k == Min(Find(dir, oid))
  <2>1. k \in Idx /\ dir[k] # NONE
    <3>1. Find(dir, oid) \in SUBSET Nat
      BY IdxNat DEF Find
    <3>2. k \in Find(dir, oid)
      BY <1>2, <3>1, MinIn
    <3> QED
      BY <3>2 DEF Find
  <2>2. file[dir[k].num] # NONE /\ \E v \in Version : file[dir[k].num][v] = dir[k].hash
    BY <2>1 DEF Inv, DirOK
  <2>3. dir[k].num \in Nums
    BY <2>1, EntryFields DEF Inv
  <2>4. file[dir[k].num] \in [Version -> Stamps]
    BY <2>2, <2>3 DEF Inv, TypeOK
  <2>5. dir[k].hash \in Range(file[dir[k].num])
    BY <2>2, <2>4 DEF Range
  <2> QED
    BY <1>2, <2>2, <2>5 DEF Object, Committed
<1> QED
  BY <1>1, <1>2

\* The invariant implies what the run checks.
LEMMA InvSafe == Inv => ObjectsSafe
<1> SUFFICES ASSUME Inv PROVE ObjectsSafe
  OBVIOUS
<1>1. Recoverable
  <2> SUFFICES ASSUME NEW i \in Idx, dir[i] # NONE
               PROVE  /\ Object(dir[i].oid) # 0
                      /\ \A j \in Idx \ {i} : dir[j] # NONE => dir[j].num # dir[i].num
    BY DEF Recoverable
  <2>1. Committed(dir, dir[i].oid) = dir[i].hash
    BY CommittedAt DEF Inv, DirOK, OnlyEntry
  <2>2. Object(dir[i].oid) # 0
    BY <2>1, EntryFields, ObjectIsCommitted DEF Inv
  <2> QED
    BY <2>2 DEF Inv, DirOK
<1>2. HandleReadable
  <2> SUFFICES ASSUME NEW h \in Handles, hnd[h] # NONE, hnd[h].tree
               PROVE  file[hnd[h].num][hnd[h].slot] = hnd[h].hash
    BY DEF HandleReadable
  <2>1. CASE Removing(h)
    BY <2>1 DEF Inv, OpOK, Removing
  <2>2. CASE ~Removing(h)
    BY <2>2 DEF Inv, HandleOK, Fits
  <2> QED
    BY <2>1, <2>2
<1>3. RefCountExact
  BY DEF Inv, Count, Opens, Walks, OpRef, RefCountExact
<1>4. NumbersReserved
  BY DEF Inv, DirhOK, OpOK, NumbersReserved
<1> QED
  BY <1>1, <1>2, <1>3, <1>4 DEF ObjectsSafe, AssertionsHold, Inv

\* Of the file system, for any number of handles, enumerations and objects, if an
\* object is open at most once, a handle is not used after an error and nobody
\* enumerates the objects while an operation fails: whatever RPC of
\* ree_fs_create(), ree_fs_write(), ree_fs_rename() or ree_fs_remove() fails and
\* whenever the power is lost, every committed object can be read, handles read
\* what they were told of, ree_fs_dirh_refcount is exact, no number of a file in
\* use is given to a temporary file, and no assertion fails.
THEOREM ObjectsCorrect ==
    ASSUME Modes \subseteq {"io"}
    PROVE  Spec => []ObjectsSafe
<1>1. Init => Inv
  BY InitInv
<1>2. Inv /\ [Next]_vars => Inv'
  BY NextInv
<1>3. Inv => ObjectsSafe
  BY InvSafe
<1> QED
  BY <1>1, <1>2, <1>3, PTL DEF Spec

-----------------------------------------------------------------------------
(* The store of objects.                                                   *)

\* The same in the next state.
LEMMA ObjectIsCommittedNext ==
    Inv' => \A oid \in Names : Object(oid)' = Committed(dir', oid)
<1>1. Inv => \A oid \in Names : Object(oid) = Committed(dir, oid)
  BY ObjectIsCommitted
<1>2. (Inv => \A oid \in Names : Object(oid) = Committed(dir, oid))'
  BY <1>1, PTL
<1> QED
  BY <1>2

Store == [oid \in Names |-> Object(oid)]

\* An entry gets a new file or a new hash, or a name gets its entry.
LEMMA EntryPut ==
    ASSUME Inv, Inv', NEW k \in Idx, NEW e \in Entry, dir' = [dir EXCEPT ![k] = e],
           dir[k] # NONE => dir[k].oid = e.oid
    PROVE  Objects!Put
<1>1. e # NONE /\ e.oid \in Names /\ e.hash \in Stamps \ {0}
  BY ReeFsAssumption DEF Entry
<1>2. dir'[k] = e /\ \A i \in Idx \ {k} : dir'[i] = dir[i]
  BY DEF Inv, TypeOK, Entries
<1>3. Committed(dir', e.oid) = e.hash
  <2>1. OnlyEntry(dir', k)
    BY <1>1, <1>2 DEF Inv, DirOK, OnlyEntry
  <2>2. dir'[k] # NONE
    BY <1>1, <1>2
  <2>3. Committed(dir', dir'[k].oid) = dir'[k].hash
    BY <2>1, <2>2, CommittedAt
  <2> QED
    BY <2>3, <1>1, <1>2
<1>4. ASSUME NEW n \in Names \ {e.oid} PROVE Committed(dir', n) = Committed(dir, n)
  <2>1. Find(dir', n) = Find(dir, n) /\ k \notin Find(dir, n)
    BY <1>2 DEF Find
  <2>2. \A i \in Find(dir, n) : dir'[i] = dir[i]
    BY <2>1, <1>2 DEF Find
  <2> QED
    BY <2>1, <2>2, CommittedSame
<1>5. Store' = [Store EXCEPT ![e.oid] = e.hash]
  BY <1>1, <1>3, <1>4, ObjectIsCommitted, ObjectIsCommittedNext DEF Store
<1> QED
  BY <1>1, <1>5 DEF Objects!Put, Store

\* A changed name in an entry is the move of an object.
LEMMA EntryMoved ==
    ASSUME Inv, Inv', NEW k \in Idx, dir[k] # NONE, NEW m \in Names, Find(dir, m) = {},
           dir' = [dir EXCEPT ![k] = [oid |-> m, num |-> dir[k].num, hash |-> dir[k].hash]]
    PROVE  Objects!Move
<1> DEFINE n == dir[k].oid
           e == [oid |-> m, num |-> dir[k].num, hash |-> dir[k].hash]
<1>1. n \in Names /\ dir[k].num \in Nums /\ dir[k].hash \in Stamps \ {0}
  BY EntryFields DEF Inv
<1>2. e \in Entry /\ e # NONE /\ e.oid = m /\ e.hash = dir[k].hash
  <2>1. e \in Entry
    BY <1>1 DEF Entry
  <2> QED
    BY <2>1, ReeFsAssumption
<1>3. m # n
  BY DEF Find
<1> HIDE DEF n, e
<1>4. dir'[k] = e /\ \A i \in Idx \ {k} : dir'[i] = dir[i]
  BY DEF e, Inv, TypeOK, Entries
<1>5. Committed(dir, n) = dir[k].hash /\ Find(dir, n) = {k} /\ Committed(dir, m) = NONE
  <2>1. OnlyEntry(dir, k)
    BY DEF Inv, DirOK, OnlyEntry
  <2>2. Committed(dir, n) = dir[k].hash /\ Find(dir, n) = {k}
    BY <2>1, CommittedAt DEF n
  <2> QED
    BY <2>2 DEF Committed
<1>6. Committed(dir', m) = dir[k].hash
  <2>1. OnlyEntry(dir', k)
    BY <1>2, <1>4 DEF Inv, DirOK, OnlyEntry
  <2>2. dir'[k] # NONE
    BY <1>2, <1>4
  <2>3. Committed(dir', dir'[k].oid) = dir'[k].hash
    BY <2>1, <2>2, CommittedAt
  <2> QED
    BY <2>3, <1>2, <1>4
<1>7. Committed(dir', n) = NONE
  <2>1. Find(dir', n) = {}
    BY <1>2, <1>3, <1>4, <1>5 DEF Find
  <2> QED
    BY <2>1 DEF Committed
<1>8. ASSUME NEW x \in Names \ {n, m} PROVE Committed(dir', x) = Committed(dir, x)
  <2>1. Find(dir', x) = Find(dir, x) /\ k \notin Find(dir, x)
    BY <1>2, <1>4 DEF Find, n
  <2>2. \A i \in Find(dir, x) : dir'[i] = dir[i]
    BY <2>1, <1>4 DEF Find
  <2> QED
    BY <2>1, <2>2, CommittedSame
<1>9. Store[n] = dir[k].hash /\ Store[m] = NONE /\ dir[k].hash # NONE
  BY <1>1, <1>5, ObjectIsCommitted, ReeFsAssumption DEF Store
<1>10. Store' = [Store EXCEPT ![m] = Store[n], ![n] = NONE]
  BY <1>1, <1>3, <1>6, <1>7, <1>8, <1>9, ObjectIsCommitted, ObjectIsCommittedNext DEF Store
<1> QED
  BY <1>1, <1>9, <1>10 DEF Objects!Move, Store

\* A removed entry is the deletion of an object.
LEMMA EntryDeleted ==
    ASSUME Inv, Inv', NEW k \in Idx, dir[k] # NONE, dir' = [dir EXCEPT ![k] = NONE]
    PROVE  Objects!Delete
<1> DEFINE n == dir[k].oid
<1>1. n \in Names
  BY EntryFields DEF Inv
<1>2. dir'[k] = NONE /\ \A i \in Idx \ {k} : dir'[i] = dir[i]
  BY DEF Inv, TypeOK, Entries
<1>3. Committed(dir', n) = NONE
  <2>1. Find(dir', n) = {}
    BY <1>2 DEF Find, Inv, DirOK
  <2> QED
    BY <2>1 DEF Committed
<1>4. ASSUME NEW x \in Names \ {n} PROVE Committed(dir', x) = Committed(dir, x)
  <2>1. Find(dir', x) = Find(dir, x) /\ k \notin Find(dir, x)
    BY <1>2 DEF Find
  <2>2. \A i \in Find(dir, x) : dir'[i] = dir[i]
    BY <2>1, <1>2 DEF Find
  <2> QED
    BY <2>1, <2>2, CommittedSame
<1> HIDE DEF n
<1>5. Store' = [Store EXCEPT ![n] = NONE]
  BY <1>1, <1>3, <1>4, ObjectIsCommitted, ObjectIsCommittedNext DEF Store
<1> QED
  BY <1>1, <1>5 DEF Objects!Delete, Store

\* The same directory has the same objects.
LEMMA EntriesSame ==
    ASSUME Inv, Inv', dir' = dir
    PROVE  Store' = Store
  BY ObjectIsCommitted, ObjectIsCommittedNext DEF Store

ObjectsStep == Objects!Put \/ Objects!Move \/ Objects!Delete \/ Store' = Store

\* The steps that commit the directory are the operations on objects.
LEMMA StepRefines ==
    ASSUME Inv, Inv', Modes \subseteq {"io"}, [Next]_vars
    PROVE  ObjectsStep
<1>1. ASSUME NEW overwrite \in BOOLEAN, SetName(overwrite) PROVE ObjectsStep
  <2>1. op.kind = "create" /\ op.pc = "name"
    BY <1>1 DEF SetName
  <2>2. CASE CommitName
    <3> DEFINE e == [oid |-> op.oid, num |-> op.num, hash |-> op.hash]
    <3>1. dir' = [dir EXCEPT ![NamedIdx] = e] /\ NamedIdx \in Idx
          /\ (dir[NamedIdx] # NONE => dir[NamedIdx].oid = op.oid)
      BY <2>1, <2>2, NamedEntry DEF CommitName
    <3>2. e \in Entry /\ e.oid = op.oid
      BY <2>1 DEF Inv, TypeOK, OpOK, Operation, Entry
    <3> HIDE DEF e
    <3> QED
      BY <3>1, <3>2, EntryPut DEF ObjectsStep
  <2>3. CASE dir' = dir
    BY <2>3, EntriesSame DEF ObjectsStep
  <2> QED
    BY <1>1, <2>2, <2>3 DEF SetName, CreateError
<1>2. ASSUME WriteCommit PROVE ObjectsStep
  <2> DEFINE H == hnd[op.h]
             e == [oid |-> H.oid, num |-> H.num, hash |-> H.hash]
  <2>1. op.kind = "write" /\ op.pc = "hash" /\ dir' = Hashed(H).ents
    BY <1>2, WriteCommitEffect
  <2>2. /\ H \in Handle /\ H.idx \in Idx /\ dir[H.idx].oid = H.oid
        /\ Hashed(H).ents = [dir EXCEPT ![H.idx] = e]
    BY <2>1, HashedEntry
  <2>3. e \in Entry /\ e.oid = H.oid
    BY <2>2 DEF Handle, Entry
  <2> HIDE DEF H, e
  <2> QED
    BY <2>1, <2>2, <2>3, EntryPut DEF ObjectsStep
<1>3. ASSUME NEW h \in Handles, NEW oid \in Names, Rename(h, oid) PROVE ObjectsStep
  <2> DEFINE k == hnd[h].idx
  <2>1. /\ k \in Idx /\ dir[k] # NONE
        /\ \/ dir' = dir
           \/ /\ Find(dir, oid) = {}
              /\ dir' = [dir EXCEPT ![k] = [oid |-> oid, num |-> dir[k].num, hash |-> dir[k].hash]]
    <3>1. k \in Idx /\ dir[k] # NONE /\ dir[k].num = hnd[h].num
      BY <1>3, RenameEffect
    <3>2. \/ dir' = dir
          \/ /\ Find(dir, oid) = {}
             /\ dir' = [dir EXCEPT ![k] = [oid |-> oid, num |-> hnd[h].num, hash |-> dir[k].hash]]
      BY <1>3, RenameEffect
    <3> QED
      BY <3>1, <3>2
  <2> HIDE DEF k
  <2> QED
    BY <2>1, EntryMoved, EntriesSame DEF ObjectsStep
<1>4. ASSUME NEW h \in Handles, RemoveObject(h) PROVE ObjectsStep
  <2> DEFINE k == hnd[h].idx
  <2>1. k \in Idx /\ dir[k] # NONE /\ (dir' = dir \/ dir' = [dir EXCEPT ![k] = NONE])
    BY <1>4, RemoveObjectEffect
  <2> HIDE DEF k
  <2> QED
    BY <2>1, EntryDeleted, EntriesSame DEF ObjectsStep
<1>5. ASSUME NEW h \in Handles, NEW oid \in Names,
             Close(h) \/ WriteStart(h) \/ Open(h, oid) \/ CreateStart(h, oid)
      PROVE  ObjectsStep
  <2>1. dir' = dir
    BY <1>5 DEF Close, WriteStart, Open, CreateStart
  <2> QED
    BY <2>1, EntriesSame DEF ObjectsStep
<1>6. ASSUME NEW i \in Iters, OpenDir(i) \/ ReadDir(i) \/ CloseDir(i) PROVE ObjectsStep
  <2>1. dir' = dir
    BY <1>6 DEF OpenDir, ReadDir, CloseDir
  <2> QED
    BY <2>1, EntriesSame DEF ObjectsStep
<1>7. ASSUME \/ CreateSync \/ CreateUnlink \/ CreateFails \/ WriteSync \/ WriteFails
             \/ RemoveUnlink \/ PowerLoss \/ UNCHANGED vars
      PROVE  ObjectsStep
  <2>1. dir' = dir
    BY <1>7 DEF CreateSync, CreateUnlink, CreateFails, CreateError, WriteSync, WriteFails,
                RemoveUnlink, PowerLoss, vars
  <2> QED
    BY <2>1, EntriesSame DEF ObjectsStep
<1>8. ASSUME NEW h \in Handles, Close(h) \/ WriteStart(h) PROVE ObjectsStep
  <2>1. dir' = dir
    BY <1>8 DEF Close, WriteStart
  <2> QED
    BY <2>1, EntriesSame DEF ObjectsStep
<1> QED
  BY <1>1, <1>2, <1>3, <1>4, <1>5, <1>6, <1>7, <1>8 DEF Next

\* The file system implements the store of objects: creating, writing, renaming and
\* removing an object each take effect at the commit of the directory, whichever RPC
\* fails and whenever the power is lost, and change no other object.
THEOREM ObjectsAtomic ==
    ASSUME Modes \subseteq {"io"}
    PROVE  Spec => ImplementsObjectStore
<1>1. Init => Objects!Init
  <2> SUFFICES ASSUME Init PROVE Objects!Init
    OBVIOUS
  <2>1. \A oid \in Names : Find(dir, oid) = {}
    BY DEF Init, NoEnts, Find
  <2> QED
    BY <2>1 DEF Objects!Init, Object
<1>2. ASSUME Inv, Inv', [Next]_vars
      PROVE  [Objects!Put \/ Objects!Move \/ Objects!Delete]_Store
  BY <1>2, StepRefines DEF ObjectsStep
<1>3. Init => Inv
  BY InitInv
<1>4. Inv /\ [Next]_vars => Inv'
  BY NextInv
<1> QED
  BY <1>1, <1>2, <1>3, <1>4, PTL DEF Spec, ImplementsObjectStore, Objects!Spec, Store
=============================================================================
