------------------------------ MODULE HashTree ------------------------------
(***************************************************************************)
(* A file of the secure storage (tee/fs_htree.c) and the operations of     *)
(* tee/tee_ree_fs.c that update it.                                        *)
(*                                                                         *)
(* Normal world stores two versions of the header, of every node of the    *)
(* hash tree and of every data block.  Every write to storage is a step,   *)
(* after which the power may be lost or the next RPC may fail.  A hash is  *)
(* what it is computed from, and the tag of a block, which is encrypted    *)
(* with a fresh vector, is the number of the write.  Node n stands for     *)
(* block n - 1 and is node n of the heap ordered tree.  Files are shorter  *)
(* than the 31 blocks whose nodes share a physical block, which cutting    *)
(* the file never reaches.                                                 *)
(***************************************************************************)
EXTENDS Integers, SequencesExt

CONSTANTS
    MaxBlocks,   \* the length of files
    MaxWrites,   \* bound: the number of block writes
    MaxCounter,  \* bound: the counter of the header
    CutBy,       \* by how many blocks a file is truncated ...
    CutNodesMax, \* ... and how many nodes its tree may have then
    Faults,      \* "create": power loss during creation; "commit", "truncate":
                 \* the directory or the RPC that cuts the file fails;
                 \* "retry": the handle is used on after such an error
    NONE

Ids == 1..MaxBlocks
Stamps == 0..MaxWrites      \* 0: a block that was not written
Version == 0..1

VARIABLES
    kind,     \* "object", whose root hash the directory keeps, or "directory"
    head,     \* htree_image, by version
    node,     \* htree_node_image, by node and version
    block,    \* the data blocks, by node and version
    exists,   \* normal world has the file
    ref,      \* the hash of the root that the directory keeps
    ht,       \* the tree in memory
    pc,       \* what the user of the tree is doing
    clock     \* the number of the last write of a block

storage == <<head, node, block>>
vars == <<kind, head, node, block, exists, ref, ht, pc, clock>>

ByHash == kind = "object"

Image(nd) == [hash |-> nd.hash, tag |-> nd.tag, blk |-> nd.blk, ch |-> nd.ch]

\* A node that get_node() has just allocated.
NewNode == [hash |-> NONE, tag |-> 0, blk |-> 0, ch |-> [v \in Version |-> 0],
            dirty |-> FALSE, updated |-> FALSE]

Loaded(img) ==
    [hash |-> img.hash, tag |-> img.tag, blk |-> img.blk, ch |-> img.ch,
     dirty |-> FALSE, updated |-> FALSE]

TypeOK ==
    /\ kind \in {"object", "directory"}
    /\ \A v \in Version : head[v] # NONE => head[v].counter % 2 = v
    /\ \A n \in Ids, v \in Version : node[n][v] # NONE => node[n][v].tag \in Stamps
    /\ block \in [Ids -> [Version -> Stamps]]
    /\ ht # NONE =>
         /\ Len(ht.node) \in Ids /\ ht.len \in 0..MaxBlocks
         /\ \A n \in DOMAIN ht.node : ht.node[n].updated => ht.node[n].dirty
    /\ pc \in {"closed", "open", "writing", "sync", "head", "dummy", "commit"}
    /\ clock \in Stamps
    /\ pc = "closed" <=> ht = NONE

Init ==
    /\ kind \in {"object", "directory"}
    /\ head = [v \in Version |-> NONE]
    /\ node = [n \in Ids |-> [v \in Version |-> NONE]]
    /\ block = [n \in Ids |-> [v \in Version |-> 0]]
    /\ exists = FALSE
    /\ ref = NONE
    /\ ht = NONE
    /\ pc = "closed"
    /\ clock = 0

-----------------------------------------------------------------------------
(* Hashes.                                                                 *)

\* calc_node_hash(): the image, the meta data for the root, and the hashes of the
\* children that are in the tree.
Hash(t, n) ==
    [tag |-> t.node[n].tag, blk |-> t.node[n].blk, ch |-> t.node[n].ch,
     len |-> IF n = 1 THEN t.len ELSE 0,
     kids |-> [i \in {k \in {2 * n, 2 * n + 1} : k <= Len(t.node)} |-> t.node[i].hash]]

\* The order of htree_traverse_post_order().
PostOrder ==
    LET walk[n \in 1..(2 * MaxBlocks + 1)] ==
            IF n > MaxBlocks THEN <<>> ELSE walk[2 * n] \o walk[2 * n + 1] \o <<n>>
    IN  walk[1]

-----------------------------------------------------------------------------
(* Opening.                                                                *)

Counter(v) == IF head[v] = NONE THEN 0 ELSE head[v].counter

\* get_idx_from_counter(): the version of the header that counts most, if its
\* parity is right.
IdxFromCounter ==
    LET even0 == Counter(0) % 2 = 0
        even1 == Counter(1) % 2 = 0
    IN  IF even0 /\ (even1 \/ Counter(0) > Counter(1)) THEN {0}
        ELSE IF even0 \/ ~even1 THEN {1} ELSE {}

\* Mutant: the version of the root that is newest, whatever the hash.
HeadVersionNewest == IdxFromCounter

\* init_head_from_data(): the first version whose root has the hash, or the one
\* that the headers tell.
HeadVersion ==
    IF ByHash
    THEN LET found == {v \in Version : node[1][v] # NONE /\ node[1][v].hash = ref}
         IN  {v \in found : \A w \in found : v <= w}
    ELSE IdxFromCounter

\* init_tree_from_data(): every node in the version that its parent tells.
Images(v, max) ==
    LET img[n \in 1..max] ==
            IF n = 1 THEN node[1][v]
            ELSE IF img[n \div 2] = NONE THEN NONE
            ELSE node[n][img[n \div 2].ch[n % 2]]
    IN  img

\* verify_tree().
Verified(t) == \A n \in DOMAIN t.node : t.node[n].hash = Hash(t, n)

Tree(v) ==
    LET img == Images(v, head[v].max)
    IN  [node |-> [n \in 1..head[v].max |-> Loaded(img[n])], len |-> head[v].len,
         counter |-> head[v].counter, dirty |-> FALSE, creating |-> FALSE]

\* verify_root() authenticates the header together with the hash of the root.
Intact(v) ==
    /\ head[v] # NONE /\ node[1][v] # NONE
    /\ head[v].auth = node[1][v].hash
    /\ NONE \notin Range(Images(v, head[v].max))
    /\ Verified(Tree(v))

\* What tee_fs_htree_open() reads: one tree, or none if it is not intact.
LoadTree == {Tree(v) : v \in {w \in HeadVersion : Intact(w)}}

Open ==
    /\ pc = "closed" /\ exists
    /\ IF LoadTree = {} THEN UNCHANGED <<ht, pc>>
       ELSE pc' = "open" /\ ht' \in LoadTree
    /\ UNCHANGED <<head, node, block, exists, ref, clock>>

\* tee_fs_htree_open() with create: OPTEE_RPC_FS_CREATE makes an empty file and
\* the root is written out.
Create ==
    /\ pc = "closed"
    /\ IF ByHash THEN ref = NONE ELSE ~exists
    /\ exists' = TRUE
    /\ head' = [v \in Version |-> NONE]
    /\ node' = [n \in Ids |-> [v \in Version |-> NONE]]
    /\ block' = [n \in Ids |-> [v \in Version |-> 0]]
    /\ ht' = [node |-> <<[NewNode EXCEPT !.dirty = TRUE]>>, len |-> 0, counter |-> 0,
              dirty |-> TRUE, creating |-> TRUE]
    /\ pc' = "sync"
    /\ UNCHANGED <<ref, clock>>

-----------------------------------------------------------------------------
(* Updating.                                                               *)

Readable(t, n) ==
    n \in DOMAIN t.node /\ t.node[n].tag # 0 /\ block[n][t.node[n].blk] = t.node[n].tag

\* tee_fs_htree_close() and, after an error, the end of the handle's tree.
Closed == ht' = NONE /\ pc' = "closed"

\* The version that tee_fs_htree_write_block() writes.
BlockVersion(nd) == IF nd.updated THEN nd.blk ELSE 1 - nd.blk

\* out_of_place_write() of one block, which is read first if it is in the file.
\* Other blocks of the same call may follow.
Write(n) ==
    /\ pc \in {"open", "writing"} /\ clock < MaxWrites
    /\ n <= ht.len + 1
    /\ IF n <= ht.len /\ ~Readable(ht, n)
       THEN Closed /\ UNCHANGED <<block, clock>>
       ELSE LET old == IF n \in DOMAIN ht.node THEN ht.node[n] ELSE NewNode
                v == BlockVersion(old)
                new == [old EXCEPT !.blk = v, !.tag = clock + 1, !.updated = TRUE, !.dirty = TRUE]
                nodes == IF n \in DOMAIN ht.node THEN [ht.node EXCEPT ![n] = new]
                         ELSE Append(ht.node, new)
                longer == n > ht.len
            IN  /\ block' = [block EXCEPT ![n][v] = clock + 1]
                /\ clock' = clock + 1
                /\ ht' = [ht EXCEPT !.node = [nodes EXCEPT ![1].dirty = @ \/ longer],
                                    !.len = IF longer THEN n ELSE @, !.dirty = TRUE]
                /\ pc' = "writing"
    /\ UNCHANGED <<head, node, exists, ref>>

\* tee_fs_htree_truncate(): removes nodes from the tree in memory.
CutNodes(t, len) ==
    LET kept == IF Len(t.node) > len + 1 THEN len + 1 ELSE Len(t.node)
    IN  [t EXCEPT !.node = SubSeq(@, 1, kept), !.dirty = @ \/ kept < Len(t.node)]

\* ree_fs_truncate() of a file that becomes no longer: ree_fs_ftruncate_internal()
\* cuts the file, and the tree is written out.  The directory is never cut.
Truncate(by) ==
    /\ ByHash /\ pc = "open"
    /\ by <= ht.len /\ Len(ht.node) <= CutNodesMax /\ ht.counter < MaxCounter
    /\ pc' = "sync"
    /\ LET len == ht.len - by
       IN  /\ block' = [n \in Ids |-> IF n > len + 1 THEN [v \in Version |-> 0] ELSE block[n]]
           /\ ht' = [CutNodes(ht, len) EXCEPT !.len = len, !.dirty = TRUE,
                                              !.node[1].dirty = TRUE]
    /\ UNCHANGED <<head, node, exists, ref, clock>>

\* The RPC that cuts the file fails: the function returns and leaves the tree.
TruncateFails(by) ==
    /\ ByHash /\ "truncate" \in Faults
    /\ pc = "open" /\ by <= ht.len
    /\ IF "retry" \in Faults THEN ht' = CutNodes(ht, ht.len - by) /\ pc' = pc ELSE Closed
    /\ UNCHANGED <<head, node, block, exists, ref, clock>>

-----------------------------------------------------------------------------
(* tee_fs_htree_sync_to_storage().                                         *)

Sync ==
    /\ pc = "writing"
    /\ ht.counter < MaxCounter
    /\ pc' = IF ht.dirty THEN "sync" ELSE "commit"
    /\ UNCHANGED <<head, node, block, exists, ref, ht, clock>>

\* The node that the traversal comes to next.
NextDirty ==
    LET dirty == {i \in DOMAIN PostOrder :
                    PostOrder[i] \in DOMAIN ht.node /\ ht.node[PostOrder[i]].dirty}
    IN  PostOrder[CHOOSE i \in dirty : \A j \in dirty : i <= j]

\* Mutant: a node is written over the version that is committed.
NodeVersionInPlace(n) ==
    IF n = 1 THEN 1 - (ht.counter % 2) ELSE ht.node[n \div 2].ch[n % 2]

\* The version of node n that htree_sync_node_to_storage() writes.
NodeVersion(n) ==
    IF n = 1 THEN 1 - (ht.counter % 2) ELSE 1 - ht.node[n \div 2].ch[n % 2]

\* htree_sync_node_to_storage().
SyncNode ==
    /\ pc = "sync"
    /\ LET n == NextDirty
           v == NodeVersion(n)
           up == IF n = 1 THEN ht
                 ELSE [ht EXCEPT !.node[n \div 2].ch[n % 2] = v,
                                 !.node[n \div 2].dirty = TRUE]
           t == [up EXCEPT !.node[n].hash = Hash(up, n), !.node[n].dirty = FALSE,
                           !.node[n].updated = FALSE]
       IN  /\ ht' = t
           /\ node' = [node EXCEPT ![n][v] = Image(t.node[n])]
           /\ pc' = IF n = 1 THEN "head" ELSE pc
    /\ UNCHANGED <<head, block, exists, ref, clock>>

\* update_root() and rpc_write_head().
WriteHead ==
    /\ pc = "head"
    /\ head' = [head EXCEPT ![(ht.counter + 1) % 2] =
                  [counter |-> ht.counter + 1, len |-> ht.len, max |-> Len(ht.node),
                   auth |-> ht.node[1].hash]]
    /\ ht' = [ht EXCEPT !.counter = @ + 1, !.dirty = FALSE]
    /\ pc' = IF ht.creating THEN "dummy" ELSE IF ByHash THEN "commit" ELSE "open"
    /\ UNCHANGED <<node, block, exists, ref, clock>>

\* The empty header of a new file reads as the hole that was there.
WriteDummyHead ==
    /\ pc = "dummy"
    /\ head' = [head EXCEPT ![0] = NONE]
    /\ ht' = [ht EXCEPT !.creating = FALSE]
    /\ pc' = IF ByHash THEN "writing" ELSE "open"
    /\ UNCHANGED <<node, block, exists, ref, clock>>

\* The directory, which is a file whose updates are atomic, gets the hash.
CommitHash ==
    /\ pc = "commit"
    /\ ref' = ht.node[1].hash
    /\ pc' = "open"
    /\ UNCHANGED <<head, node, block, exists, ht, clock>>

\* The directory cannot be written; the handle of the file stays valid.
CommitFails ==
    /\ "commit" \in Faults
    /\ pc = "commit"
    /\ IF "retry" \in Faults THEN pc' = "open" /\ ht' = ht ELSE Closed
    /\ UNCHANGED <<head, node, block, exists, ref, clock>>

\* The handle is closed, an RPC fails, or the power is lost.
Lose ==
    /\ pc # "closed"
    /\ ByHash \/ "create" \in Faults \/ ~ht.creating
    /\ Closed
    /\ UNCHANGED <<head, node, block, exists, ref, clock>>

Next ==
    /\ UNCHANGED kind
    /\ \/ Open \/ Create
       \/ \E n \in Ids : Write(n)
       \/ \E by \in CutBy : Truncate(by)
       \/ \E by \in Ids : TruncateFails(by)
       \/ Sync \/ SyncNode \/ WriteHead \/ WriteDummyHead \/ CommitHash \/ CommitFails
       \/ Lose

Spec == Init /\ [][Next]_vars

-----------------------------------------------------------------------------
Content(t) == [n \in 1..t.len |-> IF Readable(t, n) THEN t.node[n].tag ELSE NONE]

\* The storage of normal world and the tree in memory are a file whose updates are
\* atomic (fs_htree.h:10): opening it after a power loss at any step of an update,
\* or of the recovery from another one, gives what was committed last.
File == INSTANCE AtomicFile WITH
    Values <- Stamps \ {0},
    disk <- LET committed == {Content(t) : t \in LoadTree}
            IN  IF committed = {} THEN NONE ELSE CHOOSE c \in committed : TRUE,
    work <- IF ht = NONE THEN NONE ELSE Content(ht)

ImplementsAtomicFile == File!Spec

\* A file that has been committed can be opened and all its blocks read, whatever
\* step of an update was the last.
Recoverable ==
    (IF ByHash THEN ref # NONE ELSE exists /\ (ht = NONE \/ ~ht.creating)) =>
        \E t \in LoadTree : \A n \in 1..t.len : Readable(t, n)
=============================================================================
