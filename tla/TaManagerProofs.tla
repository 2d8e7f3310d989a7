-------------------------- MODULE TaManagerProofs ---------------------------
(***************************************************************************)
(* Proofs about the sessions of TaManager, for any number of threads,      *)
(* sessions, contexts and TAs, TAs that call each other and panic          *)
(* included; and, as long as no TA panics, about their contexts.           *)
(***************************************************************************)
EXTENDS TaManager, ListLemmas, FiniteSetTheorems, TLAPS

\* The places of the calls in the stacks S, those with a call in the set F, and
\* their number.
Places(S) == UNION {{<<t, i>> : i \in DOMAIN S[t]} : t \in Threads}
PlacesOf(S, F) == {x \in Places(S) : S[x[1]][x[2]] \in F}
Cnt(S, F) == Cardinality(PlacesOf(S, F))

\* The same for one stack, and for one call.
SeqPlaces(q, F) == {i \in DOMAIN q : q[i] \in F}
SeqCnt(q, F) == Cardinality(SeqPlaces(q, F))
Ind(f, F) == IF f \in F THEN 1 ELSE 0

Stacks == {S \in [Threads -> Seq(Call)] : IsFiniteSet(Places(S))}

-----------------------------------------------------------------------------
(* The inductive invariant.                                                *)

\* Calls that own a reference of s, that have s locked, and that open s.
Owned(s) == {f \in Call : OwnsSession(f, s)}
Locking(s) == {f \in Owned(s) : f.op \in {"invoke", "close"} /\ f.pc # "lock"}
Opening(s) == {f \in Owned(s) : f.op = "open"}

Data ==
    /\ sess \in [Sessions -> Session \cup {NULL}]
    /\ heads \in [Heads -> Seq(Sessions)]
    /\ ctxes \in Seq(Ctxs)

SessTypes == Data /\ stack \in Stacks

\* Every session is in one list, once.
ListsOK ==
    /\ \A h \in Heads : NoDuplicates(heads[h])
    /\ \A g, h \in Heads : g # h => Range(heads[g]) \cap Range(heads[h]) = {}
    /\ \A s \in Sessions : sess[s] # NULL <=> \E h \in Heads : s \in Range(heads[h])

\* What each kind of call goes through.
Shape(f) ==
    /\ f.op = "open" =>
          f.pc \in {"load", "loading", "fail", "init", "opened", "dead", "origin",
                    "setbusy", "enter", "run", "clear", "put"}
    /\ f.op = "invoke" =>
          f.pc \in {"lock", "begin", "setbusy", "enter", "run", "clear", "after",
                    "put", "destroyctx", "destroy"}
    /\ f.op = "close" =>
          f.pc \in {"get", "lock", "begin", "setbusy", "enter", "run", "unlink",
                    "refc", "clear", "release", "destroy"}
    /\ f.op = "cancel" => f.pc = "cancel"
    /\ (f.pc = "destroy" \/ (f.op = "close" /\ f.pc \in {"clear", "release"})) => f.c # NULL

\* A call f of thread t: the session that it owns a reference of is in its list,
\* and the session that it works in is locked by t.
CallOK(t, f) ==
    /\ f.s \in Sessions
    /\ Shape(f)
    /\ f \in Owned(f.s) => sess[f.s] # NULL /\ f.s \in Range(heads[f.h])
    /\ f \in Locking(f.s) => sess[f.s].lock = t

CallsOK == \A t \in Threads : \A f \in Range(stack[t]) : CallOK(t, f)

\* A cancellation calls nobody, and no call outside of an open owns the session
\* that is opened.
Nested(q) ==
    \A i, j \in DOMAIN q : i < j =>
        /\ q[i].op # "cancel"
        /\ q[i] \in Opening(q[i].s) => q[j] \notin Owned(q[i].s)

NestedOK == \A t \in Threads : Nested(stack[t])

\* A session has at least the references that calls own, and its lock is owned.
CountOK(s) ==
    /\ Cnt(stack, Owned(s)) <= IF sess[s] = NULL THEN 0 ELSE sess[s].ref
    /\ Cnt(stack, Locking(s)) =
          IF sess[s] = NULL THEN 0 ELSE IF sess[s].lock = NULL THEN 0 ELSE 1
    /\ Cnt(stack, Opening(s)) <= 1

CountsOK == \A s \in Sessions : CountOK(s)

SInv ==
    /\ SessTypes /\ ListsOK /\ CallsOK /\ NestedOK /\ CountsOK
    /\ IdsNameSessions

-----------------------------------------------------------------------------
(* Counting calls.                                                         *)

\* A stack has finitely many calls of any kind.
LEMMA SeqCntType ==
    ASSUME NEW q \in Seq(Call), NEW F
    PROVE  IsFiniteSet(SeqPlaces(q, F)) /\ SeqCnt(q, F) \in Nat
<1>1. IsFiniteSet(1..Len(q))
  BY FS_Interval, 1 \in Int, Len(q) \in Int
<1>2. SeqPlaces(q, F) \in SUBSET (1..Len(q))
  BY DEF SeqPlaces
<1>3. IsFiniteSet(SeqPlaces(q, F))
  BY <1>1, <1>2, FS_Subset
<1> QED
  BY <1>3, FS_CardinalityType DEF SeqCnt

\* A call more.
LEMMA SeqCntPush ==
    ASSUME NEW q \in Seq(Call), NEW g \in Call, NEW F
    PROVE  SeqCnt(<<g>> \o q, F) = SeqCnt(q, F) + Ind(g, F)
<1> DEFINE r == <<g>> \o q
           A == SeqPlaces(q, F)
           B == {i \in 2..(Len(q) + 1) : r[i] \in F}
           m == [i \in A |-> i + 1]
<1>1. /\ r \in Seq(Call) /\ Len(q) \in Nat
      /\ DOMAIN r = 1..(Len(q) + 1) /\ DOMAIN q = 1..Len(q)
      /\ r[1] = g
      /\ \A i \in 1..Len(q) : r[i + 1] = q[i]
  OBVIOUS
<1> HIDE DEF r
<1>2. IsFiniteSet(A)
  BY SeqCntType
<1>3. m \in Bijection(A, B)
  <2>1. A \subseteq 1..Len(q) /\ \A i \in A : q[i] \in F
    BY <1>1 DEF SeqPlaces
  <2>2. m \in [A -> B]
    <3> SUFFICES ASSUME NEW i \in A PROVE i + 1 \in B
      OBVIOUS
    <3>1. i \in 1..Len(q) /\ q[i] \in F
      BY <2>1
    <3> QED
      BY <3>1, <1>1
  <2>3. ASSUME NEW i \in A, NEW j \in A, m[i] = m[j] PROVE i = j
    <3>1. i + 1 = j + 1 /\ i \in Int /\ j \in Int
      BY <2>3, <2>1
    <3> QED
      BY <3>1
  <2>4. ASSUME NEW b \in B PROVE \E i \in A : m[i] = b
    <3>1. b \in 2..(Len(q) + 1) /\ r[b] \in F
      OBVIOUS
    <3>2. b - 1 \in 1..Len(q) /\ (b - 1) + 1 = b
      BY <3>1, <1>1
    <3>3. q[b - 1] \in F
      BY <3>1, <3>2, <1>1
    <3>4. b - 1 \in A
      BY <3>2, <3>3, <1>1 DEF SeqPlaces
    <3> QED
      BY <3>2, <3>4
  <2> HIDE DEF m, A, B
  <2>5. m \in Injection(A, B)
    BY <2>2, <2>3 DEF Injection, IsInjective
  <2>6. m \in Surjection(A, B)
    BY <2>2, <2>4 DEF Surjection
  <2> QED
    BY <2>5, <2>6 DEF Bijection
<1>4. IsFiniteSet(B) /\ Cardinality(B) = SeqCnt(q, F) /\ SeqCnt(q, F) \in Nat
  <2> HIDE DEF m, B
  <2>1. ExistsBijection(A, B)
    BY <1>3 DEF ExistsBijection
  <2>2. IsFiniteSet(B) /\ Cardinality(B) = Cardinality(A)
    BY <1>2, <2>1, FS_Bijection
  <2> QED
    BY <2>2, SeqCntType DEF SeqCnt
<1>5. CASE g \in F
  <2>1. SeqPlaces(r, F) = B \cup {1} /\ 1 \notin B
    BY <1>1, <1>5 DEF SeqPlaces
  <2>2. Cardinality(B \cup {1}) = Cardinality(B) + 1
    BY <2>1, <1>4, FS_AddElement
  <2> HIDE DEF B
  <2> QED
    BY <2>1, <2>2, <1>4, <1>5 DEF SeqCnt, Ind, r
<1>6. CASE g \notin F
  <2>1. SeqPlaces(r, F) = B
    BY <1>1, <1>6 DEF SeqPlaces
  <2> HIDE DEF B
  <2> QED
    BY <2>1, <1>4, <1>6 DEF SeqCnt, Ind, r
<1> QED
  BY <1>5, <1>6

\* A stack is its innermost call and the rest.
LEMMA SeqSplit ==
    ASSUME NEW q \in Seq(Call), q # <<>>
    PROVE  /\ Head(q) \in Call /\ Tail(q) \in Seq(Call)
           /\ q = <<Head(q)>> \o Tail(q)
           /\ Range(q) = Range(Tail(q)) \cup {Head(q)}
           /\ Len(q) \in Nat \ {0} /\ q[1] = Head(q)
           /\ \A F : SeqCnt(q, F) = SeqCnt(Tail(q), F) + Ind(Head(q), F)
<1>1. Head(q) \in Call /\ Tail(q) \in Seq(Call)
  OBVIOUS
<1>2. q = <<Head(q)>> \o Tail(q)
  <2>1. /\ Len(q) \in Nat \ {0}
        /\ Len(<<Head(q)>> \o Tail(q)) = Len(q)
        /\ <<Head(q)>> \o Tail(q) \in Seq(Call)
    OBVIOUS
  <2>2. ASSUME NEW i \in 1..Len(q)
        PROVE  (<<Head(q)>> \o Tail(q))[i] = q[i]
    BY <2>1
  <2> QED
    BY <2>1, <2>2, SeqEqual
<1>3. Range(q) = Range(Tail(q)) \cup {Head(q)}
  <2>1. ASSUME NEW b \in Seq(Call), NEW a \in Call, NEW r, r = <<a>> \o b
        PROVE  Range(r) = Range(b) \cup {a}
    BY <2>1, PrependElement
  <2> QED
    BY <2>1, <1>1, <1>2
<1>4. \A F : SeqCnt(q, F) = SeqCnt(Tail(q), F) + Ind(Head(q), F)
  BY <1>1, <1>2, SeqCntPush
<1> QED
  BY <1>1, <1>2, <1>3, <1>4

\* The calls of all threads are those of t and those of the others.
LEMMA CntSplit ==
    ASSUME NEW S \in Stacks, NEW t \in Threads, NEW F
    PROVE  LET O == {x \in PlacesOf(S, F) : x[1] # t}
           IN  /\ IsFiniteSet(O) /\ Cardinality(O) \in Nat
               /\ IsFiniteSet(PlacesOf(S, F)) /\ Cnt(S, F) \in Nat
               /\ Cnt(S, F) = Cardinality(O) + SeqCnt(S[t], F)
<1> DEFINE O == {x \in PlacesOf(S, F) : x[1] # t}
           A == SeqPlaces(S[t], F)
           B == {x \in PlacesOf(S, F) : x[1] = t}
           m == [i \in A |-> <<t, i>>]
<1>1. S \in [Threads -> Seq(Call)] /\ IsFiniteSet(Places(S)) /\ S[t] \in Seq(Call)
  BY DEF Stacks
<1>2. PlacesOf(S, F) \in SUBSET Places(S)
  BY DEF PlacesOf
<1>3. IsFiniteSet(PlacesOf(S, F))
  BY <1>1, <1>2, FS_Subset
<1>4. O \in SUBSET PlacesOf(S, F) /\ B \in SUBSET PlacesOf(S, F)
  OBVIOUS
<1>5. IsFiniteSet(O) /\ IsFiniteSet(B)
  BY <1>3, <1>4, FS_Subset
<1>6. O \cup B = PlacesOf(S, F) /\ O \cap B = {}
  OBVIOUS
<1>7. m \in Bijection(A, B)
  <2>1. \A i : i \in A <=> <<t, i>> \in B
    BY DEF SeqPlaces, PlacesOf, Places
  <2>2. \A x \in B : \E i : x = <<t, i>>
    BY DEF PlacesOf, Places
  <2>3. m \in [A -> B]
    BY <2>1
  <2>4. \A i, j \in A : m[i] = m[j] => i = j
    OBVIOUS
  <2>5. \A x \in B : \E i \in A : m[i] = x
    BY <2>1, <2>2
  <2> HIDE DEF m, A, B
  <2> QED
    BY <2>3, <2>4, <2>5 DEF Bijection, Injection, Surjection, IsInjective
<1>8. Cardinality(B) = SeqCnt(S[t], F) /\ SeqCnt(S[t], F) \in Nat
  <2> HIDE DEF m, B
  <2>1. ExistsBijection(A, B)
    BY <1>7 DEF ExistsBijection
  <2>2. Cardinality(B) = Cardinality(A)
    BY <2>1, <1>1, SeqCntType, FS_Bijection
  <2> QED
    BY <2>2, <1>1, SeqCntType DEF SeqCnt
<1>9. Cardinality(O) \in Nat /\ Cnt(S, F) \in Nat
  BY <1>3, <1>5, FS_CardinalityType DEF Cnt
<1>10. Cardinality(O \cup B) = Cardinality(O) + Cardinality(B) - Cardinality(O \cap B)
  BY <1>5, FS_Union
<1> HIDE DEF O, B, A, m
<1>11. Cardinality(O \cap B) = 0
  BY <1>6, FS_EmptySet
<1>12. Cnt(S, F) = Cardinality(O) + SeqCnt(S[t], F)
  <2>1. Cnt(S, F) = Cardinality(O \cup B)
    BY <1>6 DEF Cnt
  <2> QED
    BY <2>1, <1>8, <1>9, <1>10, <1>11
<1> QED
  BY <1>3, <1>5, <1>9, <1>12 DEF O

\* The stack of one thread changes.
LEMMA CntChange ==
    ASSUME NEW S \in Stacks, NEW t \in Threads, NEW q \in Seq(Call)
    PROVE  LET R == [S EXCEPT ![t] = q]
           IN  /\ R \in Stacks
               /\ \A F : Cnt(R, F) = Cnt(S, F) - SeqCnt(S[t], F) + SeqCnt(q, F)
<1> DEFINE R == [S EXCEPT ![t] = q]
           P == {x \in Places(S) : x[1] # t}
           Q == {<<t, i>> : i \in DOMAIN q}
           m == [i \in DOMAIN q |-> <<t, i>>]
<1>1. S \in [Threads -> Seq(Call)] /\ IsFiniteSet(Places(S))
  BY DEF Stacks
<1>2. R \in [Threads -> Seq(Call)] /\ R[t] = q /\ \A u \in Threads : u # t => R[u] = S[u]
  BY <1>1
<1> HIDE DEF R
<1>3. IsFiniteSet(P)
  <2>1. P \in SUBSET Places(S)
    OBVIOUS
  <2> QED
    BY <1>1, <2>1, FS_Subset
<1>4. IsFiniteSet(Q)
  <2>1. IsFiniteSet(DOMAIN q)
    BY FS_Interval, 1 \in Int, Len(q) \in Int, DOMAIN q = 1..Len(q)
  <2>2. m \in Surjection(DOMAIN q, Q)
    BY DEF Surjection
  <2> HIDE DEF m, Q
  <2> QED
    BY <2>1, <2>2, FS_Surjection
<1>5. Places(R) = P \cup Q
  <2>1. \A x : x \in Places(R) <=> \E u \in Threads : \E i \in DOMAIN R[u] : x = <<u, i>>
    BY DEF Places
  <2>2. \A x : x \in Places(S) <=> \E u \in Threads : \E i \in DOMAIN S[u] : x = <<u, i>>
    BY DEF Places
  <2>3. ASSUME NEW x \in Places(R) PROVE x \in P \cup Q
    <3>1. PICK u \in Threads : \E i \in DOMAIN R[u] : x = <<u, i>>
      BY <2>1
    <3>2. CASE u = t
      BY <3>1, <3>2, <1>2
    <3>3. CASE u # t
      BY <3>1, <3>3, <1>2, <2>2
    <3> QED
      BY <3>2, <3>3
  <2>4. ASSUME NEW x \in P PROVE x \in Places(R)
    <3>1. PICK u \in Threads : \E i \in DOMAIN S[u] : x = <<u, i>>
      BY <2>2
    <3>2. u # t
      BY <3>1
    <3> QED
      BY <3>1, <3>2, <1>2, <2>1
  <2>5. ASSUME NEW x \in Q PROVE x \in Places(R)
    BY <1>2, <2>1
  <2> QED
    BY <2>3, <2>4, <2>5
<1>6. R \in Stacks
  <2> HIDE DEF P, Q
  <2>1. IsFiniteSet(P \cup Q)
    BY <1>3, <1>4, FS_Union
  <2> QED
    BY <2>1, <1>2, <1>5 DEF Stacks
<1>7. ASSUME NEW F
      PROVE  Cnt(R, F) = Cnt(S, F) - SeqCnt(S[t], F) + SeqCnt(q, F)
  <2> DEFINE OR == {x \in PlacesOf(R, F) : x[1] # t}
             OS == {x \in PlacesOf(S, F) : x[1] # t}
  <2>1. OR = OS
    <3>1. \A x \in P : R[x[1]][x[2]] = S[x[1]][x[2]]
      <4> SUFFICES ASSUME NEW x \in P PROVE R[x[1]][x[2]] = S[x[1]][x[2]]
        OBVIOUS
      <4>1. PICK u \in Threads : \E i \in DOMAIN S[u] : x = <<u, i>>
        BY DEF Places
      <4> QED
        BY <4>1, <1>2
    <3>2. \A x \in Q : x[1] = t
      OBVIOUS
    <3>3. OR = {x \in P : R[x[1]][x[2]] \in F}
      BY <1>5, <3>2 DEF PlacesOf
    <3>4. OS = {x \in P : S[x[1]][x[2]] \in F}
      BY DEF PlacesOf
    <3> HIDE DEF OR, OS, P
    <3> QED
      BY <3>1, <3>3, <3>4
  <2>2. Cnt(R, F) = Cardinality(OR) + SeqCnt(R[t], F)
    BY <1>6, CntSplit
  <2>3. Cnt(S, F) = Cardinality(OS) + SeqCnt(S[t], F) /\ Cardinality(OS) \in Nat
    BY CntSplit
  <2>4. SeqCnt(S[t], F) \in Nat /\ SeqCnt(q, F) \in Nat
    BY <1>1, SeqCntType
  <2> HIDE DEF OR, OS
  <2> QED
    BY <2>1, <2>2, <2>3, <2>4, <1>2
<1> QED
  BY <1>6, <1>7 DEF R

-----------------------------------------------------------------------------
(* The stack of a thread changes.                                          *)

\* The first element of a list and the others.
LEMMA PushedSeq ==
    ASSUME NEW q \in Seq(Call), NEW g \in Call
    PROVE  LET r == <<g>> \o q
           IN  /\ r \in Seq(Call)
               /\ Range(r) = Range(q) \cup {g}
               /\ \A F : SeqCnt(r, F) = SeqCnt(q, F) + Ind(g, F)
               /\ /\ Nested(q)
                  /\ g.op = "cancel" => q = <<>>
                  /\ g \in Opening(g.s) => \A f \in Range(q) : f \notin Owned(g.s)
                  => Nested(r)
<1> DEFINE r == <<g>> \o q
<1>1. /\ r \in Seq(Call) /\ Len(q) \in Nat
      /\ DOMAIN r = 1..(Len(q) + 1) /\ DOMAIN q = 1..Len(q)
      /\ r[1] = g
      /\ \A i \in 1..Len(q) : r[i + 1] = q[i]
  OBVIOUS
<1>2. \A F : SeqCnt(r, F) = SeqCnt(q, F) + Ind(g, F)
  BY SeqCntPush
<1>3. ASSUME NEW p, p = r PROVE Range(p) = Range(q) \cup {g}
  BY <1>3, PrependElement
<1> HIDE DEF r
<1>4. ASSUME Nested(q), g.op = "cancel" => q = <<>>,
             g \in Opening(g.s) => \A f \in Range(q) : f \notin Owned(g.s)
      PROVE  Nested(r)
  <2> SUFFICES ASSUME NEW i \in DOMAIN r, NEW j \in DOMAIN r, i < j
               PROVE  /\ r[i].op # "cancel"
                      /\ r[i] \in Opening(r[i].s) => r[j] \notin Owned(r[i].s)
    BY DEF Nested
  <2>1. /\ i \in 1..(Len(q) + 1) /\ j \in 1..(Len(q) + 1)
        /\ j - 1 \in 1..Len(q) /\ j - 1 \in DOMAIN q
        /\ r[j] = q[j - 1]
    <3>1. j - 1 \in 1..Len(q) /\ (j - 1) + 1 = j
      BY <1>1
    <3>2. r[(j - 1) + 1] = q[j - 1]
      BY <3>1, <1>1
    <3> QED
      BY <3>1, <3>2, <1>1
  <2>2. CASE i = 1
    <3>1. r[i] = g /\ q # <<>> /\ r[j] \in Range(q)
      BY <2>1, <2>2, <1>1 DEF Range
    <3> QED
      BY <3>1, <1>4
  <2>3. CASE i # 1
    <3>1. i - 1 \in 1..Len(q) /\ (i - 1) + 1 = i /\ i - 1 < j - 1
      BY <2>1, <2>3, <1>1
    <3>2. r[i] = q[i - 1] /\ i - 1 \in DOMAIN q
      BY <3>1, <1>1
    <3> QED
      BY <3>1, <3>2, <2>1, <1>4 DEF Nested
  <2> QED
    BY <2>2, <2>3
<1> QED
  BY <1>1, <1>2, <1>3, <1>4 DEF r

\* Without its first element.
LEMMA PoppedSeq ==
    ASSUME NEW q \in Seq(Call), q # <<>>
    PROVE  /\ Nested(q) => Nested(Tail(q))
           /\ Nested(q) /\ Head(q) \in Opening(Head(q).s) =>
                 \A f \in Range(Tail(q)) : f \notin Owned(Head(q).s)
           /\ Nested(q) /\ Head(q).op = "cancel" => Tail(q) = <<>>
<1> DEFINE p == Tail(q)
<1>1. /\ p \in Seq(Call) /\ Len(q) \in Nat \ {0} /\ Len(p) = Len(q) - 1
      /\ DOMAIN q = 1..Len(q) /\ DOMAIN p = 1..(Len(q) - 1)
      /\ \A i \in 1..(Len(q) - 1) : p[i] = q[i + 1]
      /\ q[1] = Head(q)
      /\ Len(p) = 0 => p = <<>>
  OBVIOUS
<1> HIDE DEF p
<1>2. ASSUME NEW i \in DOMAIN p
      PROVE  i + 1 \in DOMAIN q /\ p[i] = q[i + 1] /\ 1 \in DOMAIN q /\ 1 < i + 1
  BY <1>1
<1>3. ASSUME Nested(q) PROVE Nested(p)
  <2> SUFFICES ASSUME NEW i \in DOMAIN p, NEW j \in DOMAIN p, i < j
               PROVE  /\ p[i].op # "cancel"
                      /\ p[i] \in Opening(p[i].s) => p[j] \notin Owned(p[i].s)
    BY DEF Nested
  <2>1. i + 1 < j + 1
    BY <1>1
  <2> QED
    BY <2>1, <1>2, <1>3 DEF Nested
<1>4. ASSUME Nested(q), Head(q) \in Opening(Head(q).s), NEW f \in Range(p)
      PROVE  f \notin Owned(Head(q).s)
  <2>1. PICK i \in DOMAIN p : f = p[i]
    BY DEF Range
  <2> QED
    BY <2>1, <1>1, <1>2, <1>4 DEF Nested
<1>5. ASSUME Nested(q), Head(q).op = "cancel" PROVE p = <<>>
  <2> SUFFICES ASSUME p # <<>> PROVE FALSE
    OBVIOUS
  <2>1. 1 \in DOMAIN p
    BY <1>1
  <2>2. 2 \in DOMAIN q /\ 1 \in DOMAIN q /\ 1 < 2
    BY <2>1, <1>1
  <2> QED
    BY <2>2, <1>1, <1>5 DEF Nested
<1> QED
  BY <1>3, <1>4, <1>5 DEF p

\* What a change of the stack of t to q leaves for the invariant.
Changed(t, q) ==
    /\ stack' = [stack EXCEPT ![t] = q]
    /\ q \in Seq(Call)

\* Only t's calls change, and what is counted.
LEMMA StackChange ==
    ASSUME SInv, NEW t \in Threads, NEW q, Changed(t, q)
    PROVE  /\ stack' \in Stacks
           /\ stack'[t] = q /\ \A u \in Threads : u # t => stack'[u] = stack[u]
           /\ stack[t] \in Seq(Call)
           /\ \A F : /\ Cnt(stack, F) \in Nat /\ Cnt(stack', F) \in Nat
                     /\ SeqCnt(stack[t], F) \in Nat /\ SeqCnt(q, F) \in Nat
                     /\ Cnt(stack', F) = Cnt(stack, F) - SeqCnt(stack[t], F) + SeqCnt(q, F)
           /\ Nested(q) => NestedOK'
<1>1. stack \in Stacks /\ NestedOK
  BY DEF SInv, SessTypes
<1>2. stack \in [Threads -> Seq(Call)] /\ stack[t] \in Seq(Call) /\ q \in Seq(Call)
  BY <1>1 DEF Stacks, Changed
<1> DEFINE R == [stack EXCEPT ![t] = q]
<1>3. R[t] = q /\ \A u \in Threads : u # t => R[u] = stack[u]
  BY <1>2
<1>4. /\ R \in Stacks
      /\ \A F : Cnt(R, F) = Cnt(stack, F) - SeqCnt(stack[t], F) + SeqCnt(q, F)
  BY <1>1, <1>2, CntChange
<1> HIDE DEF R
<1>5. \A F : /\ SeqCnt(stack[t], F) \in Nat /\ SeqCnt(q, F) \in Nat
             /\ Cnt(stack, F) \in Nat /\ Cnt(R, F) \in Nat
  BY <1>1, <1>2, <1>4, SeqCntType, CntSplit
<1>6. stack' = R
  BY DEF Changed, R
<1>7. Nested(q) => NestedOK'
  BY <1>1, <1>3, <1>6 DEF NestedOK
<1> QED
  BY <1>2, <1>3, <1>4, <1>5, <1>6, <1>7

\* The calls of t after the innermost one has become g, was called or returned:
\* G are the new ones.
Frames(t, G) ==
    /\ stack' \in Stacks
    /\ \A u \in Threads : u # t => stack'[u] = stack[u]
    /\ Range(stack'[t]) \subseteq Range(stack[t]) \cup G

\* The innermost call may become g.
Continues(f, g) ==
    /\ g.op = f.op
    /\ g \in Opening(g.s) => g.s = f.s /\ f \in Opening(f.s)

\* A call is counted where it is.
Counts(d(_)) ==
    \A F : /\ Cnt(stack, F) \in Nat /\ Cnt(stack', F) \in Nat
           /\ Cnt(stack', F) = Cnt(stack, F) + d(F)

\* The innermost call of a thread.
LEMMA TopCall ==
    ASSUME SInv, NEW t \in Threads, stack[t] # <<>>
    PROVE  /\ stack[t] \in Seq(Call) /\ Tail(stack[t]) \in Seq(Call)
           /\ Top(t) \in Call /\ Top(t) \in Range(stack[t])
           /\ Range(Tail(stack[t])) \subseteq Range(stack[t])
           /\ Range(stack[t]) = Range(Tail(stack[t])) \cup {Top(t)}
           /\ CallOK(t, Top(t))
<1>1. stack[t] \in Seq(Call)
  BY DEF SInv, SessTypes, Stacks
<1>2. /\ Tail(stack[t]) \in Seq(Call) /\ Top(t) \in Call
      /\ Range(stack[t]) = Range(Tail(stack[t])) \cup {Top(t)}
  BY <1>1, SeqSplit DEF Top
<1>3. Top(t) \in Range(stack[t])
  BY <1>2
<1>4. CallOK(t, Top(t))
  BY <1>3 DEF SInv, CallsOK
<1> QED
  BY <1>1, <1>2, <1>3, <1>4

\* The innermost call becomes g.
LEMMA BecomeFrames ==
    ASSUME SInv, NEW t \in Threads, stack[t] # <<>>, NEW g \in Call,
           stack' = [stack EXCEPT ![t] = <<g>> \o Tail(stack[t])]
    PROVE  /\ Frames(t, {g})
           /\ Counts(LAMBDA F : Ind(g, F) - Ind(Top(t), F))
           /\ Continues(Top(t), g) => NestedOK'
<1> DEFINE p == Tail(stack[t])
           q == <<g>> \o p
<1>1. /\ p \in Seq(Call) /\ stack[t] \in Seq(Call)
      /\ Range(p) \subseteq Range(stack[t])
  BY TopCall
<1>2. \A F : /\ SeqCnt(stack[t], F) = SeqCnt(p, F) + Ind(Top(t), F)
             /\ SeqCnt(p, F) \in Nat /\ Ind(Top(t), F) \in Nat /\ Ind(g, F) \in Nat
  BY <1>1, SeqSplit, SeqCntType DEF Top, Ind
<1>3. /\ Nested(p)
      /\ Top(t) \in Opening(Top(t).s) => \A f \in Range(p) : f \notin Owned(Top(t).s)
      /\ Top(t).op = "cancel" => p = <<>>
  <2>1. Nested(stack[t])
    BY DEF SInv, NestedOK
  <2> QED
    BY <2>1, <1>1, PoppedSeq DEF Top
<1> HIDE DEF p
<1>4. /\ q \in Seq(Call)
      /\ Range(q) = Range(p) \cup {g}
      /\ \A F : SeqCnt(q, F) = SeqCnt(p, F) + Ind(g, F)
      /\ Continues(Top(t), g) => Nested(q)
  BY <1>1, <1>3, PushedSeq DEF Continues
<1>5. Changed(t, q)
  BY <1>4 DEF Changed, p
<1> HIDE DEF q
<1>6. PICK r : r = q
  OBVIOUS
<1>7. Changed(t, r) /\ r \in Seq(Call) /\ Range(r) = Range(p) \cup {g}
      /\ \A F : SeqCnt(r, F) = SeqCnt(p, F) + Ind(g, F)
  BY <1>4, <1>5, <1>6
<1>8. /\ stack' \in Stacks
      /\ stack'[t] = r /\ \A u \in Threads : u # t => stack'[u] = stack[u]
      /\ \A F : /\ Cnt(stack, F) \in Nat /\ Cnt(stack', F) \in Nat
                /\ Cnt(stack', F) = Cnt(stack, F) - SeqCnt(stack[t], F) + SeqCnt(r, F)
      /\ Nested(r) => NestedOK'
  BY <1>7, StackChange
<1>9. Counts(LAMBDA F : Ind(g, F) - Ind(Top(t), F))
  <2> SUFFICES ASSUME NEW F
               PROVE  /\ Cnt(stack, F) \in Nat /\ Cnt(stack', F) \in Nat
                      /\ Cnt(stack', F) = Cnt(stack, F) + (Ind(g, F) - Ind(Top(t), F))
    BY DEF Counts
  <2>1. /\ SeqCnt(stack[t], F) = SeqCnt(p, F) + Ind(Top(t), F)
        /\ SeqCnt(p, F) \in Nat /\ Ind(Top(t), F) \in Nat /\ Ind(g, F) \in Nat
    BY <1>2
  <2>2. SeqCnt(r, F) = SeqCnt(p, F) + Ind(g, F)
    BY <1>7
  <2>3. /\ Cnt(stack, F) \in Nat /\ Cnt(stack', F) \in Nat
        /\ Cnt(stack', F) = Cnt(stack, F) - SeqCnt(stack[t], F) + SeqCnt(r, F)
    BY <1>8
  <2> QED
    BY <2>1, <2>2, <2>3
<1> QED
  BY <1>1, <1>4, <1>6, <1>7, <1>8, <1>9 DEF Frames

\* The innermost call returns.
LEMMA ReturnFrames ==
    ASSUME SInv, NEW t \in Threads, stack[t] # <<>>, Return(t)
    PROVE  /\ Frames(t, {})
           /\ Counts(LAMBDA F : -Ind(Top(t), F))
           /\ NestedOK'
<1> DEFINE p == Tail(stack[t])
<1>1. /\ p \in Seq(Call) /\ stack[t] \in Seq(Call)
      /\ Range(p) \subseteq Range(stack[t])
  BY TopCall
<1>2. \A F : /\ SeqCnt(stack[t], F) = SeqCnt(p, F) + Ind(Top(t), F)
             /\ SeqCnt(p, F) \in Nat /\ Ind(Top(t), F) \in Nat
  BY <1>1, SeqSplit, SeqCntType DEF Top, Ind
<1>3. Nested(p)
  BY <1>1, PoppedSeq DEF SInv, NestedOK
<1>4. Changed(t, p)
  BY <1>1 DEF Changed, Return
<1> HIDE DEF p
<1>5. PICK r : r = p
  OBVIOUS
<1>6. /\ stack' \in Stacks
      /\ stack'[t] = r /\ \A u \in Threads : u # t => stack'[u] = stack[u]
      /\ \A F : /\ Cnt(stack, F) \in Nat /\ Cnt(stack', F) \in Nat
                /\ Cnt(stack', F) = Cnt(stack, F) - SeqCnt(stack[t], F) + SeqCnt(r, F)
      /\ Nested(r) => NestedOK'
  BY <1>4, <1>5, StackChange
<1>7. Counts(LAMBDA F : -Ind(Top(t), F))
  <2> SUFFICES ASSUME NEW F
               PROVE  /\ Cnt(stack, F) \in Nat /\ Cnt(stack', F) \in Nat
                      /\ Cnt(stack', F) = Cnt(stack, F) + (-Ind(Top(t), F))
    BY DEF Counts
  <2> QED
    BY <1>2, <1>5, <1>6
<1> QED
  BY <1>1, <1>3, <1>5, <1>6, <1>7 DEF Frames

\* A new call, of normal world or of a TA.
LEMMA PushFrames ==
    ASSUME SInv, NEW t \in Threads, NEW g \in Call,
           stack' = [stack EXCEPT ![t] = <<g>> \o stack[t]]
    PROVE  /\ Frames(t, {g})
           /\ Counts(LAMBDA F : Ind(g, F))
           /\ /\ g.op = "cancel" => stack[t] = <<>>
              /\ g \in Opening(g.s) => \A f \in Range(stack[t]) : f \notin Owned(g.s)
              => NestedOK'
<1> DEFINE q == <<g>> \o stack[t]
<1>1. stack[t] \in Seq(Call) /\ Nested(stack[t])
  BY DEF SInv, SessTypes, Stacks, NestedOK
<1>2. /\ q \in Seq(Call)
      /\ Range(q) = Range(stack[t]) \cup {g}
      /\ \A F : SeqCnt(q, F) = SeqCnt(stack[t], F) + Ind(g, F)
      /\ /\ g.op = "cancel" => stack[t] = <<>>
         /\ g \in Opening(g.s) => \A f \in Range(stack[t]) : f \notin Owned(g.s)
         => Nested(q)
  BY <1>1, PushedSeq
<1>3. Changed(t, q)
  BY <1>2 DEF Changed
<1> HIDE DEF q
<1>4. PICK r : r = q
  OBVIOUS
<1>5. Changed(t, r) /\ \A F : SeqCnt(r, F) = SeqCnt(stack[t], F) + Ind(g, F)
  BY <1>2, <1>3, <1>4
<1>6. /\ stack' \in Stacks
      /\ stack'[t] = r /\ \A u \in Threads : u # t => stack'[u] = stack[u]
      /\ \A F : /\ Cnt(stack, F) \in Nat /\ Cnt(stack', F) \in Nat
                /\ SeqCnt(stack[t], F) \in Nat
                /\ Cnt(stack', F) = Cnt(stack, F) - SeqCnt(stack[t], F) + SeqCnt(r, F)
      /\ Nested(r) => NestedOK'
  BY <1>5, StackChange
<1>7. Counts(LAMBDA F : Ind(g, F))
  <2> SUFFICES ASSUME NEW F
               PROVE  /\ Cnt(stack, F) \in Nat /\ Cnt(stack', F) \in Nat
                      /\ Cnt(stack', F) = Cnt(stack, F) + Ind(g, F)
    BY DEF Counts
  <2>1. Ind(g, F) \in Nat
    BY DEF Ind
  <2>2. SeqCnt(r, F) = SeqCnt(stack[t], F) + Ind(g, F)
    BY <1>5
  <2>3. /\ Cnt(stack, F) \in Nat /\ Cnt(stack', F) \in Nat
        /\ SeqCnt(stack[t], F) \in Nat
        /\ Cnt(stack', F) = Cnt(stack, F) - SeqCnt(stack[t], F) + SeqCnt(r, F)
    BY <1>6
  <2> QED
    BY <2>1, <2>2, <2>3
<1> QED
  BY <1>2, <1>4, <1>6, <1>7 DEF Frames

\* The innermost call becomes f and calls g, which does not open a session.
LEMMA CallingFrames ==
    ASSUME SInv, NEW t \in Threads, stack[t] # <<>>, NEW f \in Call, NEW g \in Call,
           Calling(t, f, g), g.op = "close", Continues(Top(t), f)
    PROVE  /\ Frames(t, {f, g})
           /\ Counts(LAMBDA F : Ind(g, F) + Ind(f, F) - Ind(Top(t), F))
           /\ NestedOK'
<1> DEFINE p == Tail(stack[t])
           m == <<f>> \o p
           q == <<g>> \o m
<1>1. /\ p \in Seq(Call) /\ stack[t] \in Seq(Call)
      /\ Range(p) \subseteq Range(stack[t])
  BY TopCall
<1>2. \A F : /\ SeqCnt(stack[t], F) = SeqCnt(p, F) + Ind(Top(t), F)
             /\ SeqCnt(p, F) \in Nat /\ Ind(Top(t), F) \in Nat /\ Ind(g, F) \in Nat
             /\ Ind(f, F) \in Nat
  BY <1>1, SeqSplit, SeqCntType DEF Top, Ind
<1>3. /\ Nested(p)
      /\ Top(t) \in Opening(Top(t).s) => \A x \in Range(p) : x \notin Owned(Top(t).s)
      /\ Top(t).op = "cancel" => p = <<>>
  <2>1. Nested(stack[t])
    BY DEF SInv, NestedOK
  <2> QED
    BY <2>1, <1>1, PoppedSeq DEF Top
<1>4. <<g, f>> \o p = q
  <2>1. /\ <<g, f>> \o p \in Seq(Call) /\ q \in Seq(Call) /\ Len(p) \in Nat
        /\ Len(<<g, f>> \o p) = Len(p) + 2 /\ Len(q) = Len(p) + 2
    BY <1>1
  <2>2. ASSUME NEW i \in 1..(Len(p) + 2) PROVE (<<g, f>> \o p)[i] = q[i]
    BY <2>1, <1>1
  <2> QED
    BY <2>1, <2>2, SeqEqual
<1> HIDE DEF p
<1>5. /\ m \in Seq(Call)
      /\ Range(m) = Range(p) \cup {f}
      /\ \A F : SeqCnt(m, F) = SeqCnt(p, F) + Ind(f, F)
      /\ Nested(m)
  BY <1>1, <1>3, PushedSeq DEF Continues
<1> HIDE DEF m
<1>6. g \notin Opening(g.s)
  BY DEF Opening
<1>7. /\ q \in Seq(Call)
      /\ Range(q) = Range(m) \cup {g}
      /\ \A F : SeqCnt(q, F) = SeqCnt(m, F) + Ind(g, F)
      /\ Nested(q)
  BY <1>5, <1>6, PushedSeq
<1>8. Changed(t, q)
  BY <1>4, <1>7 DEF Changed, Calling, p
<1> HIDE DEF q
<1>9. PICK r : r = q
  OBVIOUS
<1>10. Changed(t, r) /\ \A F : SeqCnt(r, F) = SeqCnt(m, F) + Ind(g, F)
  BY <1>7, <1>8, <1>9
<1>11. /\ stack' \in Stacks
       /\ stack'[t] = r /\ \A u \in Threads : u # t => stack'[u] = stack[u]
       /\ \A F : /\ Cnt(stack, F) \in Nat /\ Cnt(stack', F) \in Nat
                 /\ Cnt(stack', F) = Cnt(stack, F) - SeqCnt(stack[t], F) + SeqCnt(r, F)
       /\ Nested(r) => NestedOK'
  BY <1>10, StackChange
<1>12. Counts(LAMBDA F : Ind(g, F) + Ind(f, F) - Ind(Top(t), F))
  <2> SUFFICES ASSUME NEW F
               PROVE  /\ Cnt(stack, F) \in Nat /\ Cnt(stack', F) \in Nat
                      /\ Cnt(stack', F) = Cnt(stack, F) + (Ind(g, F) + Ind(f, F) - Ind(Top(t), F))
    BY DEF Counts
  <2> QED
    BY <1>2, <1>5, <1>10, <1>11
<1> QED
  BY <1>1, <1>5, <1>7, <1>9, <1>11, <1>12 DEF Frames

-----------------------------------------------------------------------------
(* Steps that leave the lists alone.                                       *)

\* The sessions are the same and in the same lists.
Unmoved ==
    /\ heads' = heads
    /\ \A s \in Sessions :
          /\ sess'[s] = NULL <=> sess[s] = NULL
          /\ sess[s] # NULL => sess'[s].id = sess[s].id

\* So are their references and locks.
SameRefs ==
    \A s \in Sessions : sess[s] # NULL =>
        sess'[s].ref = sess[s].ref /\ sess'[s].lock = sess[s].lock

\* What CallOK says of a call, without the lock.
Placed(f) ==
    /\ f.s \in Sessions
    /\ Shape(f)
    /\ f \in Owned(f.s) => sess[f.s] # NULL /\ f.s \in Range(heads[f.h])

LockOK(t, f) == f \in Locking(f.s) => sess[f.s].lock = t

LocksOK == \A t \in Threads : \A f \in Range(stack[t]) : LockOK(t, f)

\* All of G are so.
CallsPlaced(G) == \A f \in G : Placed(f)
CallsGood(t, G) == \A f \in G : CallOK(t, f)

\* No more calls own and open a session, and as many have it locked.
NoMoreCalls ==
    \A s \in Sessions :
        /\ Cnt(stack', Owned(s)) <= Cnt(stack, Owned(s))
        /\ Cnt(stack', Locking(s)) = Cnt(stack, Locking(s))
        /\ Cnt(stack', Opening(s)) <= Cnt(stack, Opening(s))

\* Numbers of calls are numbers.
LEMMA CntNat ==
    ASSUME SInv PROVE \A F : Cnt(stack, F) \in Nat
<1>1. stack \in Stacks
  BY DEF SInv, SessTypes
<1>2. CASE Threads = {}
  <2>1. \A F : PlacesOf(stack, F) = {}
    BY <1>2 DEF PlacesOf, Places
  <2> QED
    BY <2>1, FS_EmptySet DEF Cnt
<1>3. ASSUME NEW t \in Threads PROVE \A F : Cnt(stack, F) \in Nat
  BY <1>1, CntSplit
<1> QED
  BY <1>2, <1>3

\* A call that owns, opens or has locked a session works on that session.
LEMMA Roles ==
    ASSUME NEW f, NEW s
    PROVE  /\ f \in Owned(s) => f \in Call /\ f.s = s
           /\ f \in Locking(s) => f \in Owned(s)
           /\ f \in Opening(s) => f \in Owned(s)
  BY DEF Owned, Locking, Opening, OwnsSession

\* The sessions' references and locks change, the lists do not.
LEMMA SessionStep ==
    ASSUME SInv, NEW t \in Threads, NEW G, Frames(t, G), NestedOK', Data', Unmoved,
           CallsPlaced(G), CountsOK', LocksOK'
    PROVE  SInv'
<1>1. SessTypes'
  BY DEF SessTypes, Frames
<1>2. ListsOK'
  BY DEF SInv, ListsOK, Unmoved
<1>3. IdsNameSessions'
  <2>1. heads \in [Heads -> Seq(Sessions)] /\ ListsOK /\ IdsNameSessions
    BY DEF SInv, SessTypes, Data
  <2> SUFFICES ASSUME NEW h \in Heads, NEW s \in Range(heads[h]), NEW r \in Range(heads[h]),
                      sess'[s].id = sess'[r].id
               PROVE  s = r
    BY DEF IdsNameSessions, Unmoved
  <2>2. s \in Sessions /\ r \in Sessions
    BY <2>1 DEF Range
  <2>3. sess[s] # NULL /\ sess[r] # NULL
    BY <2>1, <2>2 DEF ListsOK
  <2> QED
    BY <2>1, <2>2, <2>3 DEF IdsNameSessions, Unmoved
<1>4. CallsOK'
  <2> SUFFICES ASSUME NEW u \in Threads, NEW f \in Range(stack'[u]) PROVE CallOK(u, f)'
    BY DEF CallsOK
  <2>1. Placed(f)
    <3>1. f \in Range(stack[u]) \/ f \in G
      BY DEF Frames
    <3>2. ASSUME f \in Range(stack[u]) PROVE Placed(f)
      BY <3>2 DEF SInv, CallsOK, CallOK, Placed
    <3> QED
      BY <3>1, <3>2 DEF CallsPlaced
  <2>2. LockOK(u, f)'
    BY DEF LocksOK
  <2> QED
    BY <2>1, <2>2 DEF Placed, CallOK, LockOK, Unmoved
<1> QED
  BY <1>1, <1>2, <1>3, <1>4 DEF SInv

\* Nor do the references and locks.
LEMMA QuietStep ==
    ASSUME SInv, NEW t \in Threads, NEW G, Frames(t, G), NestedOK', Data', Unmoved,
           SameRefs, CallsGood(t, G), NoMoreCalls
    PROVE  SInv'
<1>1. CountsOK'
  <2> SUFFICES ASSUME NEW s \in Sessions PROVE CountOK(s)'
    BY DEF CountsOK
  <2>1. CountOK(s) /\ (sess[s] = NULL <=> sess'[s] = NULL)
        /\ (sess[s] # NULL => sess'[s].ref = sess[s].ref /\ sess'[s].lock = sess[s].lock)
    BY DEF SInv, CountsOK, Unmoved, SameRefs
  <2>2. /\ Cnt(stack', Owned(s)) <= Cnt(stack, Owned(s))
        /\ Cnt(stack', Locking(s)) = Cnt(stack, Locking(s))
        /\ Cnt(stack', Opening(s)) <= Cnt(stack, Opening(s))
    BY DEF NoMoreCalls
  <2>3. \A F : Cnt(stack, F) \in Nat /\ Cnt(stack', F) \in Nat
    BY CntNat, CntSplit DEF Frames
  <2>4. sess[s] # NULL => sess[s].ref \in Nat
    BY DEF SInv, SessTypes, Data, Session
  <2>5. CASE sess[s] = NULL
    BY <2>1, <2>2, <2>3, <2>5 DEF CountOK
  <2>6. CASE sess[s] # NULL
    BY <2>1, <2>2, <2>3, <2>4, <2>6 DEF CountOK
  <2> QED
    BY <2>5, <2>6
<1>2. LocksOK'
  <2> SUFFICES ASSUME NEW u \in Threads, NEW f \in Range(stack'[u]), f \in Locking(f.s)
               PROVE  sess'[f.s].lock = u
    BY DEF LocksOK, LockOK
  <2>1. CallOK(u, f)
    <3>1. CASE f \in Range(stack[u])
      BY <3>1 DEF SInv, CallsOK
    <3>2. CASE f \notin Range(stack[u])
      <4>1. u = t
        BY <3>2 DEF Frames
      <4>2. f \in G
        BY <4>1, <3>2 DEF Frames
      <4> QED
        BY <4>1, <4>2 DEF CallsGood
    <3> QED
      BY <3>1, <3>2
  <2>2. sess[f.s].lock = u /\ f.s \in Sessions /\ sess[f.s] # NULL
    BY <2>1, Roles DEF CallOK
  <2> QED
    BY <2>2 DEF SameRefs
<1>3. CallsPlaced(G)
  BY DEF CallsGood, CallsPlaced, CallOK, Placed
<1> QED
  BY <1>1, <1>2, <1>3, SessionStep

\* The call becomes one with the same part in the session.
SameRole(f, g) ==
    /\ g \in Call /\ g.op = f.op /\ g.s = f.s /\ g.h = f.h
    /\ Shape(g)
    /\ f \in Owned(f.s) <=> g \in Owned(f.s)
    /\ f \in Locking(f.s) <=> g \in Locking(f.s)

\* Calls with the same part are counted alike.
LEMMA SameRoleCounts ==
    ASSUME NEW f \in Call, NEW g, SameRole(f, g)
    PROVE  /\ \A s \in Sessions : /\ Ind(g, Owned(s)) = Ind(f, Owned(s))
                                  /\ Ind(g, Locking(s)) = Ind(f, Locking(s))
                                  /\ Ind(g, Opening(s)) = Ind(f, Opening(s))
                                  /\ Ind(f, Owned(s)) \in Nat /\ Ind(f, Locking(s)) \in Nat
                                  /\ Ind(f, Opening(s)) \in Nat
           /\ Continues(f, g)
<1>1. ASSUME NEW s
      PROVE  /\ f \in Owned(s) <=> g \in Owned(s)
             /\ f \in Locking(s) <=> g \in Locking(s)
  BY Roles DEF SameRole
<1>2. ASSUME NEW s
      PROVE  f \in Opening(s) <=> g \in Opening(s)
  BY <1>1 DEF Opening, SameRole
<1>3. Continues(f, g)
  BY <1>2 DEF Continues, SameRole
<1> QED
  BY <1>1, <1>2, <1>3 DEF Ind

\* What CallOK says of a call it says of one with the same part.
LEMMA SameRoleOK ==
    ASSUME NEW t, NEW f, NEW g, SameRole(f, g), CallOK(t, f)
    PROVE  CallOK(t, g)
  BY DEF SameRole, CallOK

\* The innermost call goes on with the same part in its session.
LEMMA BecomeStep ==
    ASSUME SInv, NEW t \in Threads, stack[t] # <<>>, NEW g, SameRole(Top(t), g),
           stack' = [stack EXCEPT ![t] = <<g>> \o Tail(stack[t])],
           Data', Unmoved, SameRefs
    PROVE  SInv'
<1>1. Top(t) \in Call /\ CallOK(t, Top(t)) /\ g \in Call
  BY TopCall DEF SameRole
<1>2. /\ \A s \in Sessions : /\ Ind(g, Owned(s)) = Ind(Top(t), Owned(s))
                             /\ Ind(g, Locking(s)) = Ind(Top(t), Locking(s))
                             /\ Ind(g, Opening(s)) = Ind(Top(t), Opening(s))
                             /\ Ind(g, Owned(s)) \in Nat /\ Ind(g, Locking(s)) \in Nat
                             /\ Ind(g, Opening(s)) \in Nat
      /\ Continues(Top(t), g)
  BY <1>1, SameRoleCounts
<1>3. /\ Frames(t, {g})
      /\ Counts(LAMBDA F : Ind(g, F) - Ind(Top(t), F))
      /\ NestedOK'
  BY <1>1, <1>2, BecomeFrames
<1>4. \A F : /\ Cnt(stack, F) \in Nat /\ Cnt(stack', F) \in Nat
             /\ Cnt(stack', F) = Cnt(stack, F) + (Ind(g, F) - Ind(Top(t), F))
  BY <1>3 DEF Counts
<1>5. NoMoreCalls
  <2>0. ASSUME NEW F, Ind(g, F) = Ind(Top(t), F), Ind(g, F) \in Nat
        PROVE  Cnt(stack', F) = Cnt(stack, F) /\ Cnt(stack', F) <= Cnt(stack, F)
    <3>1. /\ Cnt(stack, F) \in Nat /\ Cnt(stack', F) \in Nat
          /\ Cnt(stack', F) = Cnt(stack, F) + (Ind(g, F) - Ind(Top(t), F))
      BY <1>4
    <3> QED
      BY <2>0, <3>1
  <2> SUFFICES ASSUME NEW s \in Sessions
               PROVE  /\ Cnt(stack', Owned(s)) <= Cnt(stack, Owned(s))
                      /\ Cnt(stack', Locking(s)) = Cnt(stack, Locking(s))
                      /\ Cnt(stack', Opening(s)) <= Cnt(stack, Opening(s))
    BY DEF NoMoreCalls
  <2>1. Cnt(stack', Owned(s)) <= Cnt(stack, Owned(s))
    BY <1>2, <2>0
  <2>2. Cnt(stack', Locking(s)) = Cnt(stack, Locking(s))
    BY <1>2, <2>0
  <2>3. Cnt(stack', Opening(s)) <= Cnt(stack, Opening(s))
    BY <1>2, <2>0
  <2> QED
    BY <2>1, <2>2, <2>3
<1>6. CallOK(t, g)
  BY <1>1, SameRoleOK
<1>7. CallsGood(t, {g})
  BY <1>6 DEF CallsGood
<1> QED
  BY <1>3, <1>5, <1>7, QuietStep

\* The innermost call returns and has no session locked.
LEMMA ReturnStep ==
    ASSUME SInv, NEW t \in Threads, stack[t] # <<>>, Return(t),
           Top(t) \notin Locking(Top(t).s), Data', Unmoved, SameRefs
    PROVE  SInv'
<1>1. /\ Frames(t, {})
      /\ Counts(LAMBDA F : -Ind(Top(t), F))
      /\ NestedOK'
  BY ReturnFrames
<1>2. \A F : /\ Cnt(stack, F) \in Nat /\ Cnt(stack', F) \in Nat
             /\ Cnt(stack', F) = Cnt(stack, F) + (-Ind(Top(t), F))
  BY <1>1 DEF Counts
<1>3. ASSUME NEW s \in Sessions
      PROVE  Ind(Top(t), Locking(s)) = 0 /\ Ind(Top(t), Owned(s)) \in Nat
             /\ Ind(Top(t), Opening(s)) \in Nat
  BY Roles DEF Ind
<1>4. NoMoreCalls
  <2> SUFFICES ASSUME NEW s \in Sessions
               PROVE  /\ Cnt(stack', Owned(s)) <= Cnt(stack, Owned(s))
                      /\ Cnt(stack', Locking(s)) = Cnt(stack, Locking(s))
                      /\ Cnt(stack', Opening(s)) <= Cnt(stack, Opening(s))
    BY DEF NoMoreCalls
  <2>1. Cnt(stack', Owned(s)) <= Cnt(stack, Owned(s))
    BY <1>2, <1>3
  <2>2. Cnt(stack', Locking(s)) = Cnt(stack, Locking(s))
    BY <1>2, <1>3
  <2>3. Cnt(stack', Opening(s)) <= Cnt(stack, Opening(s))
    BY <1>2, <1>3
  <2> QED
    BY <2>1, <2>2, <2>3
<1>5. CallsGood(t, {})
  BY DEF CallsGood
<1> QED
  BY <1>1, <1>4, <1>5, QuietStep

\* tee_ta_close_session() is called: it owns nothing yet.
LEMMA CloseCallOK ==
    ASSUME SInv, NEW t \in Threads, NEW h \in Heads, NEW s \in Sessions
    PROVE  /\ CloseCall(h, s) \in Call /\ CloseCall(h, s).op = "close"
           /\ CallOK(t, CloseCall(h, s))
           /\ \A r \in Sessions : /\ Ind(CloseCall(h, s), Owned(r)) = 0
                                  /\ Ind(CloseCall(h, s), Locking(r)) = 0
                                  /\ Ind(CloseCall(h, s), Opening(r)) = 0
<1> DEFINE g == CloseCall(h, s)
<1>1. g \in Call /\ g.op = "close" /\ g.pc = "get" /\ g.s = s
  BY DEF CloseCall, Call, PC
<1> HIDE DEF g
<1>2. \A r : g \notin Owned(r)
  BY <1>1 DEF Owned, OwnsSession
<1>3. \A r : g \notin Locking(r) /\ g \notin Opening(r)
  BY <1>2, Roles
<1>4. CallOK(t, g)
  BY <1>1, <1>2, <1>3 DEF CallOK, Shape
<1> QED
  BY <1>1, <1>2, <1>3, <1>4 DEF Ind, g

\* The innermost call goes on in the same part and closes a session.
LEMMA CallingStep ==
    ASSUME SInv, NEW t \in Threads, stack[t] # <<>>, NEW f, SameRole(Top(t), f),
           NEW h \in Heads, NEW s \in Sessions,
           Calling(t, f, CloseCall(h, s)), Data', Unmoved, SameRefs
    PROVE  SInv'
<1>1. Top(t) \in Call /\ CallOK(t, Top(t)) /\ f \in Call
  BY TopCall DEF SameRole
<1>2. /\ \A r \in Sessions : /\ Ind(f, Owned(r)) = Ind(Top(t), Owned(r))
                             /\ Ind(f, Locking(r)) = Ind(Top(t), Locking(r))
                             /\ Ind(f, Opening(r)) = Ind(Top(t), Opening(r))
                             /\ Ind(f, Owned(r)) \in Nat /\ Ind(f, Locking(r)) \in Nat
                             /\ Ind(f, Opening(r)) \in Nat
      /\ Continues(Top(t), f)
  BY <1>1, SameRoleCounts
<1>3. PICK g : g = CloseCall(h, s)
  OBVIOUS
<1>4. /\ g \in Call /\ g.op = "close" /\ CallOK(t, g)
      /\ \A r \in Sessions : /\ Ind(g, Owned(r)) = 0 /\ Ind(g, Locking(r)) = 0
                             /\ Ind(g, Opening(r)) = 0
  BY <1>3, CloseCallOK
<1>5. Calling(t, f, g)
  BY <1>3
<1>6. /\ Frames(t, {f, g})
      /\ Counts(LAMBDA F : Ind(g, F) + Ind(f, F) - Ind(Top(t), F))
      /\ NestedOK'
  BY <1>1, <1>2, <1>4, <1>5, CallingFrames
<1>7. \A F : /\ Cnt(stack, F) \in Nat /\ Cnt(stack', F) \in Nat
             /\ Cnt(stack', F) = Cnt(stack, F) + (Ind(g, F) + Ind(f, F) - Ind(Top(t), F))
  BY <1>6 DEF Counts
<1>8. NoMoreCalls
  <2> SUFFICES ASSUME NEW r \in Sessions
               PROVE  /\ Cnt(stack', Owned(r)) = Cnt(stack, Owned(r))
                      /\ Cnt(stack', Locking(r)) = Cnt(stack, Locking(r))
                      /\ Cnt(stack', Opening(r)) = Cnt(stack, Opening(r))
    BY <1>7 DEF NoMoreCalls
  <2>1. Cnt(stack', Owned(r)) = Cnt(stack, Owned(r))
    BY <1>2, <1>4, <1>7
  <2>2. Cnt(stack', Locking(r)) = Cnt(stack, Locking(r))
    BY <1>2, <1>4, <1>7
  <2>3. Cnt(stack', Opening(r)) = Cnt(stack, Opening(r))
    BY <1>2, <1>4, <1>7
  <2> QED
    BY <2>1, <2>2, <2>3
<1>9. CallOK(t, f)
  BY <1>1, SameRoleOK
<1>10. CallsGood(t, {f, g})
  BY <1>4, <1>9 DEF CallsGood
<1> QED
  BY <1>6, <1>8, <1>10, QuietStep

-----------------------------------------------------------------------------
(* Steps that change the references or the lock of one session.            *)

\* Nothing is counted if there is no such call.
LEMMA CntZero ==
    ASSUME NEW S \in Stacks, NEW F
    PROVE  /\ Cnt(S, F) = 0 <=> \A u \in Threads : \A f \in Range(S[u]) : f \notin F
           /\ Cnt(S, F) \in Nat
<1>1. IsFiniteSet(PlacesOf(S, F)) /\ Cnt(S, F) \in Nat
  <2>1. IsFiniteSet(Places(S))
    BY DEF Stacks
  <2>2. PlacesOf(S, F) \in SUBSET Places(S)
    BY DEF PlacesOf
  <2>3. IsFiniteSet(PlacesOf(S, F))
    BY <2>1, <2>2, FS_Subset
  <2> QED
    BY <2>3, FS_CardinalityType DEF Cnt
<1>2. Cnt(S, F) = 0 <=> PlacesOf(S, F) = {}
  BY <1>1, FS_EmptySet DEF Cnt
<1>3. ASSUME NEW u \in Threads, NEW f \in Range(S[u]), f \in F
      PROVE  PlacesOf(S, F) # {}
  <2>1. PICK i \in DOMAIN S[u] : S[u][i] = f
    BY DEF Range
  <2>2. <<u, i>> \in PlacesOf(S, F)
    BY <2>1, <1>3 DEF PlacesOf, Places
  <2> QED
    BY <2>2
<1>4. ASSUME NEW x \in PlacesOf(S, F)
      PROVE  \E u \in Threads : \E f \in Range(S[u]) : f \in F
  <2>1. PICK u \in Threads : \E i \in DOMAIN S[u] : x = <<u, i>>
    BY DEF PlacesOf, Places
  <2>2. PICK i \in DOMAIN S[u] : x = <<u, i>>
    BY <2>1
  <2>3. S[u][i] \in F
    BY <2>2 DEF PlacesOf
  <2>4. S[u][i] \in Range(S[u])
    BY DEF Range
  <2> QED
    BY <2>3, <2>4
<1> QED
  BY <1>1, <1>2, <1>3, <1>4

\* No more calls own, have locked or open r.
NoMore(r) ==
    /\ Cnt(stack', Owned(r)) <= Cnt(stack, Owned(r))
    /\ Cnt(stack', Locking(r)) = Cnt(stack, Locking(r))
    /\ Cnt(stack', Opening(r)) <= Cnt(stack, Opening(r))

SameRef(r) ==
    sess[r] # NULL => sess'[r].ref = sess[r].ref /\ sess'[r].lock = sess[r].lock

\* The calls that own s become o more, those that have it locked l more, and the
\* counter and the lock of s follow.
OneSession(t, s, o, l) ==
    /\ \A r \in Sessions \ {s} : NoMore(r) /\ SameRef(r)
    /\ Cnt(stack', Opening(s)) <= Cnt(stack, Opening(s))
    /\ Cnt(stack', Owned(s)) = Cnt(stack, Owned(s)) + o
    /\ Cnt(stack', Locking(s)) = Cnt(stack, Locking(s)) + l
    /\ sess'[s].ref = sess[s].ref + o
    /\ \/ l = 0 /\ sess'[s].lock = sess[s].lock
       \/ l = 1 /\ sess[s].lock = NULL /\ sess'[s].lock = t
       \/ l = -1 /\ sess[s].lock # NULL /\ sess'[s].lock = NULL

\* New calls that have a session locked have locked s, for t.
CallsLock(t, s, G) == \A f \in G : f \in Locking(f.s) => f.s = s /\ sess'[s].lock = t

\* The references and the lock of one session change with its calls.
LEMMA OneSessionStep ==
    ASSUME SInv, NEW t \in Threads, NEW G, Frames(t, G), NestedOK', Data', Unmoved,
           CallsPlaced(G), NEW s \in Sessions, sess[s] # NULL,
           NEW o \in Int, NEW l \in Int, OneSession(t, s, o, l), CallsLock(t, s, G)
    PROVE  SInv'
<1>1. \A F : Cnt(stack, F) \in Nat /\ Cnt(stack', F) \in Nat
  BY CntNat, CntZero DEF Frames
<1>2. ASSUME NEW r \in Sessions, r # s PROVE CountOK(r)'
  <2>1. CountOK(r) /\ (sess[r] = NULL <=> sess'[r] = NULL) /\ NoMore(r) /\ SameRef(r)
    BY <1>2 DEF SInv, CountsOK, Unmoved, OneSession
  <2>2. sess[r] # NULL => sess[r].ref \in Nat
    BY DEF SInv, SessTypes, Data, Session
  <2>3. CASE sess[r] = NULL
    BY <2>1, <2>3, <1>1 DEF CountOK, NoMore
  <2>4. CASE sess[r] # NULL
    BY <2>1, <2>2, <2>4, <1>1 DEF CountOK, NoMore, SameRef
  <2> QED
    BY <2>3, <2>4
<1>3. CountOK(s)'
  <2>1. /\ Cnt(stack, Owned(s)) <= sess[s].ref
        /\ Cnt(stack, Locking(s)) = IF sess[s].lock = NULL THEN 0 ELSE 1
        /\ Cnt(stack, Opening(s)) <= 1
        /\ sess'[s] # NULL /\ sess[s].ref \in Nat
    BY DEF SInv, CountsOK, CountOK, Unmoved, SessTypes, Data, Session
  <2>2. Cnt(stack', Owned(s)) <= sess'[s].ref /\ Cnt(stack', Opening(s)) <= 1
    BY <2>1, <1>1 DEF OneSession
  <2>3. Cnt(stack', Locking(s)) = IF sess'[s].lock = NULL THEN 0 ELSE 1
    <3>1. t # NULL
      BY TaManagerAssumption
    <3> QED
      BY <3>1, <2>1, <1>1 DEF OneSession
  <2> QED
    BY <2>1, <2>2, <2>3 DEF CountOK
<1>4. CountsOK'
  BY <1>2, <1>3 DEF CountsOK
<1>5. LocksOK'
  <2> SUFFICES ASSUME NEW u \in Threads, NEW f \in Range(stack'[u]), f \in Locking(f.s)
               PROVE  sess'[f.s].lock = u
    BY DEF LocksOK, LockOK
  <2>1. CASE f \in Range(stack[u])
    <3>1. CallOK(u, f)
      BY <2>1 DEF SInv, CallsOK
    <3>2. sess[f.s].lock = u /\ f.s \in Sessions /\ sess[f.s] # NULL
      BY <3>1, Roles DEF CallOK
    <3>3. CASE f.s # s
      BY <3>2, <3>3 DEF OneSession, SameRef
    <3>4. CASE f.s = s
      <4>1. Cnt(stack, Locking(s)) # 0 /\ Cnt(stack', Locking(s)) # 0
        BY <2>1, <3>4, CntZero DEF Frames, SInv, SessTypes
      <4>2. sess[s].lock # NULL
        BY <3>2, <3>4, TaManagerAssumption
      <4>3. Cnt(stack, Locking(s)) = 1
        BY <4>2 DEF SInv, CountsOK, CountOK
      <4>4. sess'[s].lock = sess[s].lock
        BY <4>1, <4>2, <4>3 DEF OneSession
      <4> QED
        BY <4>4, <3>2, <3>4
    <3> QED
      BY <3>3, <3>4
  <2>2. CASE f \notin Range(stack[u])
    <3>1. u = t
      BY <2>2 DEF Frames
    <3>2. f \in G
      BY <3>1, <2>2 DEF Frames
    <3> QED
      BY <3>1, <3>2 DEF CallsLock
  <2> QED
    BY <2>1, <2>2
<1> QED
  BY <1>4, <1>5, SessionStep

\* The session of the innermost call of t is not locked by t if the call opens it
\* or cancels an operation in it.
LEMMA NotLocked ==
    ASSUME SInv, NEW t \in Threads, stack[t] # <<>>, Top(t).op \in {"open", "cancel"},
           Top(t) \in Owned(Top(t).s)
    PROVE  sess[Top(t).s].lock # t
<1> DEFINE s == Top(t).s
<1>1. /\ stack[t] \in Seq(Call) /\ Top(t) \in Call /\ CallOK(t, Top(t))
      /\ Range(stack[t]) = Range(Tail(stack[t])) \cup {Top(t)}
  BY TopCall
<1>2. s \in Sessions /\ sess[s] # NULL
  BY <1>1 DEF CallOK
<1> SUFFICES ASSUME sess[s].lock = t PROVE FALSE
  OBVIOUS
<1>3. Cnt(stack, Locking(s)) = 1
  <2>1. sess[s].lock # NULL
    BY TaManagerAssumption
  <2> QED
    BY <2>1, <1>2 DEF SInv, CountsOK, CountOK
<1>4. PICK u \in Threads : \E f \in Range(stack[u]) : f \in Locking(s)
  BY <1>3, CntZero DEF SInv, SessTypes
<1>5. PICK f \in Range(stack[u]) : f \in Locking(s)
  BY <1>4
<1>6. f \in Owned(s) /\ f.s = s
  BY <1>5, Roles
<1>7. u = t
  BY <1>5, <1>6 DEF SInv, CallsOK, CallOK
<1>8. f \in Range(Tail(stack[t]))
  BY <1>1, <1>5, <1>7 DEF Locking
<1>9. Nested(stack[t])
  BY DEF SInv, NestedOK
<1>10. CASE Top(t).op = "open"
  <2>1. Top(t) \in Opening(s)
    BY <1>10 DEF Opening
  <2> QED
    BY <2>1, <1>1, <1>6, <1>8, <1>9, PoppedSeq DEF Top
<1>11. CASE Top(t).op = "cancel"
  <2>1. Tail(stack[t]) = <<>>
    BY <1>1, <1>9, <1>11, PoppedSeq DEF Top
  <2>2. Range(<<>>) = {}
    BY DEF Range
  <2> QED
    BY <2>1, <2>2, <1>8
<1> QED
  BY <1>10, <1>11

-----------------------------------------------------------------------------
(* The steps of a call that leave references and locks alone.              *)

\* A call with some of its fields changed is a call on the same session.
Variant(f, g) == g \in Call /\ g.op = f.op /\ g.s = f.s /\ g.h = f.h /\ g.ta = f.ta

\* A call at another label is the same otherwise.
LEMMA CallFields ==
    ASSUME NEW f \in Call, NEW l \in PC, NEW g, g = [f EXCEPT !.pc = l]
    PROVE  Variant(f, g) /\ g.pc = l /\ g.c = f.c /\ g.res = f.res
  BY DEF Call, Variant

\* The places of a call.
LEMMA Labels ==
    {"load", "loading", "fail", "init", "opened", "dead", "origin", "get", "lock", "begin",
     "setbusy", "enter", "run", "clear", "after", "put", "unlink", "refc", "release",
     "destroyctx", "destroy", "cancel"} \subseteq PC
  BY DEF PC

\* The call goes on in its part in the session.
KeepsRole(f, g) ==
    /\ f.op = "open" => (g.pc = "origin" <=> f.pc = "origin")
    /\ f.op = "invoke" => f.pc # "get" /\ g.pc # "get"
    /\ f.op = "close" => (g.pc \in {"get", "clear", "release", "destroy"}
                          <=> f.pc \in {"get", "clear", "release", "destroy"})
    /\ g.pc = "lock" <=> f.pc = "lock"

\* A call that keeps its part has the same part.
LEMMA RoleOf ==
    ASSUME NEW f \in Call, NEW g, Variant(f, g), Shape(g), KeepsRole(f, g)
    PROVE  SameRole(f, g)
<1>1. f.op \in {"open", "invoke", "close", "cancel"}
  BY DEF Call
<1>2. f \in Owned(f.s) <=> g \in Owned(f.s)
  BY <1>1 DEF Owned, OwnsSession, Variant, KeepsRole
<1>3. f \in Locking(f.s) <=> g \in Locking(f.s)
  BY <1>2 DEF Locking, Variant, KeepsRole
<1> QED
  BY <1>2, <1>3 DEF SameRole, Variant

\* The innermost call goes on like that.
LEMMA MoveStep ==
    ASSUME SInv, NEW t \in Threads, stack[t] # <<>>, NEW g, Variant(Top(t), g), Shape(g),
           KeepsRole(Top(t), g), stack' = [stack EXCEPT ![t] = <<g>> \o Tail(stack[t])],
           Data', Unmoved, SameRefs
    PROVE  SInv'
<1>1. Top(t) \in Call
  BY TopCall
<1>2. SameRole(Top(t), g)
  BY <1>1, RoleOf
<1> QED
  BY <1>2, BecomeStep

\* Nothing happens to the sessions.
LEMMA SessionsSame ==
    ASSUME SInv, UNCHANGED <<sess, heads>>, ctxes' \in Seq(Ctxs)
    PROVE  Data' /\ Unmoved /\ SameRefs
  BY DEF SInv, SessTypes, Data, Unmoved, SameRefs

\* A session changes in other fields.
LEMMA SessionChanged ==
    ASSUME SInv, NEW s \in Sessions, sess[s] # NULL, NEW k \in Session,
           k.id = sess[s].id, k.ref = sess[s].ref, k.lock = sess[s].lock,
           sess' = [sess EXCEPT ![s] = k], heads' = heads, ctxes' \in Seq(Ctxs)
    PROVE  Data' /\ Unmoved /\ SameRefs
<1>1. sess \in [Sessions -> Session \cup {NULL}] /\ heads \in [Heads -> Seq(Sessions)]
  BY DEF SInv, SessTypes, Data
<1>2. sess' \in [Sessions -> Session \cup {NULL}]
  BY <1>1
<1>3. sess'[s] = k /\ \A r \in Sessions : r # s => sess'[r] = sess[r]
  BY <1>1
<1>4. k # NULL
  BY NullAssumption
<1>5. Data'
  BY <1>1, <1>2 DEF Data
<1>6. Unmoved
  BY <1>3, <1>4 DEF Unmoved
<1>7. SameRefs
  BY <1>3 DEF SameRefs
<1> QED
  BY <1>5, <1>6, <1>7

\* TAILQ_REMOVE() of an element of a list, or of none.
LEMMA WithoutType ==
    ASSUME NEW T, NEW q \in Seq(T), NEW e
    PROVE  Without(q, e) \in Seq(T)
<1>1. ASSUME NEW i \in DOMAIN q PROVE RemoveAt(q, i) \in Seq(T)
  BY DEF RemoveAt
<1>2. CASE e \in Range(q)
  <2>1. \E i \in DOMAIN q : q[i] = e
    BY <1>2 DEF Range
  <2>2. (CHOOSE i \in DOMAIN q : q[i] = e) \in DOMAIN q
    BY <2>1
  <2> QED
    BY <1>1, <1>2, <2>2 DEF Without
<1> QED
  BY <1>2 DEF Without

\* The calls of an open before the TA is entered.  The session's context changes.
LEMMA LoadSteps ==
    ASSUME SInv, NEW t \in Threads,
           \/ \E c \in Ctxs : LoadStart(t, c)
           \/ LoadNone(t) \/ Loaded(t) \/ LoadFails(t)
    PROVE  SInv'
<1> DEFINE f == Top(t)
<1>1. stack[t] # <<>> /\ f.pc \in {"load", "loading"}
  BY DEF LoadStart, LoadNone, Loaded, LoadFails, At
<1>2. f \in Call /\ CallOK(t, f)
  BY <1>1, TopCall
<1>3. /\ f.op = "open" /\ f.s \in Sessions /\ f \in Owned(f.s)
      /\ sess[f.s] # NULL
  BY <1>1, <1>2 DEF CallOK, Shape, Owned, OwnsSession, Call
<1>4. PICK s : s = f.s
  OBVIOUS
<1>5. sess[s] \in Session /\ s \in Sessions /\ sess[s] # NULL
  BY <1>3, <1>4 DEF SInv, SessTypes, Data
<1>6. ctxes \in Seq(Ctxs)
  BY DEF SInv, SessTypes, Data
<1>7. ASSUME NEW c \in Ctxs \cup {NULL}, sess' = [sess EXCEPT ![s].ctx = c], heads' = heads,
             ctxes' \in Seq(Ctxs)
      PROVE  Data' /\ Unmoved /\ SameRefs
  <2>1. PICK k : k = [sess[s] EXCEPT !.ctx = c]
    OBVIOUS
  <2>2. /\ k \in Session /\ k.id = sess[s].id /\ k.ref = sess[s].ref
        /\ k.lock = sess[s].lock
    BY <2>1, <1>5 DEF Session
  <2>3. sess' = [sess EXCEPT ![s] = k]
    BY <1>7, <2>1
  <2> QED
    BY <1>5, <1>7, <2>2, <2>3, SessionChanged
<1>8. ASSUME NEW g, Variant(f, g), g.pc \in {"loading", "fail", "opened"},
             stack' = [stack EXCEPT ![t] = <<g>> \o Tail(stack[t])],
             Data', Unmoved, SameRefs
      PROVE  SInv'
  <2>1. Shape(g)
    BY <1>3, <1>8 DEF Shape, Variant
  <2>2. KeepsRole(f, g)
    BY <1>1, <1>3, <1>8 DEF KeepsRole
  <2> QED
    BY <2>1, <2>2, <1>1, <1>8, MoveStep
<1>9. ASSUME NEW c \in Ctxs, LoadStart(t, c) PROVE SInv'
  <2>1. PICK g : g = [f EXCEPT !.pc = "loading", !.c = c]
    OBVIOUS
  <2>2. Variant(f, g) /\ g.pc = "loading"
    <3>1. "loading" \in PC /\ c \in Ctxs \cup {NULL}
      BY DEF PC
    <3> QED
      BY <2>1, <3>1, <1>2 DEF Call, Variant
  <2>3. stack' = [stack EXCEPT ![t] = <<g>> \o Tail(stack[t])]
    BY <1>9, <2>1 DEF LoadStart, Become
  <2>4. Data' /\ Unmoved /\ SameRefs
    <3>1. ctxes' = Append(ctxes, c)
      BY <1>9 DEF LoadStart
    <3>2. ctxes' \in Seq(Ctxs)
      BY <3>1, <1>6
    <3> QED
      BY <3>2, <1>4, <1>7, <1>9 DEF LoadStart
  <2> QED
    BY <1>8, <2>2, <2>3, <2>4
<1>10. ASSUME LoadNone(t) PROVE SInv'
  <2>1. PICK g : g = [f EXCEPT !.pc = "fail"]
    OBVIOUS
  <2>2. Variant(f, g) /\ g.pc = "fail"
    BY <2>1, <1>2, Labels, CallFields
  <2>3. stack' = [stack EXCEPT ![t] = <<g>> \o Tail(stack[t])]
    BY <1>10, <2>1 DEF LoadNone, Goto, Become
  <2>4. Data' /\ Unmoved /\ SameRefs
    BY <1>6, <1>10, SessionsSame DEF LoadNone
  <2> QED
    BY <1>8, <2>2, <2>3, <2>4
<1>11. ASSUME Loaded(t) PROVE SInv'
  <2>1. PICK g : g = [f EXCEPT !.pc = "opened"]
    OBVIOUS
  <2>2. Variant(f, g) /\ g.pc = "opened"
    BY <2>1, <1>2, Labels, CallFields
  <2>3. stack' = [stack EXCEPT ![t] = <<g>> \o Tail(stack[t])]
    BY <1>11, <2>1 DEF Loaded, Goto, Become
  <2>4. Data' /\ Unmoved /\ SameRefs
    BY <1>6, <1>11, SessionsSame DEF Loaded
  <2> QED
    BY <1>8, <2>2, <2>3, <2>4
<1>12. ASSUME LoadFails(t) PROVE SInv'
  <2>1. PICK g : g = [f EXCEPT !.pc = "fail", !.c = NULL]
    OBVIOUS
  <2>2. Variant(f, g) /\ g.pc = "fail"
    <3>1. "fail" \in PC /\ NULL \in Ctxs \cup {NULL}
      BY DEF PC
    <3> QED
      BY <2>1, <3>1, <1>2 DEF Call, Variant
  <2>3. stack' = [stack EXCEPT ![t] = <<g>> \o Tail(stack[t])]
    BY <1>12, <2>1 DEF LoadFails, Become
  <2>4. Data' /\ Unmoved /\ SameRefs
    <3>1. ctxes' \in Seq(Ctxs)
      BY <1>12, <1>6, WithoutType DEF LoadFails
    <3> QED
      BY <3>1, <1>4, <1>7, <1>12 DEF LoadFails
  <2> QED
    BY <1>8, <2>2, <2>3, <2>4
<1> QED
  BY <1>9, <1>10, <1>11, <1>12

\* Nothing happens to calls and sessions.
LEMMA UnchangedStep ==
    ASSUME SInv, UNCHANGED <<sess, heads, ctxes, stack>> PROVE SInv'
  BY DEF SInv, SessTypes, Data, ListsOK, CallsOK, CallOK, NestedOK, CountsOK, CountOK,
         IdsNameSessions

\* The busy flag, the TA and the context do not concern the session.
LEMMA PlainSteps ==
    ASSUME SInv, NEW t \in Threads,
           \/ SetBusyConcurrent(t) \/ SetBusy(t) \/ Enter(t) \/ ClearBusy(t)
    PROVE  SInv'
<1> DEFINE f == Top(t)
<1>1. stack[t] # <<>> /\ f.pc \in {"setbusy", "enter", "clear"}
  BY DEF SetBusyConcurrent, SetBusy, Enter, ClearBusy, At
<1>2. f \in Call /\ Shape(f)
  BY <1>1, TopCall DEF CallOK
<1>3. Data' /\ Unmoved /\ SameRefs
  <2>1. UNCHANGED <<sess, heads, ctxes>>
    BY DEF SetBusyConcurrent, SetBusy, Enter, ClearBusy
  <2> QED
    BY <2>1, SessionsSame DEF SInv, SessTypes, Data
<1>4. PICK l \in {"enter", "run", "put", "after", "release"} :
         /\ Goto(t, l)
         /\ l = "enter" => f.pc = "setbusy"
         /\ l = "run" => f.pc = "enter"
         /\ l = "put" => f.pc = "clear" /\ f.op = "open"
         /\ l = "after" => f.pc = "clear" /\ f.op = "invoke"
         /\ l = "release" => f.pc = "clear" /\ f.op = "close"
  <2>1. CASE SetBusyConcurrent(t) \/ SetBusy(t)
    BY <2>1 DEF SetBusyConcurrent, SetBusy, At
  <2>2. CASE Enter(t)
    BY <2>2 DEF Enter, At
  <2>3. CASE ClearBusy(t)
    <3>1. f.op \in {"open", "invoke", "close"} /\ f.pc = "clear"
      BY <2>3, <1>2 DEF Shape, Call, ClearBusy, At
    <3> QED
      BY <2>3, <3>1 DEF ClearBusy
  <2> QED
    BY <2>1, <2>2, <2>3
<1>5. PICK g : g = [f EXCEPT !.pc = l]
  OBVIOUS
<1>6. Variant(f, g) /\ g.pc = l /\ g.c = f.c
  BY <1>2, <1>5, Labels, CallFields
<1>7. Shape(g)
  BY <1>1, <1>2, <1>4, <1>6 DEF Shape, Variant
<1>8. KeepsRole(f, g)
  BY <1>1, <1>2, <1>4, <1>6 DEF KeepsRole, Shape
<1>9. stack' = [stack EXCEPT ![t] = <<g>> \o Tail(stack[t])]
  BY <1>4, <1>5 DEF Goto, Become
<1> QED
  BY <1>1, <1>3, <1>6, <1>7, <1>8, <1>9, MoveStep

\* A busy TA is refused.
LEMMA RefusedStep ==
    ASSUME SInv, NEW t \in Threads, BusyRefused(t) PROVE SInv'
<1> DEFINE f == Top(t)
<1>1. stack[t] # <<>> /\ f.pc = "setbusy"
  BY DEF BusyRefused, At
<1>2. f \in Call /\ Shape(f)
  BY <1>1, TopCall DEF CallOK
<1>3. CASE f.op # "open"
  <2>1. UNCHANGED <<sess, heads, ctxes, stack>>
    BY <1>3 DEF BusyRefused, Stop
  <2> QED
    BY <2>1, UnchangedStep
<1>4. CASE f.op = "open"
  <2>1. PICK g : g = [f EXCEPT !.pc = "put", !.res = "busy"]
    OBVIOUS
  <2>2. Variant(f, g) /\ g.pc = "put"
    BY <2>1, <1>2 DEF Call, Variant, PC
  <2>3. Shape(g) /\ KeepsRole(f, g)
    BY <2>2, <1>1, <1>4 DEF Shape, KeepsRole, Variant
  <2>4. stack' = [stack EXCEPT ![t] = <<g>> \o Tail(stack[t])]
    BY <2>1, <1>4 DEF BusyRefused, Become
  <2>5. Data' /\ Unmoved /\ SameRefs
    <3>1. UNCHANGED <<sess, heads, ctxes>>
      BY <1>4 DEF BusyRefused
    <3> QED
      BY <3>1, SessionsSame DEF SInv, SessTypes, Data
  <2> QED
    BY <1>1, <2>2, <2>3, <2>4, <2>5, MoveStep
<1> QED
  BY <1>3, <1>4

\* A call begins in a session that it has locked.
LEMMA BeginStep ==
    ASSUME SInv, NEW t \in Threads, Begin(t) PROVE SInv'
<1> DEFINE f == Top(t)
<1>1. stack[t] # <<>> /\ f.pc = "begin"
  BY DEF Begin, At
<1>2. f \in Call /\ Shape(f) /\ CallOK(t, f)
  BY <1>1, TopCall DEF CallOK
<1>3. f.op \in {"invoke", "close"} /\ f.s \in Sessions /\ sess[f.s] # NULL
  BY <1>1, <1>2 DEF Shape, Call, CallOK, Owned, OwnsSession
<1>4. PICK c \in Ctxs \cup {NULL} : c = sess[f.s].ctx
  <2>1. sess[f.s] \in Session
    BY <1>3 DEF SInv, SessTypes, Data
  <2> QED
    BY <2>1 DEF Session
<1>5. PICK l : l = IF c # NULL /\ ~ctxs[c].panicked THEN "setbusy"
                   ELSE IF f.op = "close" THEN "unlink"
                   ELSE IF c = NULL THEN "put" ELSE "destroyctx"
  OBVIOUS
<1>6. PICK k : k = [f EXCEPT !.c = c]
  OBVIOUS
<1>7. k \in Call /\ k.op = f.op /\ k.c = c /\ k.s = f.s /\ k.h = f.h /\ k.ta = f.ta
  BY <1>2, <1>6 DEF Call
<1>8. PICK g : g = [k EXCEPT !.pc = l]
  OBVIOUS
<1>9. l \in {"setbusy", "unlink", "put", "destroyctx"}
      /\ (l \in {"put", "destroyctx"} => f.op = "invoke")
      /\ (l = "unlink" => f.op = "close")
  BY <1>3, <1>5
<1>10. Variant(f, g) /\ g.pc = l
  <2>1. l \in PC
    BY <1>9 DEF PC
  <2>2. Variant(k, g) /\ g.pc = l
    BY <2>1, <1>7, <1>8, CallFields
  <2> QED
    BY <2>2, <1>7 DEF Variant
<1>11. Shape(g) /\ KeepsRole(f, g)
  BY <1>1, <1>3, <1>9, <1>10 DEF Shape, KeepsRole, Variant
<1>12. stack' = [stack EXCEPT ![t] = <<g>> \o Tail(stack[t])]
  <2>1. Become(t, [k EXCEPT !.pc = IF k.c # NULL /\ ~ctxs[k.c].panicked THEN "setbusy"
                                   ELSE IF k.op = "close" THEN "unlink"
                                   ELSE IF k.c = NULL THEN "put" ELSE "destroyctx"])
    BY <1>4, <1>6 DEF Begin
  <2> QED
    BY <2>1, <1>5, <1>7, <1>8 DEF Become
<1>13. Data' /\ Unmoved /\ SameRefs
  <2>1. UNCHANGED <<sess, heads, ctxes>>
    BY DEF Begin
  <2> QED
    BY <2>1, SessionsSame DEF SInv, SessTypes, Data
<1> QED
  BY <1>1, <1>10, <1>11, <1>12, <1>13, MoveStep

\* An invoke finds its context panicked.
LEMMA AfterPanicStep ==
    ASSUME SInv, NEW t \in Threads, AfterPanic(t) PROVE SInv'
<1> DEFINE f == Top(t)
<1>1. stack[t] # <<>> /\ f.pc = "after"
  BY DEF AfterPanic, At
<1>2. f \in Call /\ Shape(f) /\ CallOK(t, f)
  BY <1>1, TopCall DEF CallOK
<1>3. f.op = "invoke" /\ f.s \in Sessions /\ sess[f.s] # NULL
  BY <1>1, <1>2 DEF Shape, Call, CallOK, Owned, OwnsSession
<1>4. PICK c \in Ctxs \cup {NULL} : c = sess[f.s].ctx
  <2>1. sess[f.s] \in Session
    BY <1>3 DEF SInv, SessTypes, Data
  <2> QED
    BY <2>1 DEF Session
<1>5. PICK g : g = [f EXCEPT !.pc = "destroyctx", !.c = c]
  OBVIOUS
<1>6. Variant(f, g) /\ g.pc = "destroyctx"
  BY <1>2, <1>5 DEF Call, Variant, PC
<1>7. Shape(g) /\ KeepsRole(f, g)
  BY <1>1, <1>3, <1>6 DEF Shape, KeepsRole, Variant
<1>8. stack' = [stack EXCEPT ![t] = <<g>> \o Tail(stack[t])]
  BY <1>4, <1>5 DEF AfterPanic, Become
<1>9. Data' /\ Unmoved /\ SameRefs
  <2>1. UNCHANGED <<sess, heads, ctxes>>
    BY DEF AfterPanic
  <2> QED
    BY <2>1, SessionsSame DEF SInv, SessTypes, Data
<1> QED
  BY <1>1, <1>6, <1>7, <1>8, <1>9, MoveStep

\* The TA is left: the session's cancellation is cleared.
LEMMA LeaveStep ==
    ASSUME SInv, NEW t \in Threads, EnterTooDeep(t) \/ TaReturns(t) \/ TaPanics(t)
    PROVE  SInv'
<1> DEFINE f == Top(t)
<1>1. stack[t] # <<>> /\ f.pc \in {"enter", "run"}
  BY DEF EnterTooDeep, TaReturns, TaPanics, At
<1>2. f \in Call /\ Shape(f) /\ CallOK(t, f)
  BY <1>1, TopCall DEF CallOK
<1>3. /\ f.op \in {"open", "invoke", "close"} /\ f.s \in Sessions
      /\ sess[f.s] # NULL
  BY <1>1, <1>2 DEF Shape, Call, CallOK, Owned, OwnsSession
<1>4. PICK e \in {"ok", "error"} : Leave(t, e)
  BY DEF EnterTooDeep, TaReturns, TaPanics
<1>5. PICK l : l = IF f.op = "close" THEN "unlink" ELSE "clear"
  OBVIOUS
<1>6. PICK g : g = [f EXCEPT !.res = e, !.pc = l]
  OBVIOUS
<1>7. Variant(f, g) /\ g.pc = l
  <2>1. l \in PC
    BY <1>5 DEF PC
  <2> QED
    BY <2>1, <1>2, <1>6 DEF Call, Variant
<1>8. Shape(g) /\ KeepsRole(f, g)
  BY <1>1, <1>2, <1>3, <1>5, <1>7 DEF Shape, KeepsRole, Variant
<1>9. stack' = [stack EXCEPT ![t] = <<g>> \o Tail(stack[t])]
  BY <1>4, <1>5, <1>6 DEF Leave, Become
<1>10. Data' /\ Unmoved /\ SameRefs
  <2>1. PICK s : s = f.s
    OBVIOUS
  <2>2. s \in Sessions /\ sess[s] # NULL /\ sess[s] \in Session
    BY <2>1, <1>3 DEF SInv, SessTypes, Data
  <2>3. PICK k : k = [sess[s] EXCEPT !.cancel = FALSE]
    OBVIOUS
  <2>4. /\ k \in Session /\ k.id = sess[s].id /\ k.ref = sess[s].ref
        /\ k.lock = sess[s].lock
    BY <2>2, <2>3 DEF Session
  <2>5. sess' = [sess EXCEPT ![s] = k]
    BY <2>1, <2>3, <1>4 DEF Leave
  <2>6. heads' = heads /\ ctxes' \in Seq(Ctxs)
    BY <1>4 DEF Leave, SInv, SessTypes, Data
  <2> QED
    BY <2>2, <2>4, <2>5, <2>6, SessionChanged
<1> QED
  BY <1>1, <1>7, <1>8, <1>9, <1>10, MoveStep

\* tee_ta_context_find() finds a context or none.
LEMMA CtxFindType ==
    ASSUME ctxes \in Seq(Ctxs), NEW ta
    PROVE  CtxFind(ta) \in Ctxs \cup {NULL}
<1> DEFINE found == {i \in DOMAIN ctxes : ctxs[ctxes[i]].ta = ta}
<1>1. found \in SUBSET Nat /\ \A i \in found : ctxes[i] \in Ctxs
  OBVIOUS
<1>2. CtxFind(ta) = IF found = {} THEN NULL ELSE ctxes[Min(found)]
  BY DEF CtxFind
<1> HIDE DEF found
<1>3. ASSUME found # {} PROVE Min(found) \in found
  <2>1. \E b \in found : \A a \in found : b <= a
    BY <1>1, <1>3, LeastNumber
  <2> QED
    BY <2>1 DEF Min
<1> QED
  BY <1>1, <1>2, <1>3

\* tee_ta_init_session_with_context(): the call goes on in one of four ways, and the
\* session may get a context.
InitResult(t, f, rest, S) ==
    \E l \in {"load", "init", "fail", "opened"} :
        /\ stack' = [stack EXCEPT ![t] = <<[f EXCEPT !.pc = l]>> \o rest]
        /\ sess' = S \/ \E c \in Ctxs : sess' = [S EXCEPT ![f.s].ctx = c]

\* InitWithContext has such a result.
LEMMA InitCtx ==
    ASSUME NEW t \in Threads, NEW f, NEW rest, NEW S, ctxes \in Seq(Ctxs),
           InitWithContext(t, f, rest, S)
    PROVE  InitResult(t, f, rest, S)
<1> DEFINE c == CtxFind(f.ta)
           l == IF c = NULL THEN "load"
                ELSE IF ctxs[c].init THEN "init"
                ELSE IF f.ta \notin Single THEN "load"
                ELSE IF f.ta \notin MultiSession /\ ctxs[c].ref > 0 THEN "fail"
                ELSE "opened"
<1>1. c \in Ctxs \cup {NULL}
  BY CtxFindType
<1>2. /\ stack' = [stack EXCEPT ![t] = <<[f EXCEPT !.pc = l]>> \o rest]
      /\ sess' = IF l = "opened" THEN [S EXCEPT ![f.s].ctx = c] ELSE S
  BY DEF InitWithContext
<1> HIDE DEF c
<1>3. l \in {"load", "init", "fail", "opened"} /\ (l = "opened" => c # NULL)
  OBVIOUS
<1> HIDE DEF l
<1> QED
  BY <1>1, <1>2, <1>3 DEF InitResult

\* The context is looked for again.
LEMMA OpenRetryStep ==
    ASSUME SInv, NEW t \in Threads, OpenRetry(t) PROVE SInv'
<1>1. stack[t] # <<>> /\ Top(t).pc = "init"
  BY DEF OpenRetry, At
<1>2. PICK f : f = Top(t)
  OBVIOUS
<1>3. f \in Call /\ Shape(f) /\ CallOK(t, f) /\ f.pc = "init"
  BY <1>1, <1>2, TopCall DEF CallOK
<1>4. f.op = "open" /\ f.s \in Sessions /\ sess[f.s] # NULL
  BY <1>3 DEF Shape, Call, CallOK, Owned, OwnsSession
<1>5. ctxes \in Seq(Ctxs) /\ sess[f.s] \in Session
  BY <1>4 DEF SInv, SessTypes, Data
<1>6. PICK rest, S : rest = Tail(stack[t]) /\ S = sess
  OBVIOUS
<1>7. InitWithContext(t, f, rest, S)
  BY <1>2, <1>6 DEF OpenRetry
<1>8. PICK l \in {"load", "init", "fail", "opened"} :
              /\ stack' = [stack EXCEPT ![t] = <<[f EXCEPT !.pc = l]>> \o rest]
              /\ sess' = S \/ \E c \in Ctxs : sess' = [S EXCEPT ![f.s].ctx = c]
  <2>1. InitResult(t, f, rest, S)
    BY <1>5, <1>7, InitCtx
  <2> QED
    BY <2>1 DEF InitResult
<1>9. PICK g : g = [f EXCEPT !.pc = l]
  OBVIOUS
<1>10. Variant(f, g) /\ g.pc = l
  BY <1>3, <1>9, Labels, CallFields
<1>11. Shape(g) /\ KeepsRole(f, g)
  BY <1>3, <1>4, <1>8, <1>10 DEF Shape, KeepsRole, Variant
<1>12. stack' = [stack EXCEPT ![t] = <<g>> \o Tail(stack[t])]
  BY <1>6, <1>8, <1>9
<1>13. heads' = heads /\ ctxes' \in Seq(Ctxs)
  BY <1>5 DEF OpenRetry
<1>14. Data' /\ Unmoved /\ SameRefs
  <2>1. CASE sess' = S
    BY <2>1, <1>6, <1>13, SessionsSame
  <2>2. ASSUME NEW c \in Ctxs, sess' = [S EXCEPT ![f.s].ctx = c]
        PROVE  Data' /\ Unmoved /\ SameRefs
    <3>1. PICK k : k = [sess[f.s] EXCEPT !.ctx = c]
      OBVIOUS
    <3>2. /\ k \in Session /\ k.id = sess[f.s].id /\ k.ref = sess[f.s].ref
          /\ k.lock = sess[f.s].lock
      BY <3>1, <1>5 DEF Session
    <3>3. sess' = [sess EXCEPT ![f.s] = k]
      BY <2>2, <3>1, <1>6
    <3>4. PICK s \in Sessions : s = f.s
      BY <1>4
    <3> QED
      BY <1>4, <1>13, <3>2, <3>3, <3>4, SessionChanged
  <2> QED
    BY <1>8, <2>1, <2>2
<1> QED
  BY <1>1, <1>2, <1>10, <1>11, <1>12, <1>14, MoveStep

\* The TA of the new session is entered, or the session is closed.
LEMMA OpenedStep ==
    ASSUME SInv, NEW t \in Threads, Opened(t) PROVE SInv'
<1>1. stack[t] # <<>> /\ Top(t).pc = "opened"
  BY DEF Opened, At
<1>2. PICK f : f = Top(t)
  OBVIOUS
<1>3. f \in Call /\ Shape(f) /\ CallOK(t, f) /\ f.pc = "opened"
  BY <1>1, <1>2, TopCall DEF CallOK
<1>4. f.op = "open" /\ f.s \in Sessions /\ sess[f.s] # NULL /\ f.h \in Heads
  BY <1>3 DEF Shape, Call, CallOK, Owned, OwnsSession
<1>5. PICK c \in Ctxs \cup {NULL} : c = sess[f.s].ctx
  <2>1. sess[f.s] \in Session
    BY <1>4 DEF SInv, SessTypes, Data
  <2> QED
    BY <2>1 DEF Session
<1>6. Data' /\ Unmoved /\ SameRefs
  <2>1. UNCHANGED <<sess, heads, ctxes>>
    BY DEF Opened
  <2> QED
    BY <2>1, SessionsSame DEF SInv, SessTypes, Data
<1>7. PICK k : k = [f EXCEPT !.c = c]
  OBVIOUS
<1>8. k \in Call /\ k.op = f.op /\ k.c = c /\ k.s = f.s /\ k.h = f.h /\ k.ta = f.ta
  BY <1>3, <1>7 DEF Call
<1>9. ASSUME NEW l \in {"dead", "setbusy"}, NEW g, g = [k EXCEPT !.pc = l]
      PROVE  SameRole(f, g)
  <2>1. Variant(k, g) /\ g.pc = l
    BY <1>8, <1>9, Labels, CallFields
  <2>2. Variant(f, g)
    BY <2>1, <1>8 DEF Variant
  <2>3. Shape(g) /\ KeepsRole(f, g)
    BY <2>1, <2>2, <1>3, <1>4, <1>9 DEF Shape, KeepsRole, Variant
  <2> QED
    BY <2>2, <2>3, <1>3, RoleOf
<1>10. \/ Calling(t, [k EXCEPT !.pc = "dead"], CloseCall(k.h, k.s))
       \/ Become(t, [k EXCEPT !.pc = "setbusy"])
  BY <1>2, <1>5, <1>7 DEF Opened
<1>11. CASE Calling(t, [k EXCEPT !.pc = "dead"], CloseCall(k.h, k.s))
  <2>1. PICK g : g = [k EXCEPT !.pc = "dead"]
    OBVIOUS
  <2>2. SameRole(Top(t), g)
    BY <2>1, <1>2, <1>9
  <2>3. PICK h \in Heads, s \in Sessions : h = k.h /\ s = k.s
    BY <1>4, <1>8
  <2>4. Calling(t, g, CloseCall(h, s))
    BY <2>1, <2>3, <1>11
  <2> QED
    BY <2>2, <2>4, <1>1, <1>6, CallingStep
<1>12. CASE Become(t, [k EXCEPT !.pc = "setbusy"])
  <2>1. PICK g : g = [k EXCEPT !.pc = "setbusy"]
    OBVIOUS
  <2>2. SameRole(Top(t), g)
    BY <2>1, <1>2, <1>9
  <2>3. stack' = [stack EXCEPT ![t] = <<g>> \o Tail(stack[t])]
    BY <2>1, <1>12 DEF Become
  <2> QED
    BY <2>2, <2>3, <1>1, <1>6, BecomeStep
<1> QED
  BY <1>10, <1>11, <1>12

\* An open that failed ends.
LEMMA OpenEndStep ==
    ASSUME SInv, NEW t \in Threads, OpenEnd(t) PROVE SInv'
<1>1. stack[t] # <<>> /\ Top(t).pc \in {"dead", "origin"} /\ Return(t)
      /\ UNCHANGED <<sess, heads, ctxes>>
  BY DEF OpenEnd, At
<1>2. Top(t) \in Call /\ Shape(Top(t))
  BY <1>1, TopCall DEF CallOK
<1>3. Top(t) \notin Locking(Top(t).s)
  BY <1>1, <1>2 DEF Locking, Shape
<1>4. Data' /\ Unmoved /\ SameRefs
  BY <1>1, SessionsSame DEF SInv, SessTypes, Data
<1> QED
  BY <1>1, <1>3, <1>4, ReturnStep

\* The reference on the context is given back.
LEMMA ReleaseStep ==
    ASSUME SInv, NEW t \in Threads, Release(t) PROVE SInv'
<1>1. stack[t] # <<>> /\ Top(t).pc = "release"
  BY DEF Release, At
<1>2. PICK f : f = Top(t)
  OBVIOUS
<1>3. f \in Call /\ Shape(f) /\ f.pc = "release"
  BY <1>1, <1>2, TopCall DEF CallOK
<1>4. f.op = "close" /\ f.c # NULL
  BY <1>3 DEF Shape, Call
<1>5. \/ UNCHANGED <<sess, heads, ctxes, stack>>
      \/ UNCHANGED <<sess, heads>> /\ ctxes' = Without(ctxes, f.c) /\ Goto(t, "destroy")
      \/ UNCHANGED <<sess, heads, ctxes>> /\ Return(t)
  BY <1>2 DEF Release, Stop
<1>6. CASE UNCHANGED <<sess, heads, ctxes, stack>>
  BY <1>6, UnchangedStep
<1>7. CASE UNCHANGED <<sess, heads>> /\ ctxes' = Without(ctxes, f.c) /\ Goto(t, "destroy")
  <2>1. ctxes' \in Seq(Ctxs)
    BY <1>7, WithoutType DEF SInv, SessTypes, Data
  <2>2. Data' /\ Unmoved /\ SameRefs
    BY <2>1, <1>7, SessionsSame
  <2>3. PICK g : g = [f EXCEPT !.pc = "destroy"]
    OBVIOUS
  <2>4. Variant(f, g) /\ g.pc = "destroy" /\ g.c = f.c
    BY <1>3, <2>3, Labels, CallFields
  <2>5. Shape(g) /\ KeepsRole(f, g)
    BY <1>3, <1>4, <2>4 DEF Shape, KeepsRole, Variant
  <2>6. stack' = [stack EXCEPT ![t] = <<g>> \o Tail(stack[t])]
    BY <1>2, <1>7, <2>3 DEF Goto, Become
  <2> QED
    BY <1>1, <1>2, <2>2, <2>4, <2>5, <2>6, MoveStep
<1>8. CASE UNCHANGED <<sess, heads, ctxes>> /\ Return(t)
  <2>1. Top(t) \notin Locking(Top(t).s)
    BY <1>2, <1>3, <1>4 DEF Locking, Owned, OwnsSession
  <2>2. Data' /\ Unmoved /\ SameRefs
    BY <1>8, SessionsSame DEF SInv, SessTypes, Data
  <2> QED
    BY <1>1, <1>8, <2>1, <2>2, ReturnStep
<1> QED
  BY <1>5, <1>6, <1>7, <1>8

\* A call has the same part as itself.
LEMMA SameRoleSelf ==
    ASSUME NEW f \in Call, Shape(f) PROVE SameRole(f, f)
  BY DEF SameRole

\* The sessions of a panicked context lose it.
LEMMA DestroyTaCtxStep ==
    ASSUME SInv, NEW t \in Threads, DestroyTaCtx(t) PROVE SInv'
<1>1. stack[t] # <<>> /\ Top(t).pc = "destroyctx"
  BY DEF DestroyTaCtx, At
<1>2. PICK f : f = Top(t)
  OBVIOUS
<1>3. f \in Call /\ Shape(f) /\ f.pc = "destroyctx"
  BY <1>1, <1>2, TopCall DEF CallOK
<1>4. f.op = "invoke"
  BY <1>3 DEF Shape, Call
<1>5. PICK refs : refs = RefsTo(f)
  OBVIOUS
<1>6. \/ UNCHANGED <<sess, heads, ctxes, stack>>
      \/ /\ f.c # NULL
         /\ sess' = [s \in Sessions |->
               IF s \in refs THEN [sess[s] EXCEPT !.ctx = NULL] ELSE sess[s]]
         /\ ctxes' = Without(ctxes, f.c)
         /\ Goto(t, "destroy")
         /\ heads' = heads
  <2>1. CASE f.c = NULL
    BY <2>1, <1>2 DEF DestroyTaCtx, Stop
  <2>2. CASE f.c # NULL
    <3>1. CASE Cardinality(refs) + 1 # ctxs[f.c].ref
      BY <2>2, <3>1, <1>2, <1>5 DEF DestroyTaCtx, Stop
    <3>2. CASE ~(Cardinality(refs) + 1 # ctxs[f.c].ref)
      BY <2>2, <3>2, <1>2, <1>5 DEF DestroyTaCtx
    <3> QED
      BY <3>1, <3>2
  <2> QED
    BY <2>1, <2>2
<1>7. CASE UNCHANGED <<sess, heads, ctxes, stack>>
  BY <1>7, UnchangedStep
<1>8. ASSUME f.c # NULL,
             sess' = [s \in Sessions |->
               IF s \in refs THEN [sess[s] EXCEPT !.ctx = NULL] ELSE sess[s]],
             ctxes' = Without(ctxes, f.c), Goto(t, "destroy"), heads' = heads
      PROVE  SInv'
  <2>1. /\ sess \in [Sessions -> Session \cup {NULL}] /\ ctxes \in Seq(Ctxs)
        /\ heads \in [Heads -> Seq(Sessions)] /\ ListsOK
    BY DEF SInv, SessTypes, Data
  <2>2. ASSUME NEW s \in refs PROVE sess[s] # NULL /\ s \in Sessions
    <3>1. Range(ctxes) \subseteq Ctxs
      BY <2>1 DEF Range
    <3>2. \E h \in Heads : s \in Range(heads[h])
      BY <3>1, <1>5 DEF RefsTo, Heads
    <3>3. s \in Sessions
      BY <3>2, <2>1 DEF Range
    <3> QED
      BY <3>2, <3>3, <2>1 DEF ListsOK
  <2>3. ASSUME NEW s \in Sessions
        PROVE  /\ sess'[s] \in Session \cup {NULL} /\ (sess'[s] = NULL <=> sess[s] = NULL)
               /\ sess[s] # NULL => /\ sess'[s].id = sess[s].id
                                    /\ sess'[s].ref = sess[s].ref
                                    /\ sess'[s].lock = sess[s].lock
    <3>1. CASE s \in refs
      <4>1. sess[s] \in Session
        BY <3>1, <2>1, <2>2
      <4>2. PICK k : k = [sess[s] EXCEPT !.ctx = NULL]
        OBVIOUS
      <4>3. /\ k \in Session /\ k.id = sess[s].id /\ k.ref = sess[s].ref
            /\ k.lock = sess[s].lock
        BY <4>1, <4>2 DEF Session
      <4>4. k # NULL /\ sess'[s] = k
        BY <4>2, <4>3, <3>1, <1>8, NullAssumption
      <4> QED
        BY <4>3, <4>4, <2>2, <3>1
    <3>2. CASE s \notin refs
      BY <3>2, <2>1, <1>8
    <3> QED
      BY <3>1, <3>2
  <2>4. ctxes' \in Seq(Ctxs)
    BY <1>8, <2>1, WithoutType
  <2>5. Data'
    <3>1. sess' \in [Sessions -> Session \cup {NULL}]
      BY <2>3, <1>8
    <3> QED
      BY <3>1, <2>1, <2>4, <1>8 DEF Data
  <2>6. Unmoved /\ SameRefs
    BY <2>3, <1>8 DEF Unmoved, SameRefs
  <2>7. PICK g : g = [f EXCEPT !.pc = "destroy"]
    OBVIOUS
  <2>8. Variant(f, g) /\ g.pc = "destroy" /\ g.c = f.c
    BY <1>3, <2>7, Labels, CallFields
  <2>9. Shape(g) /\ KeepsRole(f, g)
    BY <1>3, <1>4, <1>8, <2>8 DEF Shape, KeepsRole, Variant
  <2>10. stack' = [stack EXCEPT ![t] = <<g>> \o Tail(stack[t])]
    BY <1>2, <1>8, <2>7 DEF Goto, Become
  <2> QED
    BY <1>1, <1>2, <2>5, <2>6, <2>8, <2>9, <2>10, MoveStep
<1> QED
  BY <1>6, <1>7, <1>8

\* A context is destroyed, after the sessions that its TA has opened.
LEMMA DestroyContextStep ==
    ASSUME SInv, NEW t \in Threads, DestroyContext(t) PROVE SInv'
<1>1. stack[t] # <<>> /\ Top(t).pc = "destroy"
  BY DEF DestroyContext, At
<1>2. PICK f : f = Top(t)
  OBVIOUS
<1>3. f \in Call /\ Shape(f) /\ f.pc = "destroy" /\ CallOK(t, f)
  BY <1>1, <1>2, TopCall DEF CallOK
<1>4. f.op \in {"invoke", "close"} /\ f.c \in Heads /\ f.s \in Sessions
  <2>1. f.s \in Sessions
    BY <1>3 DEF CallOK
  <2>2. f.op \in {"open", "invoke", "close", "cancel"} /\ f.c \in Ctxs \cup {NULL}
    BY <1>3 DEF Call
  <2>3. f.op \in {"invoke", "close"} /\ f.c # NULL
    BY <2>2, <1>3 DEF Shape
  <2> QED
    BY <2>1, <2>2, <2>3 DEF Heads
<1>5. \/ UNCHANGED <<sess, heads, ctxes, stack>>
      \/ /\ heads[f.c] # <<>>
         /\ Calling(t, f, CloseCall(f.c, Head(heads[f.c])))
         /\ UNCHANGED <<sess, heads, ctxes>>
      \/ f.op = "close" /\ Return(t) /\ UNCHANGED <<sess, heads, ctxes>>
      \/ /\ f.op # "close"
         /\ Become(t, [f EXCEPT !.pc = "put", !.c = NULL])
         /\ sess' = [sess EXCEPT ![f.s].ctx = NULL]
         /\ UNCHANGED <<heads, ctxes>>
  BY <1>2 DEF DestroyContext, Stop
<1>6. ASSUME UNCHANGED <<sess, heads, ctxes>> PROVE Data' /\ Unmoved /\ SameRefs
  BY <1>6, SessionsSame DEF SInv, SessTypes, Data
<1>7. CASE UNCHANGED <<sess, heads, ctxes, stack>>
  BY <1>7, UnchangedStep
<1>8. CASE /\ heads[f.c] # <<>>
           /\ Calling(t, f, CloseCall(f.c, Head(heads[f.c])))
           /\ UNCHANGED <<sess, heads, ctxes>>
  <2>1. heads[f.c] \in Seq(Sessions)
    BY <1>4 DEF SInv, SessTypes, Data
  <2>2. PICK h \in Heads, s \in Sessions : h = f.c /\ s = Head(heads[f.c])
    BY <2>1, <1>4, <1>8
  <2>3. SameRole(Top(t), f)
    BY <1>2, <1>3, SameRoleSelf
  <2>4. Calling(t, f, CloseCall(h, s))
    BY <2>2, <1>8
  <2> QED
    BY <1>1, <1>6, <1>8, <2>3, <2>4, CallingStep
<1>9. CASE f.op = "close" /\ Return(t) /\ UNCHANGED <<sess, heads, ctxes>>
  <2>1. Top(t) \notin Locking(Top(t).s)
    BY <1>2, <1>3, <1>9 DEF Locking, Owned, OwnsSession
  <2> QED
    BY <1>1, <1>6, <1>9, <2>1, ReturnStep
<1>10. CASE /\ f.op # "close"
            /\ Become(t, [f EXCEPT !.pc = "put", !.c = NULL])
            /\ sess' = [sess EXCEPT ![f.s].ctx = NULL]
            /\ UNCHANGED <<heads, ctxes>>
  <2>1. f.op = "invoke"
    BY <1>4, <1>10
  <2>2. sess[f.s] # NULL
    BY <2>1, <1>3 DEF CallOK, Owned, OwnsSession
  <2>3. sess[f.s] \in Session /\ ctxes \in Seq(Ctxs)
    BY <2>2, <1>4 DEF SInv, SessTypes, Data
  <2>4. PICK k : k = [sess[f.s] EXCEPT !.ctx = NULL]
    OBVIOUS
  <2>5. /\ k \in Session /\ k.id = sess[f.s].id /\ k.ref = sess[f.s].ref
        /\ k.lock = sess[f.s].lock
    BY <2>3, <2>4 DEF Session
  <2>6. PICK s \in Sessions : s = f.s
    BY <1>4
  <2>7. sess' = [sess EXCEPT ![s] = k] /\ heads' = heads /\ ctxes' \in Seq(Ctxs)
    BY <2>3, <2>4, <2>6, <1>10
  <2>8. Data' /\ Unmoved /\ SameRefs
    BY <2>2, <2>5, <2>6, <2>7, SessionChanged
  <2>9. PICK g : g = [f EXCEPT !.pc = "put", !.c = NULL]
    OBVIOUS
  <2>10. Variant(f, g) /\ g.pc = "put"
    BY <2>9, <1>3 DEF Call, Variant, PC
  <2>11. Shape(g) /\ KeepsRole(f, g)
    BY <1>3, <2>1, <2>10 DEF Shape, KeepsRole, Variant
  <2>12. stack' = [stack EXCEPT ![t] = <<g>> \o Tail(stack[t])]
    BY <1>2, <1>10, <2>9 DEF Become
  <2> QED
    BY <1>1, <1>2, <2>8, <2>10, <2>11, <2>12, MoveStep
<1> QED
  BY <1>5, <1>7, <1>8, <1>9, <1>10

\* The session with an id, where there is one.
LEMMA FindSession ==
    ASSUME SInv, NEW h \in Heads, NEW X \in SUBSET (DOMAIN heads[h]), X # {}
    PROVE  /\ Min(X) \in X
           /\ heads[h][Min(X)] \in Sessions /\ heads[h][Min(X)] \in Range(heads[h])
           /\ sess[heads[h][Min(X)]] # NULL
<1>1. heads[h] \in Seq(Sessions) /\ ListsOK
  BY DEF SInv, SessTypes, Data
<1>2. X \in SUBSET Nat
  BY <1>1
<1>3. \E b \in X : \A a \in X : b <= a
  BY <1>2, LeastNumber
<1>4. Min(X) \in X
  BY <1>3 DEF Min
<1>5. heads[h][Min(X)] \in Sessions /\ heads[h][Min(X)] \in Range(heads[h])
  BY <1>1, <1>4 DEF Range
<1> QED
  BY <1>1, <1>4, <1>5 DEF ListsOK

\* A client asks for a close.
LEMMA CloseStep ==
    ASSUME SInv, NEW t \in Threads, NEW h \in Heads, NEW s \in Sessions, Close(t, h, s)
    PROVE  SInv'
<1>1. Find(h, sess[s].id) \in SUBSET (DOMAIN heads[h])
  BY DEF Find
<1>2. Find(h, sess[s].id) # {}
  <2>1. PICK i \in DOMAIN heads[h] : heads[h][i] = s
    BY DEF Close, Known, Range
  <2>2. i \in Find(h, sess[s].id)
    BY <2>1 DEF Find
  <2> QED
    BY <2>2
<1>3. PICK r \in Sessions : r = heads[h][Min(Find(h, sess[s].id))]
  BY <1>1, <1>2, FindSession
<1>4. PICK g : g = CloseCall(h, r)
  OBVIOUS
<1>5. /\ g \in Call /\ g.op = "close" /\ CallOK(t, g)
      /\ \A x \in Sessions : /\ Ind(g, Owned(x)) = 0 /\ Ind(g, Locking(x)) = 0
                             /\ Ind(g, Opening(x)) = 0
  BY <1>4, CloseCallOK
<1>6. stack' = [stack EXCEPT ![t] = <<g>> \o stack[t]]
  BY <1>3, <1>4 DEF Close
<1>7. g \notin Opening(g.s)
  BY <1>5 DEF Opening
<1>8. Frames(t, {g}) /\ Counts(LAMBDA F : Ind(g, F)) /\ NestedOK'
  BY <1>5, <1>6, <1>7, PushFrames
<1>9. \A F : /\ Cnt(stack, F) \in Nat /\ Cnt(stack', F) \in Nat
             /\ Cnt(stack', F) = Cnt(stack, F) + Ind(g, F)
  BY <1>8 DEF Counts
<1>10. NoMoreCalls
  <2>1. ASSUME NEW F, Ind(g, F) = 0
        PROVE  Cnt(stack', F) = Cnt(stack, F) /\ Cnt(stack', F) <= Cnt(stack, F)
    BY <2>1, <1>9
  <2> QED
    BY <2>1, <1>5 DEF NoMoreCalls
<1>11. Data' /\ Unmoved /\ SameRefs
  <2>1. UNCHANGED <<sess, heads, ctxes>>
    BY DEF Close
  <2> QED
    BY <2>1, SessionsSame DEF SInv, SessTypes, Data
<1>12. CallsGood(t, {g})
  BY <1>5 DEF CallsGood
<1> QED
  BY <1>8, <1>10, <1>11, <1>12, QuietStep

-----------------------------------------------------------------------------
(* References are taken and given back.                                    *)

\* A session that a call owns a reference of has a reference.
LEMMA RefPositive ==
    ASSUME SInv, NEW t \in Threads, NEW f \in Range(stack[t]), NEW s \in Sessions,
           f \in Owned(s)
    PROVE  /\ sess[s] # NULL /\ sess[s] \in Session
           /\ sess[s].ref \in Nat /\ sess[s].ref >= 1
<1>1. stack \in Stacks
  BY DEF SInv, SessTypes
<1>2. Cnt(stack, Owned(s)) # 0 /\ Cnt(stack, Owned(s)) \in Nat
  BY <1>1, CntZero
<1>3. CountOK(s)
  BY DEF SInv, CountsOK
<1>4. sess[s] # NULL
  BY <1>2, <1>3 DEF CountOK
<1>5. sess[s] \in Session
  BY <1>4 DEF SInv, SessTypes, Data
<1>6. sess[s].ref \in Nat
  BY <1>5 DEF Session
<1> QED
  BY <1>2, <1>3, <1>4, <1>5, <1>6 DEF CountOK

\* A session is replaced by k.
Replaced(s, k) ==
    /\ k \in Session /\ k.id = sess[s].id
    /\ sess' = [sess EXCEPT ![s] = k]
    /\ UNCHANGED <<heads, ctxes>>

\* A session is replaced by one with the same id.
LEMMA ReplacedData ==
    ASSUME SInv, NEW s \in Sessions, sess[s] # NULL, NEW k, Replaced(s, k)
    PROVE  /\ Data' /\ Unmoved
           /\ sess'[s] = k
           /\ \A r \in Sessions \ {s} : SameRef(r)
<1>1. /\ sess \in [Sessions -> Session \cup {NULL}] /\ heads \in [Heads -> Seq(Sessions)]
      /\ ctxes \in Seq(Ctxs)
  BY DEF SInv, SessTypes, Data
<1>2. sess' \in [Sessions -> Session \cup {NULL}]
  BY <1>1 DEF Replaced
<1>3. sess'[s] = k /\ \A r \in Sessions : r # s => sess'[r] = sess[r]
  BY <1>1 DEF Replaced
<1>4. k # NULL /\ k.id = sess[s].id /\ heads' = heads /\ ctxes' = ctxes
  BY NullAssumption DEF Replaced
<1>5. Data'
  BY <1>1, <1>2, <1>4 DEF Data
<1>6. Unmoved
  BY <1>3, <1>4 DEF Unmoved
<1> QED
  BY <1>3, <1>5, <1>6 DEF SameRef

\* The innermost call of t is gone from the counts.
TopGone(t) ==
    \A r \in Sessions :
        /\ Cnt(stack', Owned(r)) = Cnt(stack, Owned(r)) - Ind(Top(t), Owned(r))
        /\ Cnt(stack', Locking(r)) = Cnt(stack, Locking(r)) - Ind(Top(t), Locking(r))
        /\ Cnt(stack', Opening(r)) = Cnt(stack, Opening(r)) - Ind(Top(t), Opening(r))

\* The calls own nothing.
NoOwners(G) == \A f \in G : \A r \in Sessions : f \notin Owned(r)

\* The innermost call gives its reference back, and its lock if it has it.
LEMMA DropStep ==
    ASSUME SInv, NEW t \in Threads, stack[t] # <<>>, NEW s \in Sessions, s = Top(t).s,
           Top(t) \in Owned(s), NEW k, Replaced(s, k), k.ref = sess[s].ref - 1,
           k.lock = IF Top(t) \in Locking(s) THEN NULL ELSE sess[s].lock,
           NEW G, Frames(t, G), NestedOK', CallsPlaced(G), NoOwners(G), TopGone(t)
    PROVE  SInv'
<1>1. Top(t) \in Range(stack[t]) /\ CallOK(t, Top(t)) /\ Top(t) \in Call
  BY TopCall
<1>2. /\ sess[s] # NULL /\ sess[s] \in Session
      /\ sess[s].ref \in Nat /\ sess[s].ref >= 1
  BY <1>1, RefPositive
<1>3. /\ Data' /\ Unmoved /\ sess'[s] = k
      /\ \A r \in Sessions \ {s} : SameRef(r)
  BY <1>2, ReplacedData
<1>4. Top(t) \in Locking(s) => sess[s].lock = t
  BY <1>1 DEF CallOK
<1>5. PICK l \in Int : l = 0 - Ind(Top(t), Locking(s))
  BY DEF Ind
<1>6. \A F : Cnt(stack, F) \in Nat
  BY CntNat
<1>7. OneSession(t, s, -1, l)
  <2>1. ASSUME NEW r \in Sessions \ {s} PROVE NoMore(r) /\ SameRef(r)
    <3>1. Top(t) \notin Owned(r) /\ Top(t) \notin Locking(r) /\ Top(t) \notin Opening(r)
      BY Roles
    <3>2. /\ Ind(Top(t), Owned(r)) = 0 /\ Ind(Top(t), Locking(r)) = 0
          /\ Ind(Top(t), Opening(r)) = 0
      BY <3>1 DEF Ind
    <3>3. /\ Cnt(stack', Owned(r)) = Cnt(stack, Owned(r)) - 0
          /\ Cnt(stack', Locking(r)) = Cnt(stack, Locking(r)) - 0
          /\ Cnt(stack', Opening(r)) = Cnt(stack, Opening(r)) - 0
      BY <3>2 DEF TopGone
    <3> QED
      BY <3>3, <1>3, <1>6 DEF NoMore
  <2>2. Ind(Top(t), Owned(s)) = 1 /\ Ind(Top(t), Opening(s)) \in {0, 1}
    BY DEF Ind
  <2>3. /\ Cnt(stack', Owned(s)) = Cnt(stack, Owned(s)) - Ind(Top(t), Owned(s))
        /\ Cnt(stack', Locking(s)) = Cnt(stack, Locking(s)) - Ind(Top(t), Locking(s))
        /\ Cnt(stack', Opening(s)) = Cnt(stack, Opening(s)) - Ind(Top(t), Opening(s))
    BY DEF TopGone
  <2>4. /\ Cnt(stack', Opening(s)) <= Cnt(stack, Opening(s))
        /\ Cnt(stack', Owned(s)) = Cnt(stack, Owned(s)) + (-1)
    BY <2>2, <2>3, <1>6
  <2>5. Cnt(stack', Locking(s)) = Cnt(stack, Locking(s)) + l
    <3>1. Ind(Top(t), Locking(s)) \in Int
      BY DEF Ind
    <3> QED
      BY <3>1, <2>3, <1>5, <1>6
  <2>6. sess'[s].ref = sess[s].ref + (-1)
    BY <1>2, <1>3
  <2>7. CASE Top(t) \in Locking(s)
    <3>1. l = -1
      BY <2>7, <1>5 DEF Ind
    <3>2. sess[s].lock # NULL /\ sess'[s].lock = NULL
      BY <2>7, <1>3, <1>4, TaManagerAssumption
    <3> QED
      BY <2>1, <2>4, <2>5, <2>6, <3>1, <3>2 DEF OneSession
  <2>8. CASE Top(t) \notin Locking(s)
    <3>1. l = 0
      <4>1. Ind(Top(t), Locking(s)) = 0
        BY <2>8 DEF Ind
      <4> QED
        BY <4>1, <1>5
    <3>2. sess'[s].lock = sess[s].lock
      BY <2>8, <1>3, <1>4
    <3> QED
      BY <2>1, <2>4, <2>5, <2>6, <3>1, <3>2 DEF OneSession
  <2> QED
    BY <2>7, <2>8
<1>8. CallsLock(t, s, G)
  BY Roles DEF CallsLock, NoOwners, CallsPlaced, Placed
<1> QED
  BY <1>2, <1>3, <1>7, <1>8, OneSessionStep

\* tee_ta_put_session() in the session of the innermost call: it is the thread's
\* lock that is given back, which is the call's.
LEMMA PutStep ==
    ASSUME SInv, NEW t \in Threads, stack[t] # <<>>, NEW s \in Sessions, s = Top(t).s,
           Top(t) \in Owned(s), Top(t) \in Locking(s) \/ Top(t).op \in {"open", "cancel"},
           NEW k, Replaced(s, k), k.ref = sess[s].ref - 1,
           k.lock = IF sess[s].lock = t THEN NULL ELSE sess[s].lock,
           NEW G, Frames(t, G), NestedOK', CallsPlaced(G), NoOwners(G), TopGone(t)
    PROVE  SInv'
<1>1. CallOK(t, Top(t))
  BY TopCall
<1>2. ASSUME Top(t) \in Locking(s) PROVE sess[s].lock = t
  BY <1>1, <1>2 DEF CallOK
<1>3. ASSUME Top(t).op \in {"open", "cancel"}
      PROVE  sess[s].lock # t /\ Top(t) \notin Locking(s)
  BY <1>3, NotLocked DEF Locking
<1>4. k.lock = IF Top(t) \in Locking(s) THEN NULL ELSE sess[s].lock
  BY <1>2, <1>3
<1> QED
  BY <1>4, DropStep

\* A return takes the innermost call away.
LEMMA ReturnGone ==
    ASSUME SInv, NEW t \in Threads, stack[t] # <<>>, Return(t)
    PROVE  /\ Frames(t, {}) /\ NestedOK' /\ CallsPlaced({}) /\ NoOwners({}) /\ TopGone(t)
<1>1. Frames(t, {}) /\ Counts(LAMBDA F : -Ind(Top(t), F)) /\ NestedOK'
  BY ReturnFrames
<1>2. \A F : /\ Cnt(stack, F) \in Nat
             /\ Cnt(stack', F) = Cnt(stack, F) + (-Ind(Top(t), F))
  BY <1>1 DEF Counts
<1>3. \A F : Ind(Top(t), F) \in Nat
  BY DEF Ind
<1>4. \A F : Cnt(stack', F) = Cnt(stack, F) - Ind(Top(t), F)
  BY <1>2, <1>3
<1> QED
  BY <1>1, <1>4 DEF TopGone, CallsPlaced, NoOwners

\* What tee_ta_put_session() leaves of the session, another field of which may
\* have changed.
LEMMA PutRecord ==
    ASSUME SInv, NEW t \in Threads, NEW s \in Sessions, sess[s] \in Session,
           sess[s].ref \in Nat, sess[s].ref >= 1, NEW b \in BOOLEAN, UNCHANGED <<heads, ctxes>>,
           \/ PutSession(t, s, sess)
           \/ PutSession(t, s, [sess EXCEPT ![s].told = b])
           \/ PutSession(t, s, [sess EXCEPT ![s].cancel = b])
    PROVE  \E k : /\ Replaced(s, k) /\ k.ref = sess[s].ref - 1
                  /\ k.lock = IF sess[s].lock = t THEN NULL ELSE sess[s].lock
<1>1. sess \in [Sessions -> Session \cup {NULL}]
  BY DEF SInv, SessTypes, Data
<1>2. PICK m : m = IF sess[s].lock = t THEN NULL ELSE sess[s].lock
  OBVIOUS
<1>3. m \in Threads \cup {NULL} /\ sess[s].ref - 1 \in Nat
  BY <1>2 DEF Session
<1>4. ASSUME NEW a \in Session, a.id = sess[s].id, a.ref = sess[s].ref, a.lock = sess[s].lock,
             sess' = [sess EXCEPT ![s] = [a EXCEPT !.ref = sess[s].ref - 1, !.lock = m]]
      PROVE  \E k : /\ Replaced(s, k) /\ k.ref = sess[s].ref - 1
                    /\ k.lock = IF sess[s].lock = t THEN NULL ELSE sess[s].lock
  <2>1. PICK k : k = [a EXCEPT !.ref = sess[s].ref - 1, !.lock = m]
    OBVIOUS
  <2>2. k \in Session /\ k.id = sess[s].id /\ k.ref = sess[s].ref - 1 /\ k.lock = m
    BY <2>1, <1>3, <1>4 DEF Session
  <2> QED
    BY <1>2, <1>4, <2>1, <2>2 DEF Replaced
<1>5. CASE PutSession(t, s, sess)
  BY <1>1, <1>2, <1>4, <1>5 DEF PutSession
<1>6. CASE PutSession(t, s, [sess EXCEPT ![s].told = b])
  <2>1. PICK a : a = [sess[s] EXCEPT !.told = b]
    OBVIOUS
  <2>2. a \in Session /\ a.id = sess[s].id /\ a.ref = sess[s].ref /\ a.lock = sess[s].lock
    BY <2>1 DEF Session
  <2>3. sess' = [sess EXCEPT ![s] = [a EXCEPT !.ref = sess[s].ref - 1, !.lock = m]]
    BY <1>1, <1>2, <1>6, <2>1, <2>2 DEF PutSession
  <2> QED
    BY <2>2, <2>3, <1>4
<1>7. CASE PutSession(t, s, [sess EXCEPT ![s].cancel = b])
  <2>1. PICK a : a = [sess[s] EXCEPT !.cancel = b]
    OBVIOUS
  <2>2. a \in Session /\ a.id = sess[s].id /\ a.ref = sess[s].ref /\ a.lock = sess[s].lock
    BY <2>1 DEF Session
  <2>3. sess' = [sess EXCEPT ![s] = [a EXCEPT !.ref = sess[s].ref - 1, !.lock = m]]
    BY <1>1, <1>2, <1>7, <2>1, <2>2 DEF PutSession
  <2> QED
    BY <2>2, <2>3, <1>4
<1> QED
  BY <1>5, <1>6, <1>7

\* A new call g is counted.
Added(g) ==
    \A r \in Sessions :
        /\ Cnt(stack', Owned(r)) = Cnt(stack, Owned(r)) + Ind(g, Owned(r))
        /\ Cnt(stack', Locking(r)) = Cnt(stack, Locking(r)) + Ind(g, Locking(r))
        /\ Cnt(stack', Opening(r)) = Cnt(stack, Opening(r)) + Ind(g, Opening(r))

\* A call takes a reference, and the lock if it is free.
LEMMA TakeStep ==
    ASSUME SInv, NEW t \in Threads, NEW s \in Sessions, sess[s] # NULL,
           NEW g \in Owned(s), g.op # "open", Placed(g),
           NEW k, Replaced(s, k), k.ref = sess[s].ref + 1,
           g \in Locking(s) => sess[s].lock = NULL /\ k.lock = t,
           g \notin Locking(s) => k.lock = sess[s].lock,
           Frames(t, {g}), NestedOK', Added(g)
    PROVE  SInv'
<1>1. g.s = s /\ g \notin Opening(s) /\ \A r \in Sessions : r # s =>
          g \notin Owned(r) /\ g \notin Locking(r) /\ g \notin Opening(r)
  BY Roles DEF Opening
<1>2. /\ Data' /\ Unmoved /\ sess'[s] = k
      /\ \A r \in Sessions \ {s} : SameRef(r)
  BY ReplacedData
<1>3. \A F : Cnt(stack, F) \in Nat
  BY CntNat
<1>4. ASSUME NEW r \in Sessions \ {s} PROVE NoMore(r) /\ SameRef(r)
  <2>1. Ind(g, Owned(r)) = 0 /\ Ind(g, Locking(r)) = 0 /\ Ind(g, Opening(r)) = 0
    BY <1>1 DEF Ind
  <2>2. /\ Cnt(stack', Owned(r)) = Cnt(stack, Owned(r)) + Ind(g, Owned(r))
        /\ Cnt(stack', Locking(r)) = Cnt(stack, Locking(r)) + Ind(g, Locking(r))
        /\ Cnt(stack', Opening(r)) = Cnt(stack, Opening(r)) + Ind(g, Opening(r))
    BY DEF Added
  <2> QED
    BY <2>1, <2>2, <1>2, <1>3 DEF NoMore
<1>5. PICK l \in Int : l = Ind(g, Locking(s))
  BY DEF Ind
<1>6. OneSession(t, s, 1, l)
  <2>1. Ind(g, Owned(s)) = 1 /\ Ind(g, Opening(s)) = 0
    BY <1>1 DEF Ind
  <2>2. /\ Cnt(stack', Owned(s)) = Cnt(stack, Owned(s)) + Ind(g, Owned(s))
        /\ Cnt(stack', Locking(s)) = Cnt(stack, Locking(s)) + Ind(g, Locking(s))
        /\ Cnt(stack', Opening(s)) = Cnt(stack, Opening(s)) + Ind(g, Opening(s))
    BY DEF Added
  <2>3. /\ Cnt(stack', Opening(s)) <= Cnt(stack, Opening(s))
        /\ Cnt(stack', Owned(s)) = Cnt(stack, Owned(s)) + 1
        /\ Cnt(stack', Locking(s)) = Cnt(stack, Locking(s)) + l
    BY <2>1, <2>2, <1>3, <1>5
  <2>4. sess'[s].ref = sess[s].ref + 1
    BY <1>2
  <2>5. \/ l = 0 /\ sess'[s].lock = sess[s].lock
        \/ l = 1 /\ sess[s].lock = NULL /\ sess'[s].lock = t
    BY <1>2, <1>5 DEF Ind
  <2> QED
    BY <2>3, <2>4, <2>5, <1>4 DEF OneSession
<1>7. CallsLock(t, s, {g})
  BY <1>1, <1>2 DEF CallsLock
<1>8. CallsPlaced({g})
  BY DEF CallsPlaced
<1>9. 1 \in Int
  OBVIOUS
<1> QED
  BY <1>2, <1>6, <1>7, <1>8, <1>9, OneSessionStep

\* A reference that a new call takes.
LEMMA PushAdded ==
    ASSUME SInv, NEW t \in Threads, NEW g \in Call, g.op # "open",
           g.op = "cancel" => stack[t] = <<>>,
           stack' = [stack EXCEPT ![t] = <<g>> \o stack[t]]
    PROVE  Frames(t, {g}) /\ NestedOK' /\ Added(g)
<1>1. g \notin Opening(g.s)
  BY DEF Opening
<1>2. Frames(t, {g}) /\ Counts(LAMBDA F : Ind(g, F)) /\ NestedOK'
  BY <1>1, PushFrames
<1>3. \A F : Cnt(stack', F) = Cnt(stack, F) + Ind(g, F)
  BY <1>2 DEF Counts
<1> QED
  BY <1>2, <1>3 DEF Added

\* A reference that the innermost call takes, which owned nothing.
LEMMA BecomeAdded ==
    ASSUME SInv, NEW t \in Threads, stack[t] # <<>>, NEW g \in Call, g.op = Top(t).op,
           g.op # "open", \A r \in Sessions : Top(t) \notin Owned(r),
           stack' = [stack EXCEPT ![t] = <<g>> \o Tail(stack[t])]
    PROVE  Frames(t, {g}) /\ NestedOK' /\ Added(g)
<1>1. Continues(Top(t), g)
  BY DEF Opening, Continues
<1>2. /\ Frames(t, {g}) /\ NestedOK'
      /\ Counts(LAMBDA F : Ind(g, F) - Ind(Top(t), F))
  BY <1>1, BecomeFrames
<1>3. \A F : /\ Cnt(stack', F) = Cnt(stack, F) + (Ind(g, F) - Ind(Top(t), F))
             /\ Cnt(stack, F) \in Nat /\ Ind(g, F) \in Nat
  BY <1>2 DEF Counts, Ind
<1>4. ASSUME NEW F, Top(t) \notin F PROVE Cnt(stack', F) = Cnt(stack, F) + Ind(g, F)
  <2>1. Ind(Top(t), F) = 0
    BY <1>4 DEF Ind
  <2>2. /\ Cnt(stack', F) = Cnt(stack, F) + (Ind(g, F) - Ind(Top(t), F))
        /\ Cnt(stack, F) \in Nat /\ Ind(g, F) \in Nat
    BY <1>3
  <2> QED
    BY <2>1, <2>2
<1>5. \A r \in Sessions : Top(t) \notin Locking(r) /\ Top(t) \notin Opening(r)
  BY Roles
<1>6. Added(g)
  BY <1>4, <1>5 DEF Added
<1> QED
  BY <1>2, <1>6

\* An invoke ends.
LEMMA InvokeEndStep ==
    ASSUME SInv, NEW t \in Threads, InvokeEnd(t) PROVE SInv'
<1>1. /\ stack[t] # <<>>
      /\ (Top(t).pc = "put" /\ Top(t).op = "invoke") \/ Top(t).pc = "after"
  BY DEF InvokeEnd, At
<1>2. /\ Top(t) \in Call /\ CallOK(t, Top(t)) /\ Shape(Top(t))
      /\ Top(t) \in Range(stack[t])
  BY <1>1, TopCall DEF CallOK
<1>3. PICK s \in Sessions : s = Top(t).s
  BY <1>2 DEF CallOK
<1>4. Top(t).op = "invoke"
  BY <1>1, <1>2 DEF Shape, Call
<1>5. Top(t) \in Owned(s) /\ Top(t) \in Locking(s)
  BY <1>1, <1>2, <1>3, <1>4 DEF Owned, Locking, OwnsSession
<1>6. /\ sess[s] # NULL /\ sess[s] \in Session
      /\ sess[s].ref \in Nat /\ sess[s].ref >= 1
  BY <1>2, <1>5, RefPositive
<1>7. PutSession(t, s, sess) /\ Return(t) /\ UNCHANGED <<heads, ctxes>>
  BY <1>3 DEF InvokeEnd
<1>8. PICK k : /\ Replaced(s, k) /\ k.ref = sess[s].ref - 1
               /\ k.lock = IF sess[s].lock = t THEN NULL ELSE sess[s].lock
  BY <1>6, <1>7, TRUE \in BOOLEAN, PutRecord
<1>9. /\ Frames(t, {}) /\ NestedOK' /\ CallsPlaced({}) /\ NoOwners({}) /\ TopGone(t)
  BY <1>1, <1>7, ReturnGone
<1> QED
  BY <1>1, <1>3, <1>5, <1>8, <1>9, PutStep

\* check_client() refuses a call.
LEMMA StrangerStep ==
    ASSUME SInv, NEW t \in Threads, Refused(t) PROVE SInv'
<1>1. stack[t] # <<>> /\ Top(t).pc = "begin"
  BY DEF Refused, At
<1>2. /\ Top(t) \in Call /\ CallOK(t, Top(t)) /\ Shape(Top(t))
      /\ Top(t) \in Range(stack[t])
  BY <1>1, TopCall DEF CallOK
<1>3. PICK s \in Sessions : s = Top(t).s
  BY <1>2 DEF CallOK
<1>4. Top(t).op \in {"invoke", "close"}
  BY <1>1, <1>2 DEF Shape, Call
<1>5. Top(t) \in Owned(s) /\ Top(t) \in Locking(s)
  BY <1>1, <1>2, <1>3, <1>4 DEF Owned, Locking, OwnsSession
<1>6. /\ sess[s] # NULL /\ sess[s] \in Session
      /\ sess[s].ref \in Nat /\ sess[s].ref >= 1
  BY <1>2, <1>5, RefPositive
<1>7. PutSession(t, s, sess) /\ Return(t) /\ UNCHANGED <<heads, ctxes>>
  BY <1>3 DEF Refused
<1>8. PICK k : /\ Replaced(s, k) /\ k.ref = sess[s].ref - 1
               /\ k.lock = IF sess[s].lock = t THEN NULL ELSE sess[s].lock
  BY <1>6, <1>7, TRUE \in BOOLEAN, PutRecord
<1>9. /\ Frames(t, {}) /\ NestedOK' /\ CallsPlaced({}) /\ NoOwners({}) /\ TopGone(t)
  BY <1>1, <1>7, ReturnGone
<1> QED
  BY <1>1, <1>3, <1>5, <1>8, <1>9, PutStep

\* A cancellation ends.
LEMMA CancelStep ==
    ASSUME SInv, NEW t \in Threads, Cancel(t) PROVE SInv'
<1>1. stack[t] # <<>> /\ Top(t).pc = "cancel"
  BY DEF Cancel, At
<1>2. /\ Top(t) \in Call /\ CallOK(t, Top(t)) /\ Shape(Top(t))
      /\ Top(t) \in Range(stack[t])
  BY <1>1, TopCall DEF CallOK
<1>3. PICK s \in Sessions : s = Top(t).s
  BY <1>2 DEF CallOK
<1>4. Top(t).op = "cancel"
  BY <1>1, <1>2 DEF Shape, Call
<1>5. Top(t) \in Owned(s)
  BY <1>2, <1>3, <1>4 DEF Owned, OwnsSession
<1>6. /\ sess[s] # NULL /\ sess[s] \in Session
      /\ sess[s].ref \in Nat /\ sess[s].ref >= 1
  BY <1>2, <1>5, RefPositive
<1>7. /\ PutSession(t, s, [sess EXCEPT ![s].cancel = TRUE]) /\ Return(t)
      /\ UNCHANGED <<heads, ctxes>>
  BY <1>3 DEF Cancel
<1>8. PICK k : /\ Replaced(s, k) /\ k.ref = sess[s].ref - 1
               /\ k.lock = IF sess[s].lock = t THEN NULL ELSE sess[s].lock
  BY <1>6, <1>7, TRUE \in BOOLEAN, PutRecord
<1>9. /\ Frames(t, {}) /\ NestedOK' /\ CallsPlaced({}) /\ NoOwners({}) /\ TopGone(t)
  BY <1>1, <1>7, ReturnGone
<1> QED
  BY <1>1, <1>3, <1>4, <1>5, <1>8, <1>9, PutStep

\* An open ends, or closes the session that the TA has refused.
LEMMA OpenPutStep ==
    ASSUME SInv, NEW t \in Threads, OpenPut(t) PROVE SInv'
<1>1. stack[t] # <<>> /\ Top(t).pc = "put" /\ Top(t).op = "open"
  BY DEF OpenPut, At
<1>2. PICK f : f = Top(t)
  OBVIOUS
<1>3. /\ f \in Call /\ CallOK(t, f) /\ f \in Range(stack[t])
      /\ f.pc = "put" /\ f.op = "open"
  BY <1>1, <1>2, TopCall
<1>4. PICK s \in Sessions : s = f.s
  BY <1>3 DEF CallOK
<1>5. f \in Owned(s)
  BY <1>3, <1>4 DEF Owned, OwnsSession
<1>6. /\ sess[s] # NULL /\ sess[s] \in Session
      /\ sess[s].ref \in Nat /\ sess[s].ref >= 1
  BY <1>3, <1>5, RefPositive
<1>7. PICK e \in {"none", "ok", "error", "busy", "panicked"} :
         e = IF ctxs[f.c].panicked THEN "panicked" ELSE f.res
  BY <1>3 DEF Call
<1>8. PICK b \in BOOLEAN : b = (e = "ok")
  OBVIOUS
<1>9. /\ PutSession(t, s, [sess EXCEPT ![s].told = b])
      /\ UNCHANGED <<heads, ctxes>>
      /\ IF e = "ok" THEN Return(t)
         ELSE Calling(t, [f EXCEPT !.pc = "origin", !.res = e], CloseCall(f.h, f.s))
  BY <1>2, <1>4, <1>7, <1>8 DEF OpenPut
<1>10. PICK k : /\ Replaced(s, k) /\ k.ref = sess[s].ref - 1
                /\ k.lock = IF sess[s].lock = t THEN NULL ELSE sess[s].lock
  BY <1>6, <1>9, PutRecord
<1>11. CASE e = "ok"
  <2>1. /\ Frames(t, {}) /\ NestedOK' /\ CallsPlaced({}) /\ NoOwners({}) /\ TopGone(t)
    BY <1>1, <1>9, <1>11, ReturnGone
  <2> QED
    BY <1>1, <1>2, <1>4, <1>5, <1>10, <2>1, PutStep
<1>12. CASE e # "ok"
  <2>1. PICK d : d = [f EXCEPT !.pc = "origin", !.res = e]
    OBVIOUS
  <2>2. Variant(f, d) /\ d.pc = "origin"
    BY <2>1, <1>3, <1>7 DEF Call, Variant, PC
  <2>3. /\ d \in Call /\ d.op = "open" /\ d.s \in Sessions
        /\ \A r : d \notin Owned(r)
    BY <2>2, <1>3, <1>4 DEF Variant, Owned, OwnsSession
  <2>4. PICK h \in Heads : h = f.h
    BY <1>3 DEF Call
  <2>5. PICK g : g = CloseCall(h, s)
    OBVIOUS
  <2>6. /\ g \in Call /\ g.op = "close" /\ CallOK(t, g)
        /\ \A x \in Sessions : /\ Ind(g, Owned(x)) = 0 /\ Ind(g, Locking(x)) = 0
                               /\ Ind(g, Opening(x)) = 0
    BY <2>5, CloseCallOK
  <2>7. Calling(t, d, g)
    BY <1>4, <1>9, <1>12, <2>1, <2>4, <2>5
  <2>8. Continues(Top(t), d)
    BY <1>1, <2>3, Roles DEF Continues
  <2>9. /\ Frames(t, {d, g}) /\ NestedOK'
        /\ Counts(LAMBDA F : Ind(g, F) + Ind(d, F) - Ind(Top(t), F))
    BY <1>1, <2>3, <2>6, <2>7, <2>8, CallingFrames
  <2>10. TopGone(t)
    <3>1. ASSUME NEW F, Ind(g, F) = 0, Ind(d, F) = 0
          PROVE  Cnt(stack', F) = Cnt(stack, F) - Ind(Top(t), F)
      <4>1. /\ Cnt(stack', F) = Cnt(stack, F) + (Ind(g, F) + Ind(d, F) - Ind(Top(t), F))
            /\ Cnt(stack, F) \in Nat
        BY <2>9 DEF Counts
      <4>2. Ind(Top(t), F) \in Nat
        BY DEF Ind
      <4> QED
        BY <3>1, <4>1, <4>2
    <3>2. \A x \in Sessions : /\ Ind(d, Owned(x)) = 0 /\ Ind(d, Locking(x)) = 0
                              /\ Ind(d, Opening(x)) = 0
      BY <2>3, Roles DEF Ind
    <3> QED
      BY <3>1, <3>2, <2>6 DEF TopGone
  <2>11. CallsPlaced({d, g})
    <3>1. Placed(g)
      BY <2>6 DEF CallOK, Placed
    <3>2. Placed(d)
      BY <2>2, <2>3 DEF Placed, Shape
    <3> QED
      BY <3>1, <3>2 DEF CallsPlaced
  <2>12. NoOwners({d, g})
    BY <2>3, <2>6 DEF NoOwners, Ind
  <2> QED
    BY <1>1, <1>2, <1>4, <1>5, <1>10, <2>9, <2>10, <2>11, <2>12, PutStep
<1> QED
  BY <1>11, <1>12

\* A thread that waited for the lock of a session gets it, or finds the session
\* unlinked.
LEMMA LockStep ==
    ASSUME SInv, NEW t \in Threads, Lock(t) PROVE SInv'
<1>1. stack[t] # <<>> /\ Top(t).pc = "lock"
  BY DEF Lock, At
<1>2. PICK f : f = Top(t)
  OBVIOUS
<1>3. /\ f \in Call /\ CallOK(t, f) /\ Shape(f) /\ f \in Range(stack[t])
      /\ f.pc = "lock"
  BY <1>1, <1>2, TopCall DEF CallOK
<1>4. PICK s \in Sessions : s = f.s
  BY <1>3 DEF CallOK
<1>5. f.op \in {"invoke", "close"}
  BY <1>3 DEF Shape, Call
<1>6. f \in Owned(s) /\ f \notin Locking(s)
  BY <1>3, <1>4, <1>5 DEF Owned, Locking, OwnsSession
<1>7. /\ sess[s] # NULL /\ sess[s] \in Session
      /\ sess[s].ref \in Nat /\ sess[s].ref >= 1
  BY <1>3, <1>6, RefPositive
<1>8. UNCHANGED <<heads, ctxes>> /\ sess \in [Sessions -> Session \cup {NULL}]
  BY DEF Lock, SInv, SessTypes, Data
<1>9. CASE sess' = [sess EXCEPT ![s].ref = @ - 1] /\ Return(t)
  <2>1. PICK k : k = [sess[s] EXCEPT !.ref = sess[s].ref - 1]
    OBVIOUS
  <2>2. /\ k \in Session /\ k.id = sess[s].id /\ k.ref = sess[s].ref - 1
        /\ k.lock = sess[s].lock
    BY <2>1, <1>7 DEF Session
  <2>3. Replaced(s, k)
    BY <2>1, <2>2, <1>8, <1>9 DEF Replaced
  <2>4. /\ Frames(t, {}) /\ NestedOK' /\ CallsPlaced({}) /\ NoOwners({}) /\ TopGone(t)
    BY <1>1, <1>9, ReturnGone
  <2> QED
    BY <1>1, <1>2, <1>4, <1>6, <2>2, <2>3, <2>4, DropStep
<1>10. CASE UNCHANGED <<sess, stack>>
  BY <1>8, <1>10, UnchangedStep
<1>11. CASE sess[s].lock = NULL /\ sess' = [sess EXCEPT ![s].lock = t] /\ Goto(t, "begin")
  <2>1. PICK k : k = [sess[s] EXCEPT !.lock = t]
    OBVIOUS
  <2>2. /\ k \in Session /\ k.id = sess[s].id /\ k.ref = sess[s].ref
        /\ k.lock = t
    BY <2>1, <1>7 DEF Session
  <2>3. Replaced(s, k)
    BY <2>1, <2>2, <1>8, <1>11 DEF Replaced
  <2>4. PICK g : g = [f EXCEPT !.pc = "begin"]
    OBVIOUS
  <2>5. Variant(f, g) /\ g.pc = "begin"
    BY <2>4, <1>3, Labels, CallFields
  <2>6. g \in Call /\ g.op = f.op /\ g.s = s /\ g.h = f.h
    BY <2>5, <1>4 DEF Variant
  <2>7. stack' = [stack EXCEPT ![t] = <<g>> \o Tail(stack[t])]
    BY <1>2, <1>11, <2>4 DEF Goto, Become
  <2>8. g \in Owned(s) /\ g \in Locking(s) /\ g \notin Opening(s) /\ f \notin Opening(s)
    BY <2>5, <2>6, <1>5 DEF Owned, Locking, Opening, OwnsSession
  <2>9. Continues(Top(t), g)
    BY <1>2, <2>6, <2>8 DEF Continues
  <2>10. /\ Frames(t, {g}) /\ NestedOK'
         /\ Counts(LAMBDA F : Ind(g, F) - Ind(Top(t), F))
    BY <1>1, <2>6, <2>7, <2>9, BecomeFrames
  <2>11. \A F : /\ Cnt(stack', F) = Cnt(stack, F) + (Ind(g, F) - Ind(f, F))
                /\ Cnt(stack, F) \in Nat
    BY <1>2, <2>10 DEF Counts
  <2>12. ASSUME NEW F, f \in F <=> g \in F
         PROVE  Cnt(stack', F) = Cnt(stack, F) /\ Cnt(stack', F) <= Cnt(stack, F)
    <3>1. Ind(g, F) = Ind(f, F) /\ Ind(f, F) \in Nat
      BY <2>12 DEF Ind
    <3>2. /\ Cnt(stack', F) = Cnt(stack, F) + (Ind(g, F) - Ind(f, F))
          /\ Cnt(stack, F) \in Nat
      BY <2>11
    <3> QED
      BY <3>1, <3>2
  <2>13. /\ Data' /\ Unmoved /\ sess'[s] = k
         /\ \A r \in Sessions \ {s} : SameRef(r)
    BY <1>7, <2>3, ReplacedData
  <2>14. OneSession(t, s, 0, 1)
    <3>1. ASSUME NEW r \in Sessions \ {s} PROVE NoMore(r) /\ SameRef(r)
      <4>1. /\ f \notin Owned(r) /\ f \notin Locking(r) /\ f \notin Opening(r)
            /\ g \notin Owned(r) /\ g \notin Locking(r) /\ g \notin Opening(r)
        BY <1>4, <2>6, Roles
      <4> QED
        BY <4>1, <2>12, <2>13 DEF NoMore
    <3>2. /\ Cnt(stack', Opening(s)) <= Cnt(stack, Opening(s))
          /\ Cnt(stack', Owned(s)) = Cnt(stack, Owned(s))
      BY <1>6, <2>8, <2>12
    <3>3. Cnt(stack', Locking(s)) = Cnt(stack, Locking(s)) + 1
      <4>1. Ind(g, Locking(s)) = 1 /\ Ind(f, Locking(s)) = 0
        BY <1>6, <2>8 DEF Ind
      <4>2. /\ Cnt(stack', Locking(s))
                 = Cnt(stack, Locking(s)) + (Ind(g, Locking(s)) - Ind(f, Locking(s)))
            /\ Cnt(stack, Locking(s)) \in Nat
        BY <2>11
      <4> QED
        BY <4>1, <4>2
    <3>4. Cnt(stack, Owned(s)) \in Nat
      BY <2>11
    <3>5. sess'[s].ref = sess[s].ref + 0
      BY <1>7, <2>2, <2>13
    <3> QED
      BY <3>1, <3>2, <3>3, <3>4, <3>5, <1>11, <2>2, <2>13 DEF OneSession
  <2>15. CallsLock(t, s, {g})
    BY <2>2, <2>6, <2>13 DEF CallsLock
  <2>16. CallsPlaced({g})
    <3>1. f.s \in Range(heads[f.h])
      BY <1>3, <1>4, <1>6 DEF CallOK
    <3>2. Shape(g)
      BY <1>5, <2>5, <2>6 DEF Shape
    <3> QED
      BY <3>1, <3>2, <1>4, <1>7, <2>6 DEF CallsPlaced, Placed
  <2>17. 0 \in Int /\ 1 \in Int
    OBVIOUS
  <2> QED
    BY <1>7, <2>10, <2>13, <2>14, <2>15, <2>16, <2>17, OneSessionStep
<1> QED
  BY <1>2, <1>4, <1>9, <1>10, <1>11 DEF Lock

\* tee_ta_get_session(): the call with its reference, and what becomes of s.
Got(t, f, rest, s, g, k) ==
    /\ g \in Call /\ g.op = f.op /\ g \in Owned(s) /\ Placed(g)
    /\ stack' = [stack EXCEPT ![t] = <<g>> \o rest]
    /\ Replaced(s, k) /\ k.ref = sess[s].ref + 1
    /\ g \in Locking(s) => sess[s].lock = NULL /\ k.lock = t
    /\ g \notin Locking(s) => k.lock = sess[s].lock

\* tee_ta_get_session() takes a reference, and the lock if it is free.
LEMMA GetCall ==
    ASSUME SInv, NEW t \in Threads, NEW s \in Sessions, NEW f \in Call, NEW rest,
           f.op \in {"invoke", "close"}, s \in Range(heads[f.h]), Get(t, f, rest, s)
    PROVE  \E g, k : Got(t, f, rest, s, g, k)
<1>1. f.h \in Heads
  BY DEF Call
<1>2. sess[s] # NULL /\ sess[s] \in Session /\ sess \in [Sessions -> Session \cup {NULL}]
  BY <1>1 DEF SInv, SessTypes, Data, ListsOK
<1>3. PICK free \in BOOLEAN : free = (sess[s].lock = NULL)
  OBVIOUS
<1>4. PICK l : l = IF free THEN "begin" ELSE "lock"
  OBVIOUS
<1>5. PICK g : g = [f EXCEPT !.s = s, !.pc = l]
  OBVIOUS
<1>6. g \in Call /\ g.op = f.op /\ g.s = s /\ g.h = f.h /\ g.pc = l
  <2>1. l \in PC
    BY <1>4 DEF PC
  <2> QED
    BY <2>1, <1>5 DEF Call
<1>7. PICK m : m = IF free THEN t ELSE sess[s].lock
  OBVIOUS
<1>8. PICK k : k = [sess[s] EXCEPT !.ref = sess[s].ref + 1, !.lock = m]
  OBVIOUS
<1>9. k \in Session /\ k.id = sess[s].id /\ k.ref = sess[s].ref + 1 /\ k.lock = m
  <2>1. m \in Threads \cup {NULL} /\ sess[s].ref + 1 \in Nat
    BY <1>2, <1>7 DEF Session
  <2> QED
    BY <2>1, <1>2, <1>8 DEF Session
<1>10. Replaced(s, k)
  <2>1. sess' = [sess EXCEPT ![s] = k]
    BY <1>2, <1>3, <1>7, <1>8 DEF Get
  <2> QED
    BY <2>1, <1>9 DEF Replaced, Get
<1>11. stack' = [stack EXCEPT ![t] = <<g>> \o rest]
  BY <1>3, <1>4, <1>5 DEF Get
<1>12. g \in Owned(s) /\ (g \in Locking(s) <=> free)
  BY <1>4, <1>6 DEF Owned, Locking, OwnsSession
<1>13. Placed(g)
  <2>1. Shape(g)
    BY <1>4, <1>6 DEF Shape
  <2> QED
    BY <2>1, <1>2, <1>6 DEF Placed
<1> QED
  BY <1>3, <1>6, <1>7, <1>9, <1>10, <1>11, <1>12, <1>13 DEF Got

\* A client invokes a command.
LEMMA InvokeStep ==
    ASSUME SInv, NEW t \in Threads, NEW h \in Heads, NEW s \in Sessions, Invoke(t, h, s)
    PROVE  SInv'
<1>1. PICK f : f = [CloseCall(h, s) EXCEPT !.op = "invoke"]
  OBVIOUS
<1>2. f \in Call /\ f.op = "invoke" /\ f.h = h
  BY <1>1 DEF CloseCall, Call, PC
<1>3. s \in Range(heads[h])
  BY DEF Invoke, Known
<1>4. PICK rest : rest = stack[t]
  OBVIOUS
<1>5. Get(t, f, rest, s)
  BY <1>1, <1>4 DEF Invoke
<1>6. PICK g, k : Got(t, f, rest, s, g, k)
  BY <1>2, <1>3, <1>5, GetCall
<1>7. sess[s] # NULL
  BY <1>3 DEF SInv, ListsOK
<1>8. Frames(t, {g}) /\ NestedOK' /\ Added(g)
  BY <1>2, <1>4, <1>6, PushAdded DEF Got
<1> QED
  BY <1>2, <1>6, <1>7, <1>8, TakeStep DEF Got

\* tee_ta_close_session() finds its session, or not.
LEMMA CloseGetStep ==
    ASSUME SInv, NEW t \in Threads, CloseGet(t) PROVE SInv'
<1>1. stack[t] # <<>> /\ Top(t).pc = "get"
  BY DEF CloseGet, At
<1>2. PICK f : f = Top(t)
  OBVIOUS
<1>3. f \in Call /\ Shape(f) /\ f.pc = "get"
  BY <1>1, <1>2, TopCall DEF CallOK
<1>4. f.op = "close" /\ f.h \in Heads
  BY <1>3 DEF Shape, Call
<1>5. \A r : f \notin Owned(r) /\ f \notin Locking(r)
  BY <1>3, <1>4 DEF Owned, Locking, OwnsSession
<1>6. PICK found : found = {i \in Find(f.h, sess[f.s].id) : ~sess[heads[f.h][i]].unlink}
  OBVIOUS
<1>7. CASE found = {}
  <2>1. Return(t) /\ UNCHANGED <<sess, heads, ctxes>>
    BY <1>2, <1>6, <1>7 DEF CloseGet
  <2>2. Data' /\ Unmoved /\ SameRefs
    BY <2>1, SessionsSame DEF SInv, SessTypes, Data
  <2> QED
    BY <1>1, <1>2, <1>5, <2>1, <2>2, ReturnStep
<1>8. CASE found # {}
  <2>1. found \in SUBSET (DOMAIN heads[f.h])
    BY <1>6 DEF Find
  <2>2. PICK h \in Heads : h = f.h
    BY <1>4
  <2>3. PICK s \in Sessions : s = heads[f.h][Min(found)] /\ s \in Range(heads[f.h])
                              /\ sess[s] # NULL
    BY <1>8, <2>1, <2>2, FindSession
  <2>4. PICK rest : rest = Tail(stack[t])
    OBVIOUS
  <2>5. UNCHANGED <<sess, heads, ctxes, stack>> \/ Get(t, f, rest, s)
    BY <1>2, <1>6, <1>8, <2>3, <2>4 DEF CloseGet, Stop
  <2>6. CASE UNCHANGED <<sess, heads, ctxes, stack>>
    BY <2>6, UnchangedStep
  <2>7. CASE Get(t, f, rest, s)
    <3>1. PICK g, k : Got(t, f, rest, s, g, k)
      BY <1>3, <1>4, <2>3, <2>7, GetCall
    <3>2. Frames(t, {g}) /\ NestedOK' /\ Added(g)
      BY <1>1, <1>2, <1>4, <1>5, <2>4, <3>1, BecomeAdded DEF Got
    <3> QED
      BY <1>4, <2>3, <3>1, <3>2, TakeStep DEF Got
  <2> QED
    BY <2>5, <2>6, <2>7
<1> QED
  BY <1>7, <1>8

\* A cancellation takes a reference.
LEMMA CancelGetStep ==
    ASSUME SInv, NEW t \in Threads, NEW s \in Sessions, CancelGet(t, s) PROVE SInv'
<1>1. NSEC \in Heads /\ s \in Range(heads[NSEC]) /\ stack[t] = <<>>
  BY DEF CancelGet, Known, Heads
<1>2. sess[s] # NULL /\ sess[s] \in Session /\ sess \in [Sessions -> Session \cup {NULL}]
  BY <1>1 DEF SInv, SessTypes, Data, ListsOK
<1>3. PICK g : g = [CloseCall(NSEC, s) EXCEPT !.op = "cancel", !.pc = "cancel"]
  OBVIOUS
<1>4. /\ g \in Call /\ g.op = "cancel" /\ g.pc = "cancel" /\ g.h = NSEC /\ g.s = s
  BY <1>1, <1>3 DEF CloseCall, Call, PC
<1>5. g \in Owned(s) /\ g \notin Locking(s)
  BY <1>4 DEF Owned, Locking, OwnsSession
<1>6. Placed(g)
  BY <1>1, <1>2, <1>4 DEF Placed, Shape
<1>7. PICK k : k = [sess[s] EXCEPT !.ref = sess[s].ref + 1]
  OBVIOUS
<1>8. /\ k \in Session /\ k.id = sess[s].id /\ k.ref = sess[s].ref + 1
      /\ k.lock = sess[s].lock
  BY <1>2, <1>7 DEF Session
<1>9. Replaced(s, k)
  BY <1>2, <1>7, <1>8 DEF Replaced, CancelGet
<1>10. stack' = [stack EXCEPT ![t] = <<g>> \o stack[t]]
  <2>1. <<g>> \o <<>> = <<g>>
    OBVIOUS
  <2> QED
    BY <2>1, <1>1, <1>3 DEF CancelGet
<1>11. Frames(t, {g}) /\ NestedOK' /\ Added(g)
  BY <1>1, <1>4, <1>10, PushAdded
<1> QED
  BY <1>2, <1>4, <1>5, <1>6, <1>8, <1>9, <1>11, TakeStep

-----------------------------------------------------------------------------
(* Sessions are freed.                                                     *)

\* TAILQ_REMOVE() removes the element and nothing else.
LEMMA WithoutElement ==
    ASSUME NEW T, NEW q \in Seq(T), NoDuplicates(q), NEW e \in Range(q)
    PROVE  /\ Without(q, e) \in Seq(T)
           /\ Range(Without(q, e)) = Range(q) \ {e}
           /\ NoDuplicates(Without(q, e))
<1>1. PICK i \in DOMAIN q : i = CHOOSE j \in DOMAIN q : q[j] = e
  BY DEF Range
<1>2. q[i] = e
  BY <1>1 DEF Range
<1>3. PICK r : r = RemoveAt(q, i)
  OBVIOUS
<1>4. r \in Seq(T) /\ Range(r) = Range(q) \ {q[i]} /\ NoDuplicates(r)
  BY <1>3, RemoveElement
<1>5. Without(q, e) = r
  BY <1>1, <1>3 DEF Without
<1> QED
  BY <1>2, <1>4, <1>5

\* The session of the innermost call is freed, and no other call owns it.
LEMMA FreeStep ==
    ASSUME SInv, NEW t \in Threads, stack[t] # <<>>, NEW s \in Sessions, s = Top(t).s,
           Top(t) \in Owned(s), NEW h \in Heads, h = Top(t).h,
           heads' = [heads EXCEPT ![h] = Without(heads[h], s)],
           sess' = [sess EXCEPT ![s] = NULL], ctxes' = ctxes,
           NEW G, Frames(t, G), NestedOK', CallsPlaced(G), NoOwners(G), TopGone(t),
           Cnt(stack', Owned(s)) = 0
    PROVE  SInv'
<1>1. Top(t) \in Call /\ CallOK(t, Top(t))
  BY TopCall
<1>2. sess[s] # NULL /\ s \in Range(heads[h])
  BY <1>1 DEF CallOK
<1>3. /\ sess \in [Sessions -> Session \cup {NULL}] /\ heads \in [Heads -> Seq(Sessions)]
      /\ ctxes \in Seq(Ctxs) /\ ListsOK
  BY DEF SInv, SessTypes, Data
<1>4. PICK q : q = Without(heads[h], s)
  OBVIOUS
<1>5. q \in Seq(Sessions) /\ Range(q) = Range(heads[h]) \ {s} /\ NoDuplicates(q)
  <2>1. heads[h] \in Seq(Sessions) /\ NoDuplicates(heads[h])
    BY <1>3 DEF ListsOK
  <2> QED
    BY <2>1, <1>2, <1>4, WithoutElement
<1>6. /\ heads'[h] = q /\ \A g \in Heads : g # h => heads'[g] = heads[g]
      /\ heads' \in [Heads -> Seq(Sessions)]
  BY <1>3, <1>4, <1>5
<1>7. /\ sess'[s] = NULL /\ \A r \in Sessions : r # s => sess'[r] = sess[r]
      /\ sess' \in [Sessions -> Session \cup {NULL}]
  BY <1>3
<1>8. \A g \in Heads : Range(heads'[g]) = Range(heads[g]) \ {s}
  <2> SUFFICES ASSUME NEW g \in Heads PROVE Range(heads'[g]) = Range(heads[g]) \ {s}
    OBVIOUS
  <2>1. CASE g = h
    BY <2>1, <1>5, <1>6
  <2>2. CASE g # h
    <3>1. s \notin Range(heads[g])
      BY <2>2, <1>2, <1>3 DEF ListsOK
    <3> QED
      BY <2>2, <3>1, <1>6
  <2> QED
    BY <2>1, <2>2
<1>9. SessTypes'
  BY <1>3, <1>6, <1>7 DEF SessTypes, Data, Frames
<1>10. ListsOK'
  <2>1. \A g \in Heads : NoDuplicates(heads'[g])
    BY <1>3, <1>5, <1>6 DEF ListsOK
  <2>2. \A g, x \in Heads : g # x => Range(heads'[g]) \cap Range(heads'[x]) = {}
    BY <1>3, <1>8 DEF ListsOK
  <2>3. ASSUME NEW r \in Sessions
        PROVE  sess'[r] # NULL <=> \E g \in Heads : r \in Range(heads'[g])
    <3>1. CASE r = s
      BY <3>1, <1>7, <1>8
    <3>2. CASE r # s
      BY <3>2, <1>3, <1>7, <1>8 DEF ListsOK
    <3> QED
      BY <3>1, <3>2
  <2> QED
    BY <2>1, <2>2, <2>3 DEF ListsOK
<1>11. IdsNameSessions'
  <2> SUFFICES ASSUME NEW g \in Heads, NEW a \in Range(heads'[g]), NEW b \in Range(heads'[g]),
                      sess'[a].id = sess'[b].id
               PROVE  a = b
    BY DEF IdsNameSessions
  <2>1. a \in Range(heads[g]) /\ b \in Range(heads[g]) /\ a # s /\ b # s
    BY <1>8
  <2>2. a \in Sessions /\ b \in Sessions
    BY <2>1, <1>3 DEF Range
  <2>3. sess[a].id = sess[b].id
    BY <2>1, <2>2, <1>7
  <2> QED
    BY <2>1, <2>3 DEF SInv, IdsNameSessions
<1>12. stack' \in Stacks
  BY DEF Frames
<1>13. CallsOK'
  <2> SUFFICES ASSUME NEW u \in Threads, NEW f \in Range(stack'[u]) PROVE CallOK(u, f)'
    BY DEF CallsOK
  <2>1. f \notin Owned(s)
    BY <1>12, CntZero
  <2>2. CASE f \in Range(stack[u])
    <3>1. CallOK(u, f)
      BY <2>2 DEF SInv, CallsOK
    <3>2. CASE f \in Owned(f.s)
      <4>1. f.s # s /\ f.s \in Sessions /\ f.h \in Heads
        BY <2>1, <3>1, <3>2 DEF CallOK, Owned, Call
      <4>2. sess'[f.s] = sess[f.s] /\ (f.s \in Range(heads[f.h]) => f.s \in Range(heads'[f.h]))
        BY <4>1, <1>7, <1>8
      <4> QED
        BY <3>1, <3>2, <4>2 DEF CallOK
    <3>3. CASE f \notin Owned(f.s)
      <4>1. f \notin Locking(f.s)
        BY <3>3, Roles
      <4> QED
        BY <3>1, <3>3, <4>1 DEF CallOK
    <3> QED
      BY <3>2, <3>3
  <2>3. CASE f \notin Range(stack[u])
    <3>1. u = t
      BY <2>3 DEF Frames
    <3>2. f \in G
      BY <3>1, <2>3 DEF Frames
    <3>3. Placed(f)
      BY <3>2 DEF CallsPlaced
    <3>4. f \notin Owned(f.s)
      BY <3>2, <3>3 DEF NoOwners, Placed
    <3>5. f \notin Locking(f.s)
      BY <3>4, Roles
    <3> QED
      BY <3>3, <3>4, <3>5 DEF Placed, CallOK
  <2> QED
    BY <2>2, <2>3
<1>14. CountsOK'
  <2> SUFFICES ASSUME NEW r \in Sessions PROVE CountOK(r)'
    BY DEF CountsOK
  <2>1. CASE r = s
    <3>1. \A u \in Threads : \A f \in Range(stack'[u]) : f \notin Owned(s)
      BY <1>12, CntZero
    <3>2. \A u \in Threads : \A f \in Range(stack'[u]) :
             f \notin Locking(s) /\ f \notin Opening(s)
      BY <3>1, Roles
    <3>3. Cnt(stack', Locking(s)) = 0 /\ Cnt(stack', Opening(s)) = 0
      BY <3>2, <1>12, CntZero
    <3> QED
      BY <2>1, <3>3, <1>7 DEF CountOK
  <2>2. CASE r # s
    <3>1. Top(t) \notin Owned(r) /\ Top(t) \notin Locking(r) /\ Top(t) \notin Opening(r)
      BY <2>2, Roles
    <3>2. /\ Ind(Top(t), Owned(r)) = 0 /\ Ind(Top(t), Locking(r)) = 0
          /\ Ind(Top(t), Opening(r)) = 0
      BY <3>1 DEF Ind
    <3>3. /\ Cnt(stack', Owned(r)) = Cnt(stack, Owned(r)) - Ind(Top(t), Owned(r))
          /\ Cnt(stack', Locking(r)) = Cnt(stack, Locking(r)) - Ind(Top(t), Locking(r))
          /\ Cnt(stack', Opening(r)) = Cnt(stack, Opening(r)) - Ind(Top(t), Opening(r))
      BY DEF TopGone
    <3>4. \A F : Cnt(stack, F) \in Nat
      BY CntNat
    <3>5. /\ Cnt(stack', Owned(r)) = Cnt(stack, Owned(r))
          /\ Cnt(stack', Locking(r)) = Cnt(stack, Locking(r))
          /\ Cnt(stack', Opening(r)) = Cnt(stack, Opening(r))
      BY <3>2, <3>3, <3>4
    <3>6. CountOK(r) /\ sess'[r] = sess[r]
      BY <2>2, <1>7 DEF SInv, CountsOK
    <3> QED
      BY <3>5, <3>6 DEF CountOK
  <2> QED
    BY <2>1, <2>2
<1> QED
  BY <1>9, <1>10, <1>11, <1>13, <1>14 DEF SInv

\* An open fails before its session has a context.
LEMMA OpenFailsStep ==
    ASSUME SInv, NEW t \in Threads, OpenFails(t) PROVE SInv'
<1>1. stack[t] # <<>> /\ Top(t).pc = "fail"
  BY DEF OpenFails, At
<1>2. PICK f : f = Top(t)
  OBVIOUS
<1>3. /\ f \in Call /\ CallOK(t, f) /\ Shape(f) /\ f \in Range(stack[t])
      /\ f.pc = "fail"
  BY <1>1, <1>2, TopCall DEF CallOK
<1>4. f.op = "open" /\ f.h \in Heads
  BY <1>3 DEF Shape, Call
<1>5. PICK s \in Sessions : s = f.s
  BY <1>3 DEF CallOK
<1>6. f \in Owned(s) /\ f \in Opening(s)
  BY <1>3, <1>4, <1>5 DEF Owned, Opening, OwnsSession
<1>7. CASE SessionUsed(t, s)
  <2>1. UNCHANGED <<sess, heads, ctxes, stack>>
    BY <1>2, <1>5, <1>7 DEF OpenFails, Stop
  <2> QED
    BY <2>1, UnchangedStep
<1>8. CASE ~SessionUsed(t, s)
  <2>1. PICK h \in Heads : h = f.h
    BY <1>4
  <2>2. /\ heads' = [heads EXCEPT ![h] = Without(heads[h], s)]
        /\ sess' = [sess EXCEPT ![s] = NULL] /\ Return(t) /\ ctxes' = ctxes
    BY <1>2, <1>5, <1>8, <2>1 DEF OpenFails
  <2>3. /\ Frames(t, {}) /\ NestedOK' /\ CallsPlaced({}) /\ NoOwners({}) /\ TopGone(t)
    BY <1>1, <2>2, ReturnGone
  <2>4. stack' \in Stacks /\ stack \in [Threads -> Seq(Call)]
    BY <2>3 DEF Frames, SInv, SessTypes, Stacks
  <2>5. Cnt(stack', Opening(s)) = 0
    <3>1. Cnt(stack', Opening(s)) = Cnt(stack, Opening(s)) - Ind(Top(t), Opening(s))
      BY <2>3 DEF TopGone
    <3>2. Ind(Top(t), Opening(s)) = 1
      BY <1>2, <1>6 DEF Ind
    <3>3. Cnt(stack, Opening(s)) <= 1
      BY DEF SInv, CountsOK, CountOK
    <3>4. Cnt(stack, Opening(s)) \in Nat /\ Cnt(stack', Opening(s)) \in Nat
      BY <2>4, CntNat, CntZero
    <3> QED
      BY <3>1, <3>2, <3>3, <3>4
  <2>6. ASSUME NEW u \in Threads, NEW g \in Range(stack'[u]) PROVE g \notin Owned(s)
    <3>1. CASE u = t
      <4>1. stack'[t] = Tail(stack[t])
        BY <2>2, <2>4 DEF Return
      <4>2. Nested(stack[t]) /\ stack[t] \in Seq(Call)
        BY <2>4 DEF SInv, NestedOK
      <4> QED
        BY <1>1, <1>2, <1>5, <1>6, <3>1, <4>1, <4>2, PoppedSeq DEF Top
    <3>2. CASE u # t
      <4> SUFFICES ASSUME g \in Owned(s) PROVE FALSE
        OBVIOUS
      <4>1. stack'[u] = stack[u]
        BY <3>2, <2>3 DEF Frames
      <4>2. PICK i \in DOMAIN stack[u] : g = stack[u][i]
        BY <4>1 DEF Range
      <4>3. <<u, i>> \in CallsIn /\ <<u, i>> # <<t, 1>>
        BY <3>2 DEF CallsIn
      <4>4. UsedSession(g) # s
        BY <4>2, <4>3, <1>8 DEF SessionUsed, CallsThat
      <4>5. g \notin Opening(s)
        BY <2>4, <2>5, CntZero
      <4>6. g \in Call /\ g.s = s /\ g.op # "open"
        BY <4>5, Roles DEF Opening
      <4>7. Shape(g)
        BY <4>1 DEF SInv, CallsOK, CallOK
      <4> QED
        BY <4>4, <4>6, <4>7 DEF UsedSession, Shape, Owned, OwnsSession, Call
    <3> QED
      BY <3>1, <3>2
  <2>7. Cnt(stack', Owned(s)) = 0
    BY <2>4, <2>6, CntZero
  <2> QED
    BY <1>1, <1>2, <1>5, <1>6, <2>1, <2>2, <2>3, <2>7, FreeStep
<1> QED
  BY <1>7, <1>8

\* The call becomes one that owns nothing.
LEMMA BecomeGone ==
    ASSUME SInv, NEW t \in Threads, stack[t] # <<>>, NEW g \in Call, g.op = Top(t).op,
           Placed(g), \A r \in Sessions : g \notin Owned(r),
           stack' = [stack EXCEPT ![t] = <<g>> \o Tail(stack[t])]
    PROVE  Frames(t, {g}) /\ NestedOK' /\ CallsPlaced({g}) /\ NoOwners({g}) /\ TopGone(t)
<1>1. \A r \in Sessions : g \notin Locking(r) /\ g \notin Opening(r)
  BY Roles
<1>2. Continues(Top(t), g)
  BY <1>1 DEF Continues, Placed
<1>3. /\ Frames(t, {g}) /\ NestedOK'
      /\ Counts(LAMBDA F : Ind(g, F) - Ind(Top(t), F))
  BY <1>2, BecomeFrames
<1>4. ASSUME NEW F, g \notin F PROVE Cnt(stack', F) = Cnt(stack, F) - Ind(Top(t), F)
  <2>1. Ind(g, F) = 0 /\ Ind(Top(t), F) \in Nat
    BY <1>4 DEF Ind
  <2>2. /\ Cnt(stack', F) = Cnt(stack, F) + (Ind(g, F) - Ind(Top(t), F))
        /\ Cnt(stack, F) \in Nat
    BY <1>3 DEF Counts
  <2> QED
    BY <2>1, <2>2
<1>5. TopGone(t)
  BY <1>1, <1>4 DEF TopGone
<1> QED
  BY <1>3, <1>5 DEF CallsPlaced, NoOwners

\* A close frees its session with the last reference.
LEMMA FreeSessionStep ==
    ASSUME SInv, NEW t \in Threads, stack[t] # <<>>, Top(t).pc \in {"unlink", "refc"},
           sess[Top(t).s].ref = 1, FreeSession(t)
    PROVE  SInv'
<1>1. PICK f : f = Top(t)
  OBVIOUS
<1>2. /\ f \in Call /\ CallOK(t, f) /\ Shape(f) /\ f \in Range(stack[t])
      /\ f.pc \in {"unlink", "refc"}
  BY <1>1, TopCall DEF CallOK
<1>3. f.op = "close" /\ f.h \in Heads
  BY <1>2 DEF Shape, Call
<1>4. PICK s \in Sessions : s = f.s
  BY <1>2 DEF CallOK
<1>5. f \in Owned(s)
  BY <1>2, <1>3, <1>4 DEF Owned, OwnsSession
<1>6. sess[s] # NULL
  BY <1>2, <1>4, <1>5 DEF CallOK
<1>7. CASE SessionUsed(t, s)
  <2>1. UNCHANGED <<sess, heads, ctxes, stack>>
    BY <1>1, <1>4, <1>7 DEF FreeSession, Stop
  <2> QED
    BY <2>1, UnchangedStep
<1>8. CASE ~SessionUsed(t, s)
  <2>1. PICK h \in Heads : h = f.h
    BY <1>3
  <2>2. PICK l \in {"release", "clear"} : l = IF f.res = "none" THEN "release" ELSE "clear"
    OBVIOUS
  <2>3. /\ heads' = [heads EXCEPT ![h] = Without(heads[h], s)]
        /\ sess' = [sess EXCEPT ![s] = NULL] /\ ctxes' = ctxes
        /\ IF f.c = NULL THEN Return(t) ELSE Goto(t, l)
    BY <1>1, <1>4, <1>8, <2>1, <2>2 DEF FreeSession
  <2>4. ASSUME TopGone(t), stack' \in Stacks PROVE Cnt(stack', Owned(s)) = 0
    <3>1. Cnt(stack', Owned(s)) = Cnt(stack, Owned(s)) - Ind(Top(t), Owned(s))
      BY <2>4 DEF TopGone
    <3>2. Ind(Top(t), Owned(s)) = 1
      BY <1>1, <1>5 DEF Ind
    <3>3. Cnt(stack, Owned(s)) <= 1
      BY <1>1, <1>4, <1>6 DEF SInv, CountsOK, CountOK
    <3>4. Cnt(stack, Owned(s)) \in Nat /\ Cnt(stack', Owned(s)) \in Nat
      BY <2>4, CntNat, CntZero
    <3> QED
      BY <3>1, <3>2, <3>3, <3>4
  <2>5. CASE f.c = NULL
    <3>1. /\ Frames(t, {}) /\ NestedOK' /\ CallsPlaced({}) /\ NoOwners({}) /\ TopGone(t)
      BY <2>3, <2>5, ReturnGone
    <3>2. Cnt(stack', Owned(s)) = 0
      BY <2>4, <3>1 DEF Frames
    <3> QED
      BY <1>1, <1>4, <1>5, <2>1, <2>3, <3>1, <3>2, FreeStep
  <2>6. CASE f.c # NULL
    <3>1. PICK g : g = [f EXCEPT !.pc = l]
      OBVIOUS
    <3>2. Variant(f, g) /\ g.pc = l /\ g.c = f.c
      BY <1>2, <3>1, Labels, CallFields
    <3>3. g \in Call /\ g.op = "close" /\ g.s = s
      BY <3>2, <1>3, <1>4 DEF Variant
    <3>4. \A r : g \notin Owned(r)
      BY <3>2, <3>3, <2>2 DEF Owned, OwnsSession
    <3>5. Placed(g)
      BY <3>2, <3>3, <3>4, <2>2, <2>6 DEF Placed, Shape
    <3>6. stack' = [stack EXCEPT ![t] = <<g>> \o Tail(stack[t])]
      BY <1>1, <2>3, <2>6, <3>1 DEF Goto, Become
    <3>7. /\ Frames(t, {g}) /\ NestedOK' /\ CallsPlaced({g}) /\ NoOwners({g})
          /\ TopGone(t)
      BY <1>1, <1>3, <3>3, <3>4, <3>5, <3>6, BecomeGone
    <3>8. Cnt(stack', Owned(s)) = 0
      BY <2>4, <3>7 DEF Frames
    <3> QED
      BY <1>1, <1>4, <1>5, <2>1, <2>3, <3>7, <3>8, FreeStep
  <2> QED
    BY <2>5, <2>6
<1> QED
  BY <1>7, <1>8

\* tee_ta_unlink_session().
LEMMA UnlinkStep ==
    ASSUME SInv, NEW t \in Threads, Unlink(t) PROVE SInv'
<1>1. stack[t] # <<>> /\ Top(t).pc = "unlink"
  BY DEF Unlink, At
<1>2. PICK f : f = Top(t)
  OBVIOUS
<1>3. /\ f \in Call /\ CallOK(t, f) /\ Shape(f) /\ f \in Range(stack[t])
      /\ f.pc = "unlink"
  BY <1>1, <1>2, TopCall DEF CallOK
<1>4. f.op = "close"
  BY <1>3 DEF Shape, Call
<1>5. PICK s \in Sessions : s = f.s
  BY <1>3 DEF CallOK
<1>6. f \in Owned(s)
  BY <1>3, <1>4, <1>5 DEF Owned, OwnsSession
<1>7. sess[s] # NULL /\ sess[s] \in Session
  BY <1>3, <1>6, RefPositive
<1>8. \/ UNCHANGED <<sess, heads, ctxes, stack>>
      \/ sess[s].ref = 1 /\ FreeSession(t)
      \/ /\ sess' = [sess EXCEPT ![s].unlink = TRUE]
         /\ Goto(t, "refc") /\ UNCHANGED <<heads, ctxes>>
  BY <1>2, <1>5 DEF Unlink, Stop
<1>9. CASE UNCHANGED <<sess, heads, ctxes, stack>>
  BY <1>9, UnchangedStep
<1>10. CASE sess[s].ref = 1 /\ FreeSession(t)
  BY <1>1, <1>2, <1>5, <1>10, FreeSessionStep
<1>11. CASE /\ sess' = [sess EXCEPT ![s].unlink = TRUE]
            /\ Goto(t, "refc") /\ UNCHANGED <<heads, ctxes>>
  <2>1. PICK k : k = [sess[s] EXCEPT !.unlink = TRUE]
    OBVIOUS
  <2>2. /\ k \in Session /\ k.id = sess[s].id /\ k.ref = sess[s].ref
        /\ k.lock = sess[s].lock
    BY <2>1, <1>7 DEF Session
  <2>3. sess' = [sess EXCEPT ![s] = k] /\ heads' = heads /\ ctxes' \in Seq(Ctxs)
    BY <2>1, <1>11 DEF SInv, SessTypes, Data
  <2>4. Data' /\ Unmoved /\ SameRefs
    BY <1>7, <2>2, <2>3, SessionChanged
  <2>5. PICK g : g = [f EXCEPT !.pc = "refc"]
    OBVIOUS
  <2>6. Variant(f, g) /\ g.pc = "refc"
    BY <1>3, <2>5, Labels, CallFields
  <2>7. Shape(g) /\ KeepsRole(f, g)
    BY <1>3, <1>4, <2>6 DEF Shape, KeepsRole, Variant
  <2>8. stack' = [stack EXCEPT ![t] = <<g>> \o Tail(stack[t])]
    BY <1>2, <1>11, <2>5 DEF Goto, Become
  <2> QED
    BY <1>1, <1>2, <2>4, <2>6, <2>7, <2>8, MoveStep
<1> QED
  BY <1>8, <1>9, <1>10, <1>11

\* The wait for the last reference is over, or continues.
LEMMA UnlinkWaitStep ==
    ASSUME SInv, NEW t \in Threads, UnlinkWait(t) PROVE SInv'
<1>1. stack[t] # <<>> /\ Top(t).pc = "refc"
  BY DEF UnlinkWait, At
<1>2. CASE sess[Top(t).s].ref = 1
  BY <1>1, <1>2, FreeSessionStep DEF UnlinkWait
<1>3. CASE sess[Top(t).s].ref # 1
  <2>1. UNCHANGED <<sess, heads, ctxes, stack>>
    BY <1>3 DEF UnlinkWait
  <2> QED
    BY <2>1, UnchangedStep
<1> QED
  BY <1>2, <1>3

-----------------------------------------------------------------------------
(* Sessions are opened.                                                    *)

\* A session with the id is not in the list.
LEMMA NewIdFree ==
    ASSUME heads \in [Heads -> Seq(Sessions)], NEW h \in Heads, NEW id, NewId(h, id)
    PROVE  \A r \in Range(heads[h]) : sess[r].id # id
<1>1. Find(h, id) = {}
  BY DEF NewId
<1> SUFFICES ASSUME NEW r \in Range(heads[h]), sess[r].id = id PROVE FALSE
  OBVIOUS
<1>2. PICK i \in DOMAIN heads[h] : heads[h][i] = r
  BY DEF Range
<1>3. i \in Find(h, id)
  BY <1>2 DEF Find
<1> QED
  BY <1>1, <1>3

\* The new session k at s is appended to the list h, and g opens it.
LEMMA NewSessionStep ==
    ASSUME SInv, NEW t \in Threads, NEW s \in Sessions, sess[s] = NULL, NEW h \in Heads,
           NEW k \in Session, k.ref = 1, k.lock = NULL,
           \A r \in Range(heads[h]) : sess[r].id # k.id,
           heads' = [heads EXCEPT ![h] = Append(heads[h], s)],
           sess' = [sess EXCEPT ![s] = k], ctxes' = ctxes,
           NEW g \in Opening(s), g.h = h, Shape(g),
           stack' = [stack EXCEPT ![t] = <<g>> \o stack[t]]
    PROVE  SInv'
<1>1. /\ sess \in [Sessions -> Session \cup {NULL}] /\ heads \in [Heads -> Seq(Sessions)]
      /\ ctxes \in Seq(Ctxs) /\ ListsOK /\ stack \in Stacks
      /\ stack \in [Threads -> Seq(Call)]
  BY DEF SInv, SessTypes, Data, Stacks
<1>2. g \in Call /\ g.s = s /\ g \in Owned(s) /\ g.op = "open" /\ g \notin Locking(s)
  BY Roles DEF Opening, Locking
<1>3. k # NULL
  BY NullAssumption
<1>4. \A u \in Threads : \A f \in Range(stack[u]) :
         f \notin Owned(s) /\ f \notin Locking(s) /\ f \notin Opening(s)
  <2>1. Cnt(stack, Owned(s)) <= 0
    BY DEF SInv, CountsOK, CountOK
  <2>2. Cnt(stack, Owned(s)) = 0
    BY <2>1, CntNat
  <2> QED
    BY <2>2, <1>1, CntZero, Roles
<1>5. Cnt(stack, Owned(s)) = 0 /\ Cnt(stack, Locking(s)) = 0 /\ Cnt(stack, Opening(s)) = 0
  BY <1>1, <1>4, CntZero
<1>6. Frames(t, {g}) /\ NestedOK' /\ \A F : Cnt(stack', F) = Cnt(stack, F) + Ind(g, F)
  <2>1. g.op = "cancel" => stack[t] = <<>>
    BY <1>2
  <2>2. g \in Opening(g.s) => \A f \in Range(stack[t]) : f \notin Owned(g.s)
    BY <1>2, <1>4
  <2>3. Frames(t, {g}) /\ NestedOK' /\ Counts(LAMBDA F : Ind(g, F))
    BY <1>2, <2>1, <2>2, PushFrames
  <2> QED
    BY <2>3 DEF Counts
<1>7. \A x \in Heads : s \notin Range(heads[x])
  BY <1>1 DEF ListsOK
<1>8. PICK q : q = Append(heads[h], s)
  OBVIOUS
<1>9. q \in Seq(Sessions) /\ Range(q) = Range(heads[h]) \cup {s} /\ NoDuplicates(q)
  <2>1. heads[h] \in Seq(Sessions) /\ NoDuplicates(heads[h]) /\ s \notin Range(heads[h])
    BY <1>1, <1>7 DEF ListsOK
  <2> QED
    BY <2>1, <1>8, AppendElement
<1>10. /\ heads'[h] = q /\ \A x \in Heads : x # h => heads'[x] = heads[x]
       /\ heads' \in [Heads -> Seq(Sessions)]
  BY <1>1, <1>8, <1>9
<1>11. /\ sess'[s] = k /\ \A r \in Sessions : r # s => sess'[r] = sess[r]
       /\ sess' \in [Sessions -> Session \cup {NULL}]
  BY <1>1
<1>12. /\ Range(heads'[h]) = Range(heads[h]) \cup {s}
       /\ \A x \in Heads : x # h => Range(heads'[x]) = Range(heads[x])
  BY <1>9, <1>10
<1>13. SessTypes'
  BY <1>1, <1>6, <1>10, <1>11 DEF SessTypes, Data, Frames
<1>14. ListsOK'
  <2>1. \A x \in Heads : NoDuplicates(heads'[x])
    BY <1>1, <1>9, <1>10 DEF ListsOK
  <2>2. \A x, y \in Heads : x # y => Range(heads'[x]) \cap Range(heads'[y]) = {}
    <3> SUFFICES ASSUME NEW x \in Heads, NEW y \in Heads, x # y
                 PROVE  Range(heads'[x]) \cap Range(heads'[y]) = {}
      OBVIOUS
    <3>1. Range(heads[x]) \cap Range(heads[y]) = {}
      BY <1>1 DEF ListsOK
    <3>2. s \notin Range(heads[x]) /\ s \notin Range(heads[y])
      BY <1>7
    <3>3. CASE x = h
      BY <3>1, <3>2, <3>3, <1>12
    <3>4. CASE y = h
      BY <3>1, <3>2, <3>4, <1>12
    <3>5. CASE x # h /\ y # h
      BY <3>1, <3>5, <1>12
    <3> QED
      BY <3>3, <3>4, <3>5
  <2>3. ASSUME NEW r \in Sessions
        PROVE  sess'[r] # NULL <=> \E x \in Heads : r \in Range(heads'[x])
    <3>1. CASE r = s
      BY <3>1, <1>3, <1>11, <1>12
    <3>2. CASE r # s
      <4>1. \A x \in Heads : r \in Range(heads'[x]) <=> r \in Range(heads[x])
        BY <3>2, <1>12
      <4>2. sess[r] # NULL <=> \E x \in Heads : r \in Range(heads[x])
        BY <1>1 DEF ListsOK
      <4> QED
        BY <3>2, <4>1, <4>2, <1>11
    <3> QED
      BY <3>1, <3>2
  <2> QED
    BY <2>1, <2>2, <2>3 DEF ListsOK
<1>15. IdsNameSessions'
  <2> SUFFICES ASSUME NEW x \in Heads, NEW a \in Range(heads'[x]), NEW b \in Range(heads'[x]),
                      sess'[a].id = sess'[b].id
               PROVE  a = b
    BY DEF IdsNameSessions
  <2>1. a \in Sessions /\ b \in Sessions
    BY <1>10 DEF Range
  <2>2. CASE x # h
    <3>1. a \in Range(heads[x]) /\ b \in Range(heads[x])
      BY <2>2, <1>12
    <3>2. sess'[a] = sess[a] /\ sess'[b] = sess[b]
      BY <2>1, <3>1, <1>7, <1>11
    <3> QED
      BY <3>1, <3>2 DEF SInv, IdsNameSessions
  <2>3. CASE x = h
    <3>1. a \in Range(heads[h]) \cup {s} /\ b \in Range(heads[h]) \cup {s}
      BY <2>3, <1>12
    <3>2. CASE a # s /\ b # s
      <4>1. a \in Range(heads[h]) /\ b \in Range(heads[h]) /\ sess[a].id = sess[b].id
        BY <2>1, <3>1, <3>2, <1>11
      <4> QED
        BY <4>1 DEF SInv, IdsNameSessions
    <3>3. CASE a = s /\ b # s
      BY <2>1, <3>1, <3>3, <1>11
    <3>4. CASE a # s /\ b = s
      BY <2>1, <3>1, <3>4, <1>11
    <3> QED
      BY <3>2, <3>3, <3>4
  <2> QED
    BY <2>2, <2>3
<1>16. CallsOK'
  <2> SUFFICES ASSUME NEW u \in Threads, NEW f \in Range(stack'[u]) PROVE CallOK(u, f)'
    BY DEF CallsOK
  <2>1. CASE f \in Range(stack[u])
    <3>1. CallOK(u, f) /\ f \notin Owned(s) /\ f \in Call
      BY <2>1, <1>1, <1>4 DEF SInv, CallsOK, Range
    <3>2. CASE f \in Owned(f.s)
      <4>1. f.s # s /\ f.s \in Sessions /\ f.h \in Heads
        BY <3>1, <3>2 DEF CallOK, Call
      <4>2. sess'[f.s] = sess[f.s] /\ (f.s \in Range(heads[f.h]) => f.s \in Range(heads'[f.h]))
        BY <4>1, <1>11, <1>12
      <4> QED
        BY <3>1, <3>2, <4>2 DEF CallOK
    <3>3. CASE f \notin Owned(f.s)
      <4>1. f \notin Locking(f.s)
        BY <3>3, Roles
      <4> QED
        BY <3>1, <3>3, <4>1 DEF CallOK
    <3> QED
      BY <3>2, <3>3
  <2>2. CASE f \notin Range(stack[u])
    <3>1. u = t
      BY <2>2, <1>6 DEF Frames
    <3>2. f = g
      BY <3>1, <2>2, <1>6 DEF Frames
    <3>3. sess'[s] # NULL /\ s \in Range(heads'[h])
      BY <1>3, <1>11, <1>12
    <3> QED
      BY <3>2, <3>3, <1>2 DEF CallOK
  <2> QED
    BY <2>1, <2>2
<1>17. CountsOK'
  <2> SUFFICES ASSUME NEW r \in Sessions PROVE CountOK(r)'
    BY DEF CountsOK
  <2>1. /\ Cnt(stack', Owned(r)) = Cnt(stack, Owned(r)) + Ind(g, Owned(r))
        /\ Cnt(stack', Locking(r)) = Cnt(stack, Locking(r)) + Ind(g, Locking(r))
        /\ Cnt(stack', Opening(r)) = Cnt(stack, Opening(r)) + Ind(g, Opening(r))
    BY <1>6
  <2>2. CASE r = s
    <3>1. Ind(g, Owned(s)) = 1 /\ Ind(g, Locking(s)) = 0 /\ Ind(g, Opening(s)) = 1
      BY <1>2 DEF Ind
    <3>2. /\ Cnt(stack', Owned(s)) = 1 /\ Cnt(stack', Locking(s)) = 0
          /\ Cnt(stack', Opening(s)) = 1
      BY <2>1, <2>2, <3>1, <1>5
    <3> QED
      BY <2>2, <3>2, <1>3, <1>11 DEF CountOK
  <2>3. CASE r # s
    <3>1. g \notin Owned(r) /\ g \notin Locking(r) /\ g \notin Opening(r)
      BY <2>3, <1>2, Roles
    <3>2. Ind(g, Owned(r)) = 0 /\ Ind(g, Locking(r)) = 0 /\ Ind(g, Opening(r)) = 0
      BY <3>1 DEF Ind
    <3>3. \A F : Cnt(stack, F) \in Nat
      BY CntNat
    <3>4. /\ Cnt(stack', Owned(r)) = Cnt(stack, Owned(r))
          /\ Cnt(stack', Locking(r)) = Cnt(stack, Locking(r))
          /\ Cnt(stack', Opening(r)) = Cnt(stack, Opening(r))
      BY <2>1, <3>2, <3>3
    <3>5. CountOK(r) /\ sess'[r] = sess[r]
      BY <2>3, <1>11 DEF SInv, CountsOK
    <3> QED
      BY <3>4, <3>5 DEF CountOK
  <2> QED
    BY <2>2, <2>3
<1> QED
  BY <1>6, <1>13, <1>14, <1>15, <1>16, <1>17 DEF SInv

\* A client opens a session.
LEMMA OpenStep ==
    ASSUME SInv, NEW t \in Threads, NEW h \in Heads, NEW ta \in TAs, NEW s \in Sessions,
           Open(t, h, ta, s)
    PROVE  SInv'
<1>1. /\ sess[s] = NULL /\ heads' = [heads EXCEPT ![h] = Append(heads[h], s)]
      /\ ctxes' = ctxes
  BY DEF Open
<1>2. PICK f : f = [op |-> "open", pc |-> "init", h |-> h, ta |-> ta,
                    s |-> s, c |-> NULL, res |-> "none"]
  OBVIOUS
<1>3. PICK rest : rest = stack[t]
  OBVIOUS
<1>4. PICK id \in Ids :
         /\ NewId(h, id)
         /\ InitWithContext(t, f, rest,
              [sess EXCEPT ![s] = [id |-> id, ctx |-> NULL, ref |-> 1, lock |-> NULL,
                                   unlink |-> FALSE, cancel |-> FALSE,
                                   told |-> FALSE]])
  BY <1>2, <1>3 DEF Open
<1>5. PICK k : k = [id |-> id, ctx |-> NULL, ref |-> 1, lock |-> NULL,
                    unlink |-> FALSE, cancel |-> FALSE, told |-> FALSE]
  OBVIOUS
<1>6. PICK S : S = [sess EXCEPT ![s] = k]
  OBVIOUS
<1>7. ctxes \in Seq(Ctxs) /\ heads \in [Heads -> Seq(Sessions)]
      /\ sess \in [Sessions -> Session \cup {NULL}]
  BY DEF SInv, SessTypes, Data
<1>8. InitResult(t, f, rest, S)
  BY <1>4, <1>5, <1>6, <1>7, InitCtx
<1>9. PICK l \in {"load", "init", "fail", "opened"} :
              /\ stack' = [stack EXCEPT ![t] = <<[f EXCEPT !.pc = l]>> \o rest]
              /\ sess' = S \/ \E c \in Ctxs : sess' = [S EXCEPT ![f.s].ctx = c]
  BY <1>8 DEF InitResult
<1>10. PICK g : g = [f EXCEPT !.pc = l]
  OBVIOUS
<1>11. g \in Call /\ g.op = "open" /\ g.pc = l /\ g.s = s /\ g.h = h
  <2>1. l \in PC
    BY <1>9 DEF PC
  <2> QED
    BY <2>1, <1>2, <1>10 DEF Call
<1>12. g \in Opening(s) /\ Shape(g)
  <2>1. l # "origin"
    BY <1>9
  <2>2. g \in Opening(s)
    BY <1>11, <2>1 DEF Opening, Owned, OwnsSession
  <2> QED
    BY <2>2, <1>9, <1>11 DEF Shape
<1>13. stack' = [stack EXCEPT ![t] = <<g>> \o stack[t]]
  BY <1>3, <1>9, <1>10
<1>14. PICK m : /\ m \in Session /\ m.ref = 1 /\ m.lock = NULL /\ m.id = id
                /\ sess' = [sess EXCEPT ![s] = m]
  <2>1. k \in Session /\ k.ref = 1 /\ k.lock = NULL /\ k.id = id
    BY <1>5 DEF Session
  <2>2. CASE sess' = S
    BY <2>1, <2>2, <1>6
  <2>3. ASSUME NEW c \in Ctxs, sess' = [S EXCEPT ![f.s].ctx = c]
        PROVE  \E m : /\ m \in Session /\ m.ref = 1 /\ m.lock = NULL /\ m.id = id
                      /\ sess' = [sess EXCEPT ![s] = m]
    <3>1. PICK m : m = [k EXCEPT !.ctx = c]
      OBVIOUS
    <3>2. m \in Session /\ m.ref = 1 /\ m.lock = NULL /\ m.id = id
      BY <2>1, <3>1 DEF Session
    <3>3. f.s = s
      BY <1>2
    <3>4. sess' = [sess EXCEPT ![s] = m]
      BY <2>3, <3>1, <3>3, <1>6, <1>7
    <3> QED
      BY <3>2, <3>4
  <2> QED
    BY <1>9, <2>2, <2>3
<1>15. \A r \in Range(heads[h]) : sess[r].id # m.id
  BY <1>4, <1>7, <1>14, NewIdFree
<1> QED
  BY <1>1, <1>11, <1>12, <1>13, <1>14, <1>15, NewSessionStep

-----------------------------------------------------------------------------
(* The invariant.                                                          *)

\* The initial state satisfies the invariant.
LEMMA InitSInv == Init => SInv
<1> SUFFICES ASSUME Init PROVE SInv
  OBVIOUS
<1>1. /\ \A s \in Sessions : sess[s] = NULL
      /\ \A h \in Heads : heads[h] = <<>>
      /\ \A t \in Threads : stack[t] = <<>>
  BY DEF Init
<1>2. Data
  BY DEF Init, Data
<1>3. \A t \in Threads : DOMAIN stack[t] = {} /\ Range(stack[t]) = {}
  BY <1>1 DEF Range
<1>4. \A h \in Heads : Range(heads[h]) = {} /\ NoDuplicates(heads[h])
  BY <1>1 DEF Range, NoDuplicates
<1>5. stack \in Stacks
  <2>1. Places(stack) = {}
    BY <1>3 DEF Places
  <2>2. stack \in [Threads -> Seq(Call)]
    BY DEF Init
  <2> QED
    BY <2>1, <2>2, FS_EmptySet DEF Stacks
<1>6. \A F : Cnt(stack, F) = 0
  BY <1>3, <1>5, CntZero
<1>7. ListsOK
  BY <1>1, <1>4 DEF ListsOK
<1>8. CallsOK /\ NestedOK
  BY <1>3 DEF CallsOK, NestedOK, Nested
<1>9. CountsOK
  BY <1>1, <1>6 DEF CountsOK, CountOK
<1>10. IdsNameSessions
  BY <1>4 DEF IdsNameSessions
<1> QED
  BY <1>2, <1>5, <1>7, <1>8, <1>9, <1>10 DEF SInv, SessTypes

\* What a client asks for.
LEMMA RequestStep ==
    ASSUME SInv, NEW t \in Threads, Request(t) PROVE SInv'
<1>1. ASSUME NEW h \in Heads, NEW ta \in TAs, NEW s \in Sessions, Open(t, h, ta, s)
      PROVE  SInv'
  BY <1>1, OpenStep
<1>2. ASSUME NEW h \in Heads, NEW s \in Sessions, Invoke(t, h, s) PROVE SInv'
  BY <1>2, InvokeStep
<1>3. ASSUME NEW h \in Heads, NEW s \in Sessions, InvokeAgain(t, h, s) PROVE SInv'
  <2>1. UNCHANGED <<sess, heads, ctxes, stack>>
    BY <1>3 DEF InvokeAgain, Stop
  <2> QED
    BY <2>1, UnchangedStep
<1>4. ASSUME NEW h \in Heads, NEW s \in Sessions, Close(t, h, s) PROVE SInv'
  BY <1>4, CloseStep
<1>5. ASSUME NEW s \in Sessions, CancelGet(t, s) PROVE SInv'
  BY <1>5, CancelGetStep
<1> QED
  BY <1>1, <1>2, <1>3, <1>4, <1>5 DEF Request

\* A step of the core.
LEMMA ProgressStep ==
    ASSUME SInv, NEW t \in Threads, Progress(t) PROVE SInv'
<1>1. ASSUME OpenRetry(t) PROVE SInv'
  BY <1>1, OpenRetryStep
<1>2. ASSUME (\E c \in Ctxs : LoadStart(t, c)) \/ LoadNone(t) \/ Loaded(t) \/ LoadFails(t)
      PROVE  SInv'
  BY <1>2, LoadSteps
<1>3. ASSUME OpenFails(t) PROVE SInv'
  BY <1>3, OpenFailsStep
<1>4. ASSUME Opened(t) PROVE SInv'
  BY <1>4, OpenedStep
<1>5. ASSUME OpenPut(t) PROVE SInv'
  BY <1>5, OpenPutStep
<1>6. ASSUME OpenEnd(t) PROVE SInv'
  BY <1>6, OpenEndStep
<1>7. ASSUME CloseGet(t) PROVE SInv'
  BY <1>7, CloseGetStep
<1>8. ASSUME Lock(t) PROVE SInv'
  BY <1>8, LockStep
<1>9. ASSUME Cancel(t) PROVE SInv'
  BY <1>9, CancelStep
<1>10. ASSUME SetBusyConcurrent(t) \/ SetBusy(t) \/ ClearBusy(t) \/ Enter(t) PROVE SInv'
  BY <1>10, PlainSteps
<1>11. ASSUME WaitBusy(t) PROVE SInv'
  <2>1. UNCHANGED <<sess, heads, ctxes, stack>>
    BY <1>11 DEF WaitBusy
  <2> QED
    BY <2>1, UnchangedStep
<1>12. ASSUME BusyRefused(t) PROVE SInv'
  BY <1>12, RefusedStep
<1>13. ASSUME Begin(t) PROVE SInv'
  BY <1>13, BeginStep
<1>14. ASSUME EnterTooDeep(t) PROVE SInv'
  BY <1>14, LeaveStep
<1>15. ASSUME AfterPanic(t) PROVE SInv'
  BY <1>15, AfterPanicStep
<1>16. ASSUME InvokeEnd(t) PROVE SInv'
  BY <1>16, InvokeEndStep
<1>17. ASSUME Unlink(t) PROVE SInv'
  BY <1>17, UnlinkStep
<1>18. ASSUME UnlinkWait(t) PROVE SInv'
  BY <1>18, UnlinkWaitStep
<1>19. ASSUME Release(t) PROVE SInv'
  BY <1>19, ReleaseStep
<1>20. ASSUME DestroyTaCtx(t) PROVE SInv'
  BY <1>20, DestroyTaCtxStep
<1>21. ASSUME DestroyContext(t) PROVE SInv'
  BY <1>21, DestroyContextStep
<1>22. ASSUME Refused(t) PROVE SInv'
  BY <1>22, StrangerStep
<1>23. ASSUME BeginLoading(t) PROVE SInv'
  <2>1. UNCHANGED <<sess, heads, ctxes, stack>>
    BY <1>23 DEF BeginLoading, Stop
  <2> QED
    BY <2>1, UnchangedStep
<1> QED
  BY <1>1, <1>2, <1>3, <1>4, <1>5, <1>6, <1>7, <1>8, <1>9, <1>10, <1>11, <1>12, <1>13,
     <1>14, <1>15, <1>16, <1>17, <1>18, <1>19, <1>20, <1>21, <1>22, <1>23
     DEF Progress

\* Every step keeps the invariant.
LEMMA NextSInv == SInv /\ [Next]_vars => SInv'
<1> SUFFICES ASSUME SInv, [Next]_vars PROVE SInv'
  OBVIOUS
<1>1. CASE vars' = vars
  <2>1. UNCHANGED <<sess, heads, ctxes, stack>>
    BY <1>1 DEF vars
  <2> QED
    BY <2>1, UnchangedStep
<1>2. ASSUME NEW t \in Threads, Request(t) PROVE SInv'
  BY <1>2, RequestStep
<1>3. ASSUME NEW t \in Threads, Progress(t) PROVE SInv'
  BY <1>3, ProgressStep
<1>4. ASSUME NEW t \in Threads, TaDone(t) PROVE SInv'
  BY <1>4, LeaveStep DEF TaDone
<1> QED
  BY <1>1, <1>2, <1>3, <1>4 DEF Next

\* The invariant holds in every behaviour.
LEMMA AlwaysSInv == Spec => []SInv
<1> QED
  BY InitSInv, NextSInv, PTL DEF Spec

-----------------------------------------------------------------------------
(* What it means.                                                          *)

\* The calls that own a reference of a session and those that have it locked.
LEMMA CallsOf ==
    ASSUME SInv, NEW s \in Sessions
    PROVE  /\ CallsThat(LAMBDA f : OwnsSession(f, s)) = PlacesOf(stack, Owned(s))
           /\ CallsThat(LAMBDA f : /\ f.op \in {"invoke", "close"}
                                   /\ f.pc # "lock"
                                   /\ OwnsSession(f, s)) = PlacesOf(stack, Locking(s))
<1>1. stack \in [Threads -> Seq(Call)]
  BY DEF SInv, SessTypes, Stacks
<1>2. CallsIn = Places(stack)
  BY DEF CallsIn, Places
<1>3. \A x \in Places(stack) : stack[x[1]][x[2]] \in Call
  BY <1>1 DEF Places
<1>4. \A x \in Places(stack) :
         /\ OwnsSession(stack[x[1]][x[2]], s) <=> stack[x[1]][x[2]] \in Owned(s)
         /\ /\ stack[x[1]][x[2]].op \in {"invoke", "close"}
            /\ stack[x[1]][x[2]].pc # "lock"
            /\ OwnsSession(stack[x[1]][x[2]], s)
            <=> stack[x[1]][x[2]] \in Locking(s)
  BY <1>3 DEF Owned, Locking
<1> QED
  BY <1>2, <1>4 DEF CallsThat, PlacesOf

\* The invariant implies what the run checks.
LEMMA SInvExclusive == SInv => SessionExclusive
<1> SUFFICES ASSUME SInv, NEW s \in Sessions, sess[s] # NULL
             PROVE  LET lockers == CallsThat(LAMBDA f : /\ f.op \in {"invoke", "close"}
                                                        /\ f.pc # "lock"
                                                        /\ OwnsSession(f, s))
                    IN  /\ {x[1] : x \in lockers} = {sess[s].lock} \ {NULL}
                        /\ Cardinality(lockers) <= 1
  BY DEF SessionExclusive
<1>1. PICK L : L = PlacesOf(stack, Locking(s))
  OBVIOUS
<1>2. CallsThat(LAMBDA f : /\ f.op \in {"invoke", "close"}
                           /\ f.pc # "lock"
                           /\ OwnsSession(f, s)) = L
  BY <1>1, CallsOf
<1>3. Cardinality(L) = IF sess[s].lock = NULL THEN 0 ELSE 1
  BY <1>1 DEF SInv, CountsOK, CountOK, Cnt
<1>4. IsFiniteSet(L)
  <2>1. IsFiniteSet(Places(stack))
    BY DEF SInv, SessTypes, Stacks
  <2>2. L \in SUBSET Places(stack)
    BY <1>1 DEF PlacesOf
  <2> QED
    BY <2>1, <2>2, FS_Subset
<1>5. ASSUME NEW x \in L PROVE x[1] = sess[s].lock /\ x[1] \in Threads
  <2>1. PICK u \in Threads : \E i \in DOMAIN stack[u] : x = <<u, i>>
    BY <1>1 DEF PlacesOf, Places
  <2>2. PICK i \in DOMAIN stack[u] : x = <<u, i>>
    BY <2>1
  <2>3. PICK f : f = stack[u][i]
    OBVIOUS
  <2>4. f \in Locking(s) /\ f \in Range(stack[u])
    BY <1>1, <2>2, <2>3 DEF PlacesOf, Range
  <2>5. f.s = s /\ CallOK(u, f)
    BY <2>4, Roles DEF SInv, CallsOK
  <2> QED
    BY <2>2, <2>4, <2>5 DEF CallOK
<1>6. {x[1] : x \in L} = {sess[s].lock} \ {NULL}
  <2>1. CASE sess[s].lock = NULL
    <3>1. L = {}
      BY <2>1, <1>3, <1>4, FS_EmptySet
    <3> QED
      BY <2>1, <3>1
  <2>2. CASE sess[s].lock # NULL
    <3>1. L # {}
      BY <2>2, <1>3, <1>4, FS_EmptySet
    <3> QED
      BY <2>2, <3>1, <1>5
  <2> QED
    BY <2>1, <2>2
<1>7. Cardinality(L) <= 1
  BY <1>3
<1> QED
  BY <1>2, <1>6, <1>7

\* A session is locked exactly as long as one call works in it, and by the
\* thread of that call (tee_ta_get_session(), tee_ta_put_session() and
\* tee_ta_unlink_session()), however many threads invoke, close and cancel it,
\* and although the TA calls other TAs and panics.
THEOREM SessionsExclusive == Spec => []SessionExclusive
<1> QED
  BY AlwaysSInv, SInvExclusive, PTL

\* The sessions in a list have different ids: new_session_id() finds one that
\* is not used, also after the numbers have gone round.
THEOREM IdsName == Spec => []IdsNameSessions
<1>1. SInv => IdsNameSessions
  BY DEF SInv
<1> QED
  BY <1>1, AlwaysSInv, PTL

\* The calls that own a reference of the session.
Owners(s) == CallsThat(LAMBDA f : OwnsSession(f, s))

\* ref_count is never below the number of calls that own a reference, so that a
\* close frees its session when no other call owns one; and a session is in
\* exactly one list, once.
SessionsKept ==
    /\ \A s \in Sessions :
         /\ Cardinality(Owners(s)) <= IF sess[s] = NULL THEN 0 ELSE sess[s].ref
         /\ sess[s] # NULL <=> \E h \in Heads : s \in Range(heads[h])
         /\ \A g, h \in Heads :
               \A i \in DOMAIN heads[g] : \A j \in DOMAIN heads[h] :
                   heads[g][i] = s /\ heads[h][j] = s => g = h /\ i = j
    /\ CloseAlone

\* The calls that own a reference are so many at most.
LEMMA OwnersCounted ==
    ASSUME SInv, NEW s \in Sessions
    PROVE  /\ Owners(s) = PlacesOf(stack, Owned(s)) /\ IsFiniteSet(Owners(s))
           /\ Cardinality(Owners(s)) <= IF sess[s] = NULL THEN 0 ELSE sess[s].ref
<1>1. PICK L : L = PlacesOf(stack, Owned(s))
  OBVIOUS
<1>2. Owners(s) = L
  BY <1>1, CallsOf DEF Owners
<1>3. Cardinality(L) <= IF sess[s] = NULL THEN 0 ELSE sess[s].ref
  BY <1>1 DEF SInv, CountsOK, CountOK, Cnt
<1>4. IsFiniteSet(L)
  <2>1. IsFiniteSet(Places(stack))
    BY DEF SInv, SessTypes, Stacks
  <2>2. L \in SUBSET Places(stack)
    BY <1>1 DEF PlacesOf
  <2> QED
    BY <2>1, <2>2, FS_Subset
<1> QED
  BY <1>1, <1>2, <1>3, <1>4

\* The one reference is that of the close.
LEMMA LastReference ==
    ASSUME SInv, NEW t \in Threads, FreesItsSession(t), Top(t).op = "close"
    PROVE  Owners(Top(t).s) = {<<t, 1>>}
<1>1. PICK f : f = Top(t)
  OBVIOUS
<1>2. f \in Call /\ CallOK(t, f) /\ Shape(f) /\ f.pc \in {"fail", "unlink", "refc"}
  BY <1>1, TopCall DEF FreesItsSession, CallOK
<1>3. f.op = "close" /\ f.pc \in {"unlink", "refc"}
  BY <1>1, <1>2 DEF Shape, Call
<1>4. PICK s \in Sessions : s = f.s
  BY <1>2 DEF CallOK
<1>5. f \in Owned(s)
  BY <1>2, <1>3, <1>4 DEF Owned, OwnsSession
<1>6. sess[s] # NULL /\ sess[s].ref = 1
  BY <1>1, <1>2, <1>3, <1>4, <1>5 DEF CallOK, FreesItsSession
<1>7. PICK L : L = Owners(s)
  OBVIOUS
<1>8. <<t, 1>> \in L
  <2>1. stack[t] \in Seq(Call) /\ stack[t] # <<>>
    BY DEF SInv, SessTypes, Stacks, FreesItsSession
  <2>2. 1 \in DOMAIN stack[t] /\ stack[t][1] = f
    BY <2>1, <1>1 DEF Top
  <2>3. <<t, 1>> \in Places(stack)
    BY <2>2 DEF Places
  <2>4. <<t, 1>> \in PlacesOf(stack, Owned(s))
    BY <2>2, <2>3, <1>5 DEF PlacesOf
  <2> QED
    BY <2>4, <1>7, OwnersCounted
<1>9. IsFiniteSet(L) /\ Cardinality(L) <= 1
  BY <1>6, <1>7, OwnersCounted
<1>10. Cardinality(L) = 1
  <2>1. Cardinality(L) \in Nat /\ Cardinality(L) # 0
    BY <1>8, <1>9, FS_EmptySet, FS_CardinalityType
  <2> QED
    BY <2>1, <1>9
<1>11. \E x : L = {x}
  BY <1>9, <1>10, FS_Singleton
<1>12. L = {<<t, 1>>}
  BY <1>8, <1>11
<1> QED
  BY <1>1, <1>4, <1>7, <1>12

\* So the session is freed under nobody else.
LEMMA ClosesAlone == SInv => CloseAlone
<1> SUFFICES ASSUME SInv, NEW t \in Threads, FreesItsSession(t), Top(t).op = "close"
             PROVE  ~SessionOwned(t, Top(t).s)
  BY DEF CloseAlone
<1>1. PICK s : s = Top(t).s
  OBVIOUS
<1>2. s \in Sessions
  BY <1>1, TopCall DEF FreesItsSession, CallOK
<1>3. PlacesOf(stack, Owned(s)) = {<<t, 1>>}
  <2>1. Owners(s) = {<<t, 1>>}
    BY <1>1, LastReference
  <2> QED
    BY <1>2, <2>1, OwnersCounted
<1>4. ASSUME NEW x \in CallsIn, UsedSession(stack[x[1]][x[2]]) = s, stack[x[1]][x[2]].pc # "get"
      PROVE  x = <<t, 1>>
  <2>1. PICK u \in Threads : \E i \in DOMAIN stack[u] : x = <<u, i>>
    BY DEF CallsIn
  <2>2. PICK i \in DOMAIN stack[u] : x = <<u, i>>
    BY <2>1
  <2>3. PICK e : e = stack[u][i]
    OBVIOUS
  <2>4. e \in Range(stack[u]) /\ x \in Places(stack) /\ UsedSession(e) = s /\ e.pc # "get"
    BY <1>4, <2>2, <2>3 DEF Range, Places
  <2>5. e \in Call /\ Shape(e)
    <3>1. stack[u] \in Seq(Call)
      BY DEF SInv, SessTypes, Stacks
    <3> QED
      BY <2>3, <2>4, <3>1 DEF SInv, CallsOK, CallOK
  <2>6. s # NULL
    BY <1>2, TaManagerAssumption
  <2>7. /\ e.s = s /\ e.pc \notin {"dead", "origin", "release"}
        /\ ~(e.op = "close" /\ e.pc \in {"clear", "destroy"})
    BY <2>4, <2>6 DEF UsedSession
  <2>8. OwnsSession(e, s)
    BY <2>4, <2>5, <2>7 DEF OwnsSession, Call
  <2>9. x \in PlacesOf(stack, Owned(s))
    BY <2>2, <2>3, <2>4, <2>5, <2>8 DEF PlacesOf, Owned
  <2> QED
    BY <1>3, <2>9
<1>5. ~SessionOwned(t, s)
  BY <1>4 DEF SessionOwned, CallsThat
<1> QED
  BY <1>1, <1>5

\* The invariant implies that sessions are kept.
LEMMA SInvKept == SInv => SessionsKept
<1> SUFFICES ASSUME SInv PROVE SessionsKept
  OBVIOUS
<1>1. ASSUME NEW s \in Sessions
      PROVE  Cardinality(Owners(s)) <= IF sess[s] = NULL THEN 0 ELSE sess[s].ref
  BY OwnersCounted
<1>2. ASSUME NEW s \in Sessions
      PROVE  sess[s] # NULL <=> \E h \in Heads : s \in Range(heads[h])
  BY DEF SInv, ListsOK
<1>3. ASSUME NEW s \in Sessions, NEW g \in Heads, NEW h \in Heads,
             NEW i \in DOMAIN heads[g], NEW j \in DOMAIN heads[h],
             heads[g][i] = s, heads[h][j] = s
      PROVE  g = h /\ i = j
  <2>1. s \in Range(heads[g]) /\ s \in Range(heads[h])
    BY <1>3 DEF Range
  <2>2. g = h
    BY <2>1 DEF SInv, ListsOK
  <2>3. NoDuplicates(heads[h])
    BY DEF SInv, ListsOK
  <2> QED
    BY <1>3, <2>2, <2>3 DEF NoDuplicates
<1>4. CloseAlone
  BY ClosesAlone
<1> QED
  BY <1>1, <1>2, <1>3, <1>4 DEF SessionsKept

\* tee_ta_unlink_session() and destroy_session() free no session under a call that
\* goes on to access it, but for a close of it that has no reference yet, also where
\* panicked TAs leave references behind and clients use any id.
THEOREM SessionsAreKept == Spec => []SessionsKept
<1> QED
  BY AlwaysSInv, SInvKept, PTL

-----------------------------------------------------------------------------
(* Contexts, as long as no TA panics.                                      *)

\* Calls that close s and have not freed it, that load the context of s, that
\* have freed their session and not given back its reference on c, that destroy
\* c, and that are between tee_ta_try_set_busy() and tee_ta_clear_busy() of c.
Closing(s) == {f \in Call : /\ f.op = "close" /\ f.s = s
                            /\ f.pc \notin {"clear", "release", "destroy"}}
Loading(s) == {f \in Opening(s) : f.pc = "loading"}
Leaving(c) == {f \in Call : f.op = "close" /\ f.c = c /\ f.pc \in {"clear", "release"}}
Destroying(c) == {f \in Call : f.pc = "destroy" /\ f.c = c}
InsideOf(c) == {f \in Call : Inside(f, c)}

\* The calls in single instance TAs, the contexts being K.
InSingle(K) == {f \in Call : /\ f.c \in Ctxs /\ f \in InsideOf(f.c)
                             /\ K[f.c].ta \in Single \ Concurrent}

\* The sessions of a context.
SessionsOf(c) == {s \in Sessions : sess[s] # NULL /\ sess[s].ctx = c}

CtxTypes ==
    /\ ctxs \in [Ctxs -> Ctx \cup {NULL}]
    /\ single \in [owner : Threads \cup {NULL}, count : Nat]
    /\ wait \in [Threads -> Condvars \cup {NULL}]
    /\ fault \in {"none", "assert", "panic"}

\* The call works in the context of its session.
InCtx(f) ==
    \/ f.pc \in {"loading", "setbusy", "enter", "run", "after"}
    \/ f.op # "close" /\ f.pc = "clear"
    \/ f.op = "open" /\ f.pc = "put"

\* What a call knows of its session and of its context.
FrameOK(f) ==
    /\ f.pc \notin {"dead", "destroyctx"}
    /\ f.pc = "destroy" => f.op = "close"
    /\ f.op = "open" => f.ta \in TAs
    /\ InCtx(f) => f.c # NULL
    /\ InCtx(f) \/ f.pc \in {"unlink", "refc"} => sess[f.s].ctx = f.c
    /\ f.pc \in {"load", "init", "fail"} => sess[f.s].ctx = NULL
    /\ f.pc = "opened" => sess[f.s].ctx # NULL
    /\ f.pc = "loading" => ctxs[f.c].init
    /\ f.pc = "get" => sess[f.s] # NULL /\ f.s \in Range(heads[f.h])
    /\ f.op = "close" /\ f.pc \in {"get", "lock", "begin", "setbusy", "enter", "run"} =>
          f.res = "none"

FramesOK == \A t \in Threads : \A f \in Range(stack[t]) : FrameOK(f)

\* A TA that calls is run, and one whose sessions are closed is destroyed, by a
\* call further out.
Hosts(f, h) == f.c = h /\ f.pc \in {"run", "destroy"}
Below(q) ==
    \A i \in DOMAIN q : q[i].h # NSEC => \E j \in DOMAIN q : j > i /\ Hosts(q[j], q[i].h)

BelowOK == \A t \in Threads : Below(stack[t])

\* A session is opened or closed by one call, has the references that calls own,
\* is used by nobody else until it is open, and its context is initialized then.
SessionOK(s) ==
    /\ Cnt(stack, Opening(s)) + Cnt(stack, Closing(s)) <= IF sess[s] = NULL THEN 0 ELSE 1
    /\ sess[s] # NULL =>
          /\ sess[s].ref = Cnt(stack, Owned(s))
          /\ sess[s].told => Cnt(stack, Opening(s)) = 0
          /\ Cnt(stack, Opening(s)) > 0 => Cnt(stack, Owned(s)) = 1
          /\ sess[s].ctx # NULL /\ ctxs[sess[s].ctx].init => Cnt(stack, Loading(s)) > 0

SessionsOK == \A s \in Sessions : SessionOK(s)

\* The references of a context are its sessions and the calls that have freed
\* one.  It is in tee_ctxes until the last reference is given back, and exists
\* until the call that gave it back has destroyed it.
CtxOK(c) ==
    /\ IsFiniteSet(SessionsOf(c))
    /\ ctxs[c] = NULL =>
          /\ SessionsOf(c) = {} /\ Cnt(stack, Leaving(c)) = 0
          /\ Cnt(stack, Destroying(c)) = 0
          /\ c \notin Range(ctxes) /\ heads[c] = <<>>
    /\ ctxs[c] # NULL =>
          /\ ctxs[c].ref = Cardinality(SessionsOf(c)) + Cnt(stack, Leaving(c))
          /\ Cnt(stack, Destroying(c)) = IF c \in Range(ctxes) THEN 0 ELSE 1
          /\ c \notin Range(ctxes) => ctxs[c].ref = 0
          /\ ~ctxs[c].panicked
          /\ ctxs[c].init => /\ ctxs[c].ref = 1 /\ Cnt(stack, Leaving(c)) = 0
                             /\ heads[c] = <<>>
          /\ ctxs[c].ta \notin Concurrent =>
                Cnt(stack, InsideOf(c)) = IF ctxs[c].busy THEN 1 ELSE 0

CtxsOK == NoDuplicates(ctxes) /\ \A c \in Ctxs : CtxOK(c)

SingleOK ==
    /\ single.count = Cnt(stack, InSingle(ctxs))
    /\ single.owner = NULL <=> single.count = 0
    /\ \A u \in Threads : \A f \in Range(stack[u]) : f \in InSingle(ctxs) => single.owner = u

\* What a thread waits for is what its innermost call waits for.
Waits(f, cv) ==
    \/ f.pc = "init" /\ cv = <<"init", NULL>>
    \/ f.pc = "setbusy" /\ cv \in {<<"single", NULL>>, <<"busy", f.c>>}
    \/ f.pc = "lock" /\ cv = <<"lock", f.s>>
    \/ f.pc = "refc" /\ cv = <<"refc", f.s>>

WaitOK == \A u \in Threads : wait[u] # NULL => stack[u] # <<>> /\ Waits(Top(u), wait[u])

CInv ==
    /\ CtxTypes /\ FramesOK /\ BelowOK /\ SessionsOK /\ CtxsOK /\ SingleOK
    /\ WaitOK

-----------------------------------------------------------------------------
(* A step takes the innermost call off a stack and puts calls onto it.     *)

\* No call.
NoCall == CHOOSE x : x \notin Call

\* No call is a call.
LEMMA NoCallType == NoCall \notin Call
<1>1. \E x : x \notin Call
  BY NoSetContainsEverything
<1> QED
  BY <1>1 DEF NoCall

\* A call further out runs or destroys the context whose list g is about.
Hosted(q, g) == g.h # NSEC => \E e \in Range(q) : Hosts(e, g.h)

\* A call more.
LEMMA BelowPush ==
    ASSUME NEW q \in Seq(Call), NEW g \in Call, NEW r, r = <<g>> \o q,
           Below(q), Hosted(q, g)
    PROVE  Below(r)
<1>1. /\ r \in Seq(Call) /\ Len(q) \in Nat
      /\ DOMAIN r = 1..(Len(q) + 1) /\ DOMAIN q = 1..Len(q)
      /\ r[1] = g
      /\ \A i \in 1..Len(q) : r[i + 1] = q[i]
  OBVIOUS
<1> SUFFICES ASSUME NEW i \in DOMAIN r, r[i].h # NSEC
             PROVE  \E j \in DOMAIN r : j > i /\ Hosts(r[j], r[i].h)
  BY DEF Below
<1>2. CASE i = 1
  <2>1. PICK e \in Range(q) : Hosts(e, g.h)
    BY <1>1, <1>2 DEF Hosted
  <2>2. PICK j \in DOMAIN q : q[j] = e
    BY DEF Range
  <2>3. j + 1 \in DOMAIN r /\ j + 1 > 1 /\ r[j + 1] = e
    BY <1>1, <2>2
  <2> QED
    BY <1>1, <1>2, <2>1, <2>3
<1>3. CASE i # 1
  <2>1. i - 1 \in DOMAIN q /\ q[i - 1] = r[i] /\ i \in Nat
    <3>1. i - 1 \in 1..Len(q) /\ (i - 1) + 1 = i
      BY <1>1, <1>3
    <3> QED
      BY <1>1, <3>1
  <2>2. PICK j \in DOMAIN q : j > i - 1 /\ Hosts(q[j], r[i].h)
    BY <2>1 DEF Below
  <2>3. j + 1 \in DOMAIN r /\ j + 1 > i /\ r[j + 1] = q[j]
    BY <1>1, <2>1, <2>2
  <2> QED
    BY <2>2, <2>3
<1> QED
  BY <1>2, <1>3

\* A call less.
LEMMA BelowPop ==
    ASSUME NEW q \in Seq(Call), q # <<>>, Below(q)
    PROVE  Below(Tail(q)) /\ Hosted(Tail(q), Head(q))
<1>0. PICK p : p = Tail(q)
  OBVIOUS
<1>1. /\ p \in Seq(Call) /\ Len(q) \in Nat \ {0}
      /\ DOMAIN q = 1..Len(q) /\ DOMAIN p = 1..(Len(q) - 1)
      /\ \A i \in 1..(Len(q) - 1) : p[i] = q[i + 1]
      /\ q[1] = Head(q)
  BY <1>0
<1>2. ASSUME NEW i \in DOMAIN p, p[i].h # NSEC
      PROVE  \E j \in DOMAIN p : j > i /\ Hosts(p[j], p[i].h)
  <2>1. i + 1 \in DOMAIN q /\ q[i + 1] = p[i] /\ i \in Nat
    BY <1>1
  <2>2. PICK j \in DOMAIN q : j > i + 1 /\ Hosts(q[j], p[i].h)
    BY <1>2, <2>1 DEF Below
  <2>3. j - 1 \in DOMAIN p /\ j - 1 > i /\ (j - 1) + 1 = j
    BY <1>1, <2>1, <2>2
  <2>4. p[j - 1] = q[j]
    BY <1>1, <2>3
  <2> QED
    BY <2>2, <2>3, <2>4
<1>3. Hosted(p, q[1])
  <2> SUFFICES ASSUME q[1].h # NSEC PROVE \E e \in Range(p) : Hosts(e, q[1].h)
    BY DEF Hosted
  <2>1. PICK j \in DOMAIN q : j > 1 /\ Hosts(q[j], q[1].h)
    BY <1>1 DEF Below
  <2>3. j - 1 \in DOMAIN p /\ (j - 1) + 1 = j
    BY <1>1, <2>1
  <2>4. p[j - 1] = q[j] /\ p[j - 1] \in Range(p)
    BY <1>1, <2>3 DEF Range
  <2> QED
    BY <2>1, <2>4
<1> QED
  BY <1>0, <1>1, <1>2, <1>3 DEF Below

\* The innermost call f of t leaves the calls R, onto which g and k are put; each
\* of the three may be none.
Moves(t, R, f, g, k) ==
    /\ f \in Call \cup {NoCall} /\ g \in Call \cup {NoCall} /\ k \in Call \cup {NoCall}
    /\ stack \in Stacks /\ R \in Stacks /\ stack' \in Stacks
    /\ \A u \in Threads : u # t => R[u] = stack[u] /\ stack'[u] = stack[u]
    /\ Range(stack[t]) = Range(R[t]) \cup ({f} \ {NoCall})
    /\ Range(stack'[t]) = Range(R[t]) \cup ({g, k} \ {NoCall})
    /\ \A F \in SUBSET Call :
          /\ Cnt(R, F) \in Nat /\ Cnt(stack, F) \in Nat /\ Cnt(stack', F) \in Nat
          /\ Cnt(stack, F) = Cnt(R, F) + Ind(f, F)
          /\ Cnt(stack', F) = Cnt(R, F) + Ind(g, F) + Ind(k, F)
    /\ \A u \in Threads : Below(R[u])

\* No call is not counted.
LEMMA NoCallInd == \A F \in SUBSET Call : Ind(NoCall, F) = 0
  BY NoCallType DEF Ind

\* The stack p is r with f, and q is r with g and k.
Differ(p, r, q, f, g, k) ==
    \A F \in SUBSET Call :
        /\ SeqCnt(p, F) = SeqCnt(r, F) + Ind(f, F)
        /\ SeqCnt(q, F) = SeqCnt(r, F) + Ind(g, F) + Ind(k, F)

\* The stack of t becomes q, having r in common with it.
LEMMA MovesTo ==
    ASSUME SInv, BelowOK, NEW t \in Threads, NEW r \in Seq(Call), NEW q \in Seq(Call),
           stack' = [stack EXCEPT ![t] = q],
           NEW f \in Call \cup {NoCall}, NEW g \in Call \cup {NoCall},
           NEW k \in Call \cup {NoCall},
           Range(stack[t]) = Range(r) \cup ({f} \ {NoCall}),
           Range(q) = Range(r) \cup ({g, k} \ {NoCall}),
           Differ(stack[t], r, q, f, g, k), Below(r), Below(q)
    PROVE  BelowOK' /\ Moves(t, [stack EXCEPT ![t] = r], f, g, k)
<1>1. stack \in Stacks /\ stack \in [Threads -> Seq(Call)] /\ stack[t] \in Seq(Call)
  BY DEF SInv, SessTypes, Stacks
<1>2. PICK R : R = [stack EXCEPT ![t] = r]
  OBVIOUS
<1>3. PICK Q : Q = [stack EXCEPT ![t] = q]
  OBVIOUS
<1>4. /\ R \in Stacks
      /\ \A F : Cnt(R, F) = Cnt(stack, F) - SeqCnt(stack[t], F) + SeqCnt(r, F)
  BY <1>1, <1>2, CntChange
<1>5. /\ Q \in Stacks
      /\ \A F : Cnt(Q, F) = Cnt(stack, F) - SeqCnt(stack[t], F) + SeqCnt(q, F)
  BY <1>1, <1>3, CntChange
<1>6. R[t] = r /\ Q[t] = q
      /\ \A u \in Threads : u # t => R[u] = stack[u] /\ Q[u] = stack[u]
  BY <1>1, <1>2, <1>3
<1>7. ASSUME NEW F \in SUBSET Call
      PROVE  /\ Cnt(R, F) \in Nat /\ Cnt(stack, F) \in Nat /\ Cnt(Q, F) \in Nat
             /\ Cnt(stack, F) = Cnt(R, F) + Ind(f, F)
             /\ Cnt(Q, F) = Cnt(R, F) + Ind(g, F) + Ind(k, F)
  <2>1. Cnt(R, F) \in Nat /\ Cnt(stack, F) \in Nat /\ Cnt(Q, F) \in Nat
    BY <1>1, <1>4, <1>5, CntZero
  <2>2. SeqCnt(stack[t], F) \in Nat /\ SeqCnt(r, F) \in Nat /\ SeqCnt(q, F) \in Nat
    BY <1>1, SeqCntType
  <2>3. Ind(f, F) \in Nat /\ Ind(g, F) \in Nat /\ Ind(k, F) \in Nat
    BY DEF Ind
  <2>4. /\ Cnt(R, F) = Cnt(stack, F) - SeqCnt(stack[t], F) + SeqCnt(r, F)
        /\ Cnt(Q, F) = Cnt(stack, F) - SeqCnt(stack[t], F) + SeqCnt(q, F)
    BY <1>4, <1>5
  <2>5. /\ SeqCnt(stack[t], F) = SeqCnt(r, F) + Ind(f, F)
        /\ SeqCnt(q, F) = SeqCnt(r, F) + Ind(g, F) + Ind(k, F)
    BY DEF Differ
  <2>6. PICK c0, c1, c2, s0, s1, s2 :
            /\ c0 = Cnt(stack, F) /\ c1 = Cnt(R, F) /\ c2 = Cnt(Q, F)
            /\ s0 = SeqCnt(stack[t], F) /\ s1 = SeqCnt(r, F) /\ s2 = SeqCnt(q, F)
    OBVIOUS
  <2>7. PICK i, j, l : i = Ind(f, F) /\ j = Ind(g, F) /\ l = Ind(k, F)
    OBVIOUS
  <2>8. /\ c0 \in Int /\ c1 \in Int /\ c2 \in Int /\ s0 \in Int /\ s1 \in Int /\ s2 \in Int
        /\ i \in Int /\ j \in Int /\ l \in Int
    BY <2>1, <2>2, <2>3, <2>6, <2>7
  <2>9. /\ c1 = c0 - s0 + s1 /\ c2 = c0 - s0 + s2
        /\ s0 = s1 + i /\ s2 = s1 + j + l
    BY <2>4, <2>5, <2>6, <2>7
  <2>10. c0 = c1 + i /\ c2 = c1 + j + l
    BY <2>8, <2>9
  <2> QED
    BY <2>1, <2>6, <2>7, <2>10
<1>8. stack' = Q
  BY <1>3
<1>9. \A u \in Threads : Below(R[u]) /\ Below(Q[u])
  BY <1>6 DEF BelowOK
<1>10. BelowOK'
  BY <1>8, <1>9 DEF BelowOK
<1>11. Moves(t, R, f, g, k)
  BY <1>1, <1>4, <1>5, <1>6, <1>7, <1>8, <1>9 DEF Moves
<1> QED
  BY <1>2, <1>10, <1>11

\* The innermost call becomes g.
LEMMA BecomeMoves ==
    ASSUME SInv, BelowOK, NEW t \in Threads, stack[t] # <<>>, NEW f, f = Top(t),
           NEW g \in Call, g.h = f.h,
           stack' = [stack EXCEPT ![t] = <<g>> \o Tail(stack[t])]
    PROVE  BelowOK' /\ \E R : Moves(t, R, f, g, NoCall)
<1>1. stack[t] \in Seq(Call) /\ Below(stack[t])
  BY DEF SInv, SessTypes, Stacks, BelowOK
<1>2. PICK p : p = Tail(stack[t])
  OBVIOUS
<1>3. PICK q : q = <<g>> \o p
  OBVIOUS
<1>4. /\ f \in Call /\ p \in Seq(Call)
      /\ Range(stack[t]) = Range(p) \cup {f}
      /\ \A F : SeqCnt(stack[t], F) = SeqCnt(p, F) + Ind(f, F)
  BY <1>1, <1>2, SeqSplit DEF Top
<1>5. Below(p) /\ Hosted(p, f)
  BY <1>1, <1>2, BelowPop DEF Top
<1>6. /\ q \in Seq(Call) /\ Range(q) = Range(p) \cup {g}
      /\ \A F : SeqCnt(q, F) = SeqCnt(p, F) + Ind(g, F)
  BY <1>3, <1>4, PushedSeq
<1>7. Below(q)
  <2>1. Hosted(p, g)
    BY <1>5 DEF Hosted
  <2> QED
    BY <2>1, <1>3, <1>4, <1>5, BelowPush
<1>8. stack' = [stack EXCEPT ![t] = q]
  BY <1>2, <1>3
<1>9. Range(stack[t]) = Range(p) \cup ({f} \ {NoCall})
  BY <1>4, NoCallType
<1>10. Range(q) = Range(p) \cup ({g, NoCall} \ {NoCall})
  BY <1>6, NoCallType
<1>11. Differ(stack[t], p, q, f, g, NoCall)
  <2> SUFFICES ASSUME NEW F \in SUBSET Call
               PROVE  /\ SeqCnt(stack[t], F) = SeqCnt(p, F) + Ind(f, F)
                      /\ SeqCnt(q, F) = SeqCnt(p, F) + Ind(g, F) + Ind(NoCall, F)
    BY DEF Differ
  <2>1. Ind(g, F) + Ind(NoCall, F) = Ind(g, F) /\ Ind(NoCall, F) = 0 /\ Ind(g, F) \in Nat
    BY NoCallInd DEF Ind
  <2>2. SeqCnt(p, F) \in Nat
    BY <1>4, SeqCntType
  <2> QED
    BY <2>1, <2>2, <1>4, <1>6
<1>12. NoCall \in Call \cup {NoCall} /\ f \in Call \cup {NoCall} /\ g \in Call \cup {NoCall}
  BY <1>4
<1>13. BelowOK' /\ Moves(t, [stack EXCEPT ![t] = p], f, g, NoCall)
  BY <1>4, <1>5, <1>6, <1>7, <1>8, <1>9, <1>10, <1>11, <1>12, MovesTo
<1> QED
  BY <1>13
\* The innermost call returns.
LEMMA ReturnMoves ==
    ASSUME SInv, BelowOK, NEW t \in Threads, stack[t] # <<>>, NEW f, f = Top(t), Return(t)
    PROVE  BelowOK' /\ \E R : Moves(t, R, f, NoCall, NoCall)
<1>1. stack[t] \in Seq(Call) /\ Below(stack[t])
  BY DEF SInv, SessTypes, Stacks, BelowOK
<1>2. PICK p : p = Tail(stack[t])
  OBVIOUS
<1>4. /\ f \in Call /\ p \in Seq(Call)
      /\ Range(stack[t]) = Range(p) \cup {f}
      /\ \A F : SeqCnt(stack[t], F) = SeqCnt(p, F) + Ind(f, F)
  BY <1>1, <1>2, SeqSplit DEF Top
<1>5. Below(p)
  BY <1>1, <1>2, BelowPop DEF Top
<1>8. stack' = [stack EXCEPT ![t] = p]
  BY <1>2 DEF Return
<1>9. Range(stack[t]) = Range(p) \cup ({f} \ {NoCall})
  BY <1>4, NoCallType
<1>10. Range(p) = Range(p) \cup ({NoCall, NoCall} \ {NoCall})
  OBVIOUS
<1>11. Differ(stack[t], p, p, f, NoCall, NoCall)
  <2> SUFFICES ASSUME NEW F \in SUBSET Call
               PROVE  /\ SeqCnt(stack[t], F) = SeqCnt(p, F) + Ind(f, F)
                      /\ SeqCnt(p, F) = SeqCnt(p, F) + Ind(NoCall, F) + Ind(NoCall, F)
    BY DEF Differ
  <2>1. Ind(NoCall, F) = 0
    BY NoCallInd
  <2>2. SeqCnt(p, F) \in Nat
    BY <1>4, SeqCntType
  <2> QED
    BY <2>1, <2>2, <1>4
<1>12. NoCall \in Call \cup {NoCall} /\ f \in Call \cup {NoCall}
  BY <1>4
<1>13. BelowOK' /\ Moves(t, [stack EXCEPT ![t] = p], f, NoCall, NoCall)
  BY <1>4, <1>5, <1>8, <1>9, <1>10, <1>11, <1>12, MovesTo
<1> QED
  BY <1>13

\* A new call.
LEMMA PushMoves ==
    ASSUME SInv, BelowOK, NEW t \in Threads, NEW g \in Call, Hosted(stack[t], g),
           stack' = [stack EXCEPT ![t] = <<g>> \o stack[t]]
    PROVE  BelowOK' /\ \E R : Moves(t, R, NoCall, g, NoCall)
<1>2. PICK p : p = stack[t]
  OBVIOUS
<1>1. p \in Seq(Call) /\ Below(p) /\ Hosted(p, g)
  BY <1>2 DEF SInv, SessTypes, Stacks, BelowOK
<1>3. PICK q : q = <<g>> \o p
  OBVIOUS
<1>6. /\ q \in Seq(Call) /\ Range(q) = Range(p) \cup {g}
      /\ \A F : SeqCnt(q, F) = SeqCnt(p, F) + Ind(g, F)
  BY <1>1, <1>3, PushedSeq
<1>7. Below(q)
  BY <1>1, <1>3, BelowPush
<1>8. stack' = [stack EXCEPT ![t] = q]
  BY <1>2, <1>3
<1>9. Range(stack[t]) = Range(p) \cup ({NoCall} \ {NoCall})
  BY <1>2
<1>10. Range(q) = Range(p) \cup ({g, NoCall} \ {NoCall})
  BY <1>6, NoCallType
<1>11. Differ(stack[t], p, q, NoCall, g, NoCall)
  <2> SUFFICES ASSUME NEW F \in SUBSET Call
               PROVE  /\ SeqCnt(stack[t], F) = SeqCnt(p, F) + Ind(NoCall, F)
                      /\ SeqCnt(q, F) = SeqCnt(p, F) + Ind(g, F) + Ind(NoCall, F)
    BY DEF Differ
  <2>1. Ind(g, F) + Ind(NoCall, F) = Ind(g, F) /\ Ind(NoCall, F) = 0 /\ Ind(g, F) \in Nat
    BY NoCallInd DEF Ind
  <2>2. SeqCnt(p, F) \in Nat
    BY <1>1, SeqCntType
  <2> QED
    BY <2>1, <2>2, <1>2, <1>6
<1>12. NoCall \in Call \cup {NoCall} /\ g \in Call \cup {NoCall}
  OBVIOUS
<1>13. BelowOK' /\ Moves(t, [stack EXCEPT ![t] = p], NoCall, g, NoCall)
  BY <1>1, <1>6, <1>7, <1>8, <1>9, <1>10, <1>11, <1>12, MovesTo
<1> QED
  BY <1>13

\* Two calls put onto a stack.
LEMMA PushTwo ==
    ASSUME NEW p \in Seq(Call), NEW f \in Call, NEW g \in Call
    PROVE  <<g, f>> \o p = <<g>> \o (<<f>> \o p)
<1>1. PICK m : m = <<f>> \o p
  OBVIOUS
<1>2. PICK q : q = <<g>> \o m
  OBVIOUS
<1>3. m \in Seq(Call) /\ q \in Seq(Call)
  BY <1>1, <1>2
<1>4. /\ <<g, f>> \o p \in Seq(Call) /\ Len(p) \in Nat
      /\ Len(<<g, f>> \o p) = Len(p) + 2 /\ Len(q) = Len(p) + 2
  BY <1>1, <1>2
<1>5. ASSUME NEW i \in 1..(Len(p) + 2) PROVE (<<g, f>> \o p)[i] = q[i]
  <2>1. (<<g>> \o (<<f>> \o p))[i] = q[i]
    BY <1>1, <1>2
  <2>2. (<<g, f>> \o p)[i] = (<<g>> \o (<<f>> \o p))[i]
    BY <1>4
  <2> QED
    BY <2>1, <2>2
<1>6. <<g, f>> \o p = q
  BY <1>3, <1>4, <1>5, SeqEqual
<1> QED
  BY <1>1, <1>2, <1>6

\* The innermost call becomes k and calls g.
LEMMA CallingMoves ==
    ASSUME SInv, BelowOK, NEW t \in Threads, stack[t] # <<>>, NEW f, f = Top(t),
           NEW k \in Call, NEW g \in Call, k.h = f.h, g.h = f.h, Calling(t, k, g)
    PROVE  BelowOK' /\ \E R : Moves(t, R, f, g, k)
<1>1. stack[t] \in Seq(Call) /\ Below(stack[t])
  BY DEF SInv, SessTypes, Stacks, BelowOK
<1>2. PICK p : p = Tail(stack[t])
  OBVIOUS
<1>3. PICK m : m = <<k>> \o p
  OBVIOUS
<1>4. PICK q : q = <<g>> \o m
  OBVIOUS
<1>5. /\ f \in Call /\ p \in Seq(Call)
      /\ Range(stack[t]) = Range(p) \cup {f}
      /\ \A F : SeqCnt(stack[t], F) = SeqCnt(p, F) + Ind(f, F)
  BY <1>1, <1>2, SeqSplit DEF Top
<1>6. Below(p) /\ Hosted(p, f)
  BY <1>1, <1>2, BelowPop DEF Top
<1>7. /\ m \in Seq(Call) /\ Range(m) = Range(p) \cup {k}
      /\ \A F : SeqCnt(m, F) = SeqCnt(p, F) + Ind(k, F)
  BY <1>3, <1>5, PushedSeq
<1>8. /\ q \in Seq(Call) /\ Range(q) = Range(m) \cup {g}
      /\ \A F : SeqCnt(q, F) = SeqCnt(m, F) + Ind(g, F)
  BY <1>4, <1>7, PushedSeq
<1>9. Below(q)
  <2>1. Hosted(p, k)
    BY <1>6 DEF Hosted
  <2>2. Below(m)
    BY <2>1, <1>3, <1>5, <1>6, BelowPush
  <2>3. Hosted(m, g)
    BY <1>6, <1>7 DEF Hosted
  <2> QED
    BY <2>2, <2>3, <1>4, <1>7, BelowPush
<1>10. stack' = [stack EXCEPT ![t] = q]
  <2>1. <<g, k>> \o p = q
    BY <1>3, <1>4, <1>5, PushTwo
  <2> QED
    BY <2>1, <1>2 DEF Calling
<1>11. Range(stack[t]) = Range(p) \cup ({f} \ {NoCall})
  BY <1>5, NoCallType
<1>12. Range(q) = Range(p) \cup ({g, k} \ {NoCall})
  BY <1>7, <1>8, NoCallType
<1>13. Differ(stack[t], p, q, f, g, k)
  <2> SUFFICES ASSUME NEW F \in SUBSET Call
               PROVE  /\ SeqCnt(stack[t], F) = SeqCnt(p, F) + Ind(f, F)
                      /\ SeqCnt(q, F) = SeqCnt(p, F) + Ind(g, F) + Ind(k, F)
    BY DEF Differ
  <2>1. Ind(g, F) \in Nat /\ Ind(k, F) \in Nat
    BY DEF Ind
  <2>2. SeqCnt(p, F) \in Nat
    BY <1>5, SeqCntType
  <2>3. SeqCnt(q, F) = SeqCnt(p, F) + Ind(k, F) + Ind(g, F)
    BY <1>7, <1>8
  <2> QED
    BY <2>1, <2>2, <2>3, <1>5
<1>14. f \in Call \cup {NoCall} /\ g \in Call \cup {NoCall} /\ k \in Call \cup {NoCall}
  BY <1>5
<1>15. BelowOK' /\ Moves(t, [stack EXCEPT ![t] = p], f, g, k)
  BY <1>5, <1>6, <1>8, <1>9, <1>10, <1>11, <1>12, <1>13, <1>14, MovesTo
<1> QED
  BY <1>15

\* The innermost call stays and calls g.
LEMMA CallsToo ==
    ASSUME SInv, NEW t \in Threads, stack[t] # <<>>, NEW g \in Call, NEW f, f = Top(t),
           Calling(t, f, g)
    PROVE  stack' = [stack EXCEPT ![t] = <<g>> \o stack[t]]
<1>1. stack[t] \in Seq(Call)
  BY DEF SInv, SessTypes, Stacks
<1>2. PICK p : p = Tail(stack[t])
  OBVIOUS
<1>3. f \in Call /\ p \in Seq(Call) /\ stack[t] = <<f>> \o p
  BY <1>1, <1>2, SeqSplit DEF Top
<1>4. <<g, f>> \o p = <<g>> \o (<<f>> \o p)
  BY <1>3, PushTwo
<1>5. <<g, f>> \o Tail(stack[t]) = <<g>> \o stack[t]
  BY <1>2, <1>3, <1>4
<1> QED
  BY <1>5 DEF Calling

-----------------------------------------------------------------------------
(* A step concerns one session and one context.                            *)

\* What is counted are calls.
LEMMA Kinds ==
    /\ \A s : Owned(s) \in SUBSET Call /\ Opening(s) \in SUBSET Call
              /\ Closing(s) \in SUBSET Call /\ Loading(s) \in SUBSET Call
    /\ \A c : Leaving(c) \in SUBSET Call /\ Destroying(c) \in SUBSET Call
              /\ InsideOf(c) \in SUBSET Call
    /\ \A K : InSingle(K) \in SUBSET Call
  BY DEF Owned, Opening, Closing, Loading, Leaving, Destroying, InsideOf, InSingle

\* x works on s and in no other context than d.
Tied(x, s, d) ==
    x \in Call =>
        /\ x.s = s
        /\ \A c \in Ctxs \ {d} : x \notin Leaving(c) /\ x \notin Destroying(c)
                                 /\ x \notin InsideOf(c)

\* The step of t is about the session s and the context d.
StepAt(t, R, s, d, f, g, k) ==
    /\ Moves(t, R, f, g, k)
    /\ Tied(f, s, d) /\ Tied(g, s, d) /\ Tied(k, s, d)
    /\ \A r \in Sessions \ {s} : sess'[r] = sess[r]
    /\ \A c \in Ctxs \ {d} :
          /\ ctxs'[c] = ctxs[c]
          /\ c \in Range(ctxes') <=> c \in Range(ctxes)
          /\ heads'[c] # <<>> => heads[c] # <<>> \/ (ctxs[c] # NULL /\ ~ctxs[c].init)
          /\ (sess[s] # NULL /\ sess[s].ctx = c) <=> (sess'[s] # NULL /\ sess'[s].ctx = c)
    /\ \A h \in Heads : Range(heads[h]) \ {s} \subseteq Range(heads'[h])
    /\ d \in Ctxs => (ctxs'[d].init => ctxs[d].init) \/ SessionsOf(d) \subseteq {s}

\* A call that is not about s is not counted for s, and so on.
LEMMA TiedSession ==
    ASSUME NEW x \in Call \cup {NoCall}, NEW s, NEW d, Tied(x, s, d), NEW r, r # s
    PROVE  /\ Ind(x, Owned(r)) = 0 /\ Ind(x, Opening(r)) = 0
           /\ Ind(x, Closing(r)) = 0 /\ Ind(x, Loading(r)) = 0
<1>1. x \notin Owned(r) /\ x \notin Closing(r)
  BY NoCallType DEF Tied, Owned, OwnsSession, Closing
<1>2. x \notin Opening(r) /\ x \notin Loading(r)
  BY <1>1 DEF Opening, Loading
<1> QED
  BY <1>1, <1>2 DEF Ind

\* A call that is tied to s and d has no part in another context.
LEMMA TiedCtx ==
    ASSUME NEW x \in Call \cup {NoCall}, NEW s, NEW d, Tied(x, s, d), NEW c \in Ctxs, c # d
    PROVE  /\ Ind(x, Leaving(c)) = 0 /\ Ind(x, Destroying(c)) = 0
           /\ Ind(x, InsideOf(c)) = 0
<1>1. x \notin Leaving(c) /\ x \notin Destroying(c) /\ x \notin InsideOf(c)
  BY NoCallType, Kinds DEF Tied
<1> QED
  BY <1>1 DEF Ind

\* Nothing changes in a count that has none of the calls.
LEMMA CountSame ==
    ASSUME NEW t, NEW R, NEW f, NEW g, NEW k, Moves(t, R, f, g, k), NEW F \in SUBSET Call,
           Ind(f, F) = 0, Ind(g, F) = 0, Ind(k, F) = 0
    PROVE  Cnt(stack', F) = Cnt(stack, F) /\ Cnt(stack, F) \in Nat
<1>1. /\ Cnt(R, F) \in Nat
      /\ Cnt(stack, F) = Cnt(R, F) + Ind(f, F)
      /\ Cnt(stack', F) = Cnt(R, F) + Ind(g, F) + Ind(k, F)
  BY DEF Moves
<1> QED
  BY <1>1

\* Other sessions.
LEMMA OtherSessions ==
    ASSUME SInv, CInv, NEW t \in Threads, NEW R, NEW s, NEW d, NEW f, NEW g, NEW k,
           StepAt(t, R, s, d, f, g, k), NEW r \in Sessions, r # s
    PROVE  SessionOK(r)'
<1>1. SessionOK(r)
  BY DEF CInv, SessionsOK
<1>2. f \in Call \cup {NoCall} /\ g \in Call \cup {NoCall} /\ k \in Call \cup {NoCall}
  BY DEF StepAt, Moves
<1>3. ASSUME NEW x \in Call \cup {NoCall}, Tied(x, s, d)
      PROVE  /\ Ind(x, Owned(r)) = 0 /\ Ind(x, Opening(r)) = 0
             /\ Ind(x, Closing(r)) = 0 /\ Ind(x, Loading(r)) = 0
  BY <1>3, TiedSession
<1>4. ASSUME NEW F \in SUBSET Call, Ind(f, F) = 0, Ind(g, F) = 0, Ind(k, F) = 0
      PROVE  Cnt(stack', F) = Cnt(stack, F)
  BY <1>4, CountSame DEF StepAt
<1>5. /\ Cnt(stack', Owned(r)) = Cnt(stack, Owned(r))
      /\ Cnt(stack', Opening(r)) = Cnt(stack, Opening(r))
      /\ Cnt(stack', Closing(r)) = Cnt(stack, Closing(r))
      /\ Cnt(stack', Loading(r)) = Cnt(stack, Loading(r))
  BY <1>2, <1>3, <1>4, Kinds DEF StepAt
<1>6. sess'[r] = sess[r]
  BY DEF StepAt
<1>7. ASSUME sess[r] # NULL, sess[r].ctx # NULL, ctxs'[sess[r].ctx].init
      PROVE  Cnt(stack, Loading(r)) > 0
  <2>1. sess[r].ctx \in Ctxs
    BY <1>7 DEF SInv, SessTypes, Data, Session
  <2>2. ctxs[sess[r].ctx].init
    <3>1. CASE sess[r].ctx = d
      <4>1. r \in SessionsOf(d)
        BY <1>7, <3>1 DEF SessionsOf
      <4> QED
        BY <1>7, <3>1, <4>1, <2>1 DEF StepAt
    <3>2. CASE sess[r].ctx # d
      BY <1>7, <3>2, <2>1 DEF StepAt
    <3> QED
      BY <3>1, <3>2
  <2> QED
    BY <2>2, <1>1, <1>7 DEF SessionOK
<1> QED
  BY <1>1, <1>5, <1>6, <1>7 DEF SessionOK

\* Other contexts.
LEMMA OtherCtxs ==
    ASSUME CInv, NEW t \in Threads, NEW R, NEW s, NEW d, NEW f, NEW g, NEW k,
           StepAt(t, R, s, d, f, g, k), NEW c \in Ctxs, c # d
    PROVE  CtxOK(c)'
<1>1. CtxOK(c)
  BY DEF CInv, CtxsOK
<1>2. f \in Call \cup {NoCall} /\ g \in Call \cup {NoCall} /\ k \in Call \cup {NoCall}
  BY DEF StepAt, Moves
<1>3. ASSUME NEW x \in Call \cup {NoCall}, Tied(x, s, d)
      PROVE  /\ Ind(x, Leaving(c)) = 0 /\ Ind(x, Destroying(c)) = 0
             /\ Ind(x, InsideOf(c)) = 0
  BY <1>3, TiedCtx
<1>4. ASSUME NEW F \in SUBSET Call, Ind(f, F) = 0, Ind(g, F) = 0, Ind(k, F) = 0
      PROVE  Cnt(stack', F) = Cnt(stack, F)
  BY <1>4, CountSame DEF StepAt
<1>5. /\ Cnt(stack', Leaving(c)) = Cnt(stack, Leaving(c))
      /\ Cnt(stack', Destroying(c)) = Cnt(stack, Destroying(c))
      /\ Cnt(stack', InsideOf(c)) = Cnt(stack, InsideOf(c))
  BY <1>2, <1>3, <1>4, Kinds DEF StepAt
<1>6. /\ ctxs'[c] = ctxs[c]
      /\ c \in Range(ctxes') <=> c \in Range(ctxes)
      /\ heads'[c] # <<>> => heads[c] # <<>> \/ (ctxs[c] # NULL /\ ~ctxs[c].init)
  BY DEF StepAt
<1>7. SessionsOf(c)' = SessionsOf(c)
  <2>1. ASSUME NEW r \in Sessions
        PROVE  (sess[r] # NULL /\ sess[r].ctx = c) <=> (sess'[r] # NULL /\ sess'[r].ctx = c)
    BY DEF StepAt
  <2> QED
    BY <2>1 DEF SessionsOf
<1> QED
  BY <1>1, <1>5, <1>6, <1>7 DEF CtxOK
\* No call of R owns or closes s.
Untied(R, s) ==
    \A u \in Threads : \A e \in Range(R[u]) : e \notin Owned(s) /\ e \notin Closing(s)

\* The session s is left where it is, with its context.
SessKept(s) ==
    sess[s] # NULL =>
        /\ sess'[s] # NULL /\ sess'[s].ctx = sess[s].ctx
        /\ \A h \in Heads : s \in Range(heads[h]) => s \in Range(heads'[h])

\* Calls that stay know what they knew, unless they are about what changes.
RestKept(R, s, d) ==
    \/ SessKept(s)
       /\ (d \in Ctxs => (ctxs'[d].init <=> ctxs[d].init) \/ SessionsOf(d) = {})
    \/ Untied(R, s)
       /\ (d \in Ctxs => (ctxs'[d].init <=> ctxs[d].init) \/ SessionsOf(d) \subseteq {s})

\* The calls that FrameOK is about own or close their session.
LEMMA FrameTied ==
    ASSUME NEW u, NEW e \in Call, CallOK(u, e)
    PROVE  /\ e.s \in Sessions
           /\ \/ InCtx(e)
              \/ e.pc \in {"unlink", "refc", "load", "init", "fail", "opened", "loading"}
              => e \in Owned(e.s) /\ sess[e.s] # NULL /\ e.s \in Range(heads[e.h])
           /\ e.pc = "get" => e \in Closing(e.s)
<1>1. e.op \in {"open", "invoke", "close", "cancel"} /\ e.s \in Sessions /\ Shape(e)
      /\ (e \in Owned(e.s) => sess[e.s] # NULL /\ e.s \in Range(heads[e.h]))
  BY DEF CallOK, Call
<1>2. CASE e.op = "open"
  BY <1>1, <1>2 DEF Shape, InCtx, Owned, OwnsSession, Closing
<1>3. CASE e.op = "invoke"
  BY <1>1, <1>3 DEF Shape, InCtx, Owned, OwnsSession, Closing
<1>4. CASE e.op = "close"
  BY <1>1, <1>4 DEF Shape, InCtx, Owned, OwnsSession, Closing
<1>5. CASE e.op = "cancel"
  BY <1>1, <1>5 DEF Shape, InCtx, Owned, OwnsSession, Closing
<1> QED
  BY <1>1, <1>2, <1>3, <1>4, <1>5

\* The calls that the step does not replace know what they knew.
LEMMA RestFrames ==
    ASSUME SInv, CInv, NEW t \in Threads, NEW R, NEW s, NEW d, NEW f, NEW g, NEW k,
           StepAt(t, R, s, d, f, g, k), RestKept(R, s, d),
           NEW u \in Threads, NEW e \in Range(R[u])
    PROVE  FrameOK(e)'
<1>1. e \in Range(stack[u])
  BY DEF StepAt, Moves
<1>2. CallOK(u, e) /\ FrameOK(e)
  BY <1>1 DEF SInv, CallsOK, CInv, FramesOK
<1>3. e \in Call
  <2>1. R[u] \in Seq(Call)
    BY DEF StepAt, Moves, Stacks
  <2> QED
    BY <2>1 DEF Range
<1>4. PICK r : r = e.s
  OBVIOUS
<1>5. /\ r \in Sessions
      /\ \/ InCtx(e)
         \/ e.pc \in {"unlink", "refc", "load", "init", "fail", "opened", "loading"}
         => e \in Owned(r) /\ sess[r] # NULL /\ r \in Range(heads[e.h])
      /\ e.pc = "get" => e \in Closing(r)
      /\ e.h \in Heads
  BY <1>2, <1>3, <1>4, FrameTied DEF Call
<1>6. ASSUME e \in Owned(r) \/ e \in Closing(r), sess[r] # NULL
      PROVE  /\ sess'[r] # NULL /\ sess'[r].ctx = sess[r].ctx
             /\ r \in Range(heads[e.h]) => r \in Range(heads'[e.h])
  <2>1. CASE r = s
    <3>1. ~Untied(R, s)
      BY <1>6, <2>1 DEF Untied
    <3> QED
      BY <3>1, <2>1, <1>5, <1>6 DEF RestKept, SessKept
  <2>2. CASE r # s
    BY <1>5, <1>6, <2>2 DEF StepAt
  <2> QED
    BY <2>1, <2>2
<1>7. ASSUME e.pc = "loading" PROVE ctxs'[e.c].init
  <2>1. e.c \in Ctxs /\ sess[r].ctx = e.c /\ ctxs[e.c].init
    BY <1>2, <1>3, <1>4, <1>7 DEF FrameOK, InCtx, Call
  <2>2. e \in Owned(r) /\ sess[r] # NULL
    BY <1>5, <1>7
  <2>3. CASE e.c # d
    BY <2>1, <2>3 DEF StepAt
  <2>4. CASE e.c = d
    <3>1. r \in SessionsOf(d)
      BY <2>1, <2>2, <2>4, <1>5 DEF SessionsOf
    <3>2. Untied(R, s) => r # s
      BY <2>2 DEF Untied
    <3> QED
      BY <2>1, <2>4, <3>1, <3>2 DEF RestKept
  <2> QED
    BY <2>3, <2>4
<1>8. InCtx(e) \/ e.pc \in {"unlink", "refc"} => sess'[r].ctx = e.c
  BY <1>2, <1>4, <1>5, <1>6 DEF FrameOK
<1>9. /\ e.pc \in {"load", "init", "fail"} => sess'[r].ctx = NULL
      /\ e.pc = "opened" => sess'[r].ctx # NULL
  BY <1>2, <1>4, <1>5, <1>6 DEF FrameOK
<1>10. e.pc = "get" => sess'[r] # NULL /\ r \in Range(heads'[e.h])
  BY <1>2, <1>4, <1>5, <1>6 DEF FrameOK
<1> QED
  BY <1>2, <1>4, <1>7, <1>8, <1>9, <1>10 DEF FrameOK

\* A step keeps the invariant if it does for what it is about.
LEMMA StepCInv ==
    ASSUME SInv, CInv, NEW t \in Threads, NEW R, NEW s, NEW d, NEW f, NEW g, NEW k,
           StepAt(t, R, s, d, f, g, k), RestKept(R, s, d),
           g \in Call => FrameOK(g)', k \in Call => FrameOK(k)', BelowOK',
           s \in Sessions => SessionOK(s)', d \in Ctxs => CtxOK(d)', NoDuplicates(ctxes'),
           CtxTypes', SingleOK', WaitOK'
    PROVE  CInv'
<1>1. FramesOK'
  <2> SUFFICES ASSUME NEW u \in Threads, NEW e \in Range(stack'[u]) PROVE FrameOK(e)'
    BY DEF FramesOK
  <2>1. e \in Range(R[u]) \/ (e \in {g, k} /\ e \in Call)
    BY DEF StepAt, Moves
  <2>2. CASE e \in Range(R[u])
    BY <2>2, RestFrames
  <2>3. CASE e = g /\ e \in Call
    BY <2>3
  <2>4. CASE e = k /\ e \in Call
    BY <2>4
  <2> QED
    BY <2>1, <2>2, <2>3, <2>4
<1>2. SessionsOK'
  <2> SUFFICES ASSUME NEW r \in Sessions PROVE SessionOK(r)'
    BY DEF SessionsOK
  <2>1. CASE r # s
    BY <2>1, OtherSessions
  <2>2. CASE r = s
    BY <2>2
  <2> QED
    BY <2>1, <2>2
<1>3. CtxsOK'
  <2>1. ASSUME NEW c \in Ctxs PROVE CtxOK(c)'
    <3>1. CASE c # d
      BY <3>1, OtherCtxs
    <3>2. CASE c = d
      BY <3>2
    <3> QED
      BY <3>1, <3>2
  <2> QED
    BY <2>1 DEF CtxsOK
<1> QED
  BY <1>1, <1>2, <1>3 DEF CInv
\* Sets with the same calls of the stacks.
LEMMA CntAgree ==
    ASSUME NEW S, NEW F, NEW G,
           \A u \in Threads : \A e \in Range(S[u]) : e \in F <=> e \in G
    PROVE  Cnt(S, F) = Cnt(S, G)
<1>1. ASSUME NEW x \in Places(S) PROVE S[x[1]][x[2]] \in F <=> S[x[1]][x[2]] \in G
  <2>1. PICK u \in Threads : \E i \in DOMAIN S[u] : x = <<u, i>>
    BY DEF Places
  <2>2. PICK i \in DOMAIN S[u] : x = <<u, i>>
    BY <2>1
  <2>3. S[u][i] \in Range(S[u])
    BY DEF Range
  <2> QED
    BY <2>2, <2>3
<1>2. PlacesOf(S, F) = PlacesOf(S, G)
  BY <1>1 DEF PlacesOf
<1> QED
  BY <1>2 DEF Cnt

\* The calls in single instance TAs are the same with the new contexts.
SinglesSame ==
    \A u \in Threads : \A e \in Range(stack'[u]) :
        e \in InSingle(ctxs') <=> e \in InSingle(ctxs)

\* The TA of the context d stays, or no call is in d.
TaKept(d) ==
    d \in Ctxs => \/ ctxs'[d].ta = ctxs[d].ta
                  \/ \A u \in Threads : \A e \in Range(stack'[u]) : e \notin InsideOf(d)

\* The calls in single instance TAs are the same as before.
LEMMA SinglesStay ==
    ASSUME NEW d, \A c \in Ctxs \ {d} : ctxs'[c] = ctxs[c], TaKept(d)
    PROVE  SinglesSame
<1> SUFFICES ASSUME NEW u \in Threads, NEW e \in Range(stack'[u])
             PROVE  e \in InSingle(ctxs') <=> e \in InSingle(ctxs)
  BY DEF SinglesSame
<1>1. e \in Call /\ e.c \in Ctxs /\ e \in InsideOf(e.c) => ctxs'[e.c].ta = ctxs[e.c].ta
  BY DEF TaKept
<1> QED
  BY <1>1 DEF InSingle

\* The single instance lock is not touched.
LEMMA SingleStays ==
    ASSUME CInv, NEW t \in Threads, NEW R, NEW f, NEW g, NEW k, Moves(t, R, f, g, k),
           SinglesSame, single' = single,
           Ind(f, InSingle(ctxs)) = Ind(g, InSingle(ctxs)) + Ind(k, InSingle(ctxs))
    PROVE  SingleOK'
<1>1. PICK F : F = InSingle(ctxs)
  OBVIOUS
<1>2. F \in SUBSET Call
  BY <1>1, Kinds
<1>3. /\ Cnt(R, F) \in Nat
      /\ Cnt(stack, F) = Cnt(R, F) + Ind(f, F)
      /\ Cnt(stack', F) = Cnt(R, F) + Ind(g, F) + Ind(k, F)
  BY <1>2 DEF Moves
<1>4. Ind(f, F) \in Nat /\ Ind(g, F) \in Nat /\ Ind(k, F) \in Nat
      /\ Ind(f, F) = Ind(g, F) + Ind(k, F)
  BY <1>1 DEF Ind
<1>5. Cnt(stack', F) = Cnt(stack, F)
  BY <1>3, <1>4
<1>6. PICK S, H : S = stack' /\ H = InSingle(ctxs')
  OBVIOUS
<1>7. \A u \in Threads : \A e \in Range(S[u]) : e \in H <=> e \in F
  BY <1>1, <1>6 DEF SinglesSame
<1>8. Cnt(S, H) = Cnt(S, F)
  BY <1>7, CntAgree
<1>9. single.count = Cnt(stack, F) /\ (single.owner = NULL <=> single.count = 0)
  BY <1>1 DEF CInv, SingleOK
<1>10. ASSUME NEW u \in Threads, NEW e \in Range(S[u]), e \in H PROVE single.owner = u
  <2>1. e \in F
    BY <1>7, <1>10
  <2>2. e \in Range(R[u]) \/ (u = t /\ e \in {g, k} /\ e \in Call)
    BY <1>6 DEF Moves
  <2>3. CASE e \in Range(R[u])
    <3>1. e \in Range(stack[u])
      BY <2>3 DEF Moves
    <3> QED
      BY <3>1, <2>1, <1>1 DEF CInv, SingleOK
  <2>4. CASE u = t /\ e \in {g, k}
    <3>1. Ind(f, F) # 0
      BY <1>4, <2>1, <2>4 DEF Ind
    <3>2. f \in F
      BY <3>1 DEF Ind
    <3>3. f \in Range(stack[t])
      BY <3>2, <1>2, NoCallType DEF Moves
    <3> QED
      BY <3>2, <3>3, <2>4, <1>1 DEF CInv, SingleOK
  <2> QED
    BY <2>2, <2>3, <2>4
<1>11. InSingle(ctxs)' = H /\ stack' = S
  BY <1>6 DEF InSingle
<1>12. single'.count = Cnt(stack', InSingle(ctxs')) /\ InSingle(ctxs') = H
  BY <1>5, <1>6, <1>8, <1>9
<1> QED
  BY <1>6, <1>9, <1>10, <1>12 DEF SingleOK

\* The calls of t wait for what the innermost one waits for, the others go on
\* waiting or are woken.
WaitStep(t) ==
    /\ wait' \in [Threads -> Condvars \cup {NULL}]
    /\ \A u \in Threads \ {t} : wait'[u] = wait[u] \/ wait'[u] = NULL
    /\ wait'[t] # NULL => stack'[t] # <<>> /\ Waits(Head(stack'[t]), wait'[t])

\* Threads still wait for what their innermost calls wait for.
LEMMA WaitsStay ==
    ASSUME CInv, NEW t \in Threads, \A u \in Threads : u # t => stack'[u] = stack[u],
           WaitStep(t)
    PROVE  WaitOK'
<1> SUFFICES ASSUME NEW u \in Threads, wait'[u] # NULL
             PROVE  stack'[u] # <<>> /\ Waits(Head(stack'[u]), wait'[u])
  BY DEF WaitOK, Top
<1>1. CASE u = t
  BY <1>1 DEF WaitStep
<1>2. CASE u # t
  <2>1. wait'[u] = wait[u] /\ stack'[u] = stack[u]
    BY <1>2 DEF WaitStep
  <2>2. stack[u] # <<>> /\ Waits(Head(stack[u]), wait[u])
    BY <2>1 DEF CInv, WaitOK, Top
  <2> QED
    BY <2>1, <2>2
<1> QED
  BY <1>1, <1>2

\* A thread without a call does not wait.
LEMMA NoWait ==
    ASSUME CInv, NEW t \in Threads, stack[t] = <<>> PROVE wait[t] = NULL
  BY DEF CInv, WaitOK

\* Nobody waits more than before.
LEMMA WaitSame ==
    ASSUME CInv, NEW t \in Threads, wait[t] = NULL, wait' = wait
    PROVE  WaitStep(t)
  BY DEF CInv, CtxTypes, WaitStep

\* Threads are woken and none waits more than before.
LEMMA WaitWoken ==
    ASSUME CInv, NEW t \in Threads, wait[t] = NULL, NEW W, Wake(W)
    PROVE  WaitStep(t)
  BY DEF CInv, CtxTypes, WaitStep, Wake

-----------------------------------------------------------------------------
(* Steps that change one session and no context.                           *)

\* f and g have the same part in every context, k has none.
SameParts(f, g) ==
    \A c \in Ctxs : /\ f \in Leaving(c) <=> g \in Leaving(c)
                    /\ f \in Destroying(c) <=> g \in Destroying(c)
                    /\ f \in InsideOf(c) <=> g \in InsideOf(c)
NoParts(k) ==
    \A c \in Ctxs : k \notin Leaving(c) /\ k \notin Destroying(c) /\ k \notin InsideOf(c)

\* The session s changes and keeps its context.
SessionOnly(s) ==
    /\ \A r \in Sessions \ {s} : sess'[r] = sess[r]
    /\ sess[s] # NULL /\ sess'[s] # NULL /\ sess'[s].ctx = sess[s].ctx
    /\ UNCHANGED <<ctxs, heads, ctxes, single, fault>>

\* The invariant after a step that changes one session and no context.
LEMMA SessionMove ==
    ASSUME SInv, CInv, NEW t \in Threads, NEW R, NEW s \in Sessions, NEW d,
           NEW f, NEW g, NEW k, Moves(t, R, f, g, k), SessionOnly(s),
           Tied(f, s, d), Tied(g, s, d), Tied(k, s, d), SameParts(f, g), NoParts(k),
           g \in Call => FrameOK(g), k \in Call => FrameOK(k), BelowOK', SessionOK(s)',
           WaitStep(t)
    PROVE  CInv'
<1>1. StepAt(t, R, s, d, f, g, k)
  BY DEF StepAt, SessionOnly
<1>2. RestKept(R, s, d)
  BY DEF RestKept, SessKept, SessionOnly
<1>3. ASSUME NEW x \in Call, x.s = s, FrameOK(x) PROVE FrameOK(x)'
  BY <1>3 DEF FrameOK, SessionOnly
<1>4. (g \in Call => FrameOK(g)') /\ (k \in Call => FrameOK(k)')
  BY <1>3 DEF Tied
<1>5. f \in Call \cup {NoCall} /\ g \in Call \cup {NoCall} /\ k \in Call \cup {NoCall}
  BY DEF Moves
<1>6. ASSUME NEW F \in SUBSET Call, f \in F <=> g \in F, k \notin F
      PROVE  /\ Cnt(stack', F) = Cnt(stack, F)
             /\ Ind(f, F) = Ind(g, F) + Ind(k, F)
  <2>1. Ind(f, F) = Ind(g, F) /\ Ind(k, F) = 0 /\ Ind(g, F) \in Nat
    BY <1>6 DEF Ind
  <2>2. /\ Cnt(R, F) \in Nat
        /\ Cnt(stack, F) = Cnt(R, F) + Ind(f, F)
        /\ Cnt(stack', F) = Cnt(R, F) + Ind(g, F) + Ind(k, F)
    BY DEF Moves
  <2> QED
    BY <2>1, <2>2
<1>7. ASSUME d \in Ctxs PROVE CtxOK(d)'
  <2>1. /\ Cnt(stack', Leaving(d)) = Cnt(stack, Leaving(d))
        /\ Cnt(stack', Destroying(d)) = Cnt(stack, Destroying(d))
        /\ Cnt(stack', InsideOf(d)) = Cnt(stack, InsideOf(d))
    BY <1>6, <1>7, Kinds DEF SameParts, NoParts
  <2>2. SessionsOf(d)' = SessionsOf(d)
    <3>1. ASSUME NEW r \in Sessions
          PROVE  (sess[r] # NULL /\ sess[r].ctx = d) <=> (sess'[r] # NULL /\ sess'[r].ctx = d)
      BY DEF SessionOnly
    <3> QED
      BY <3>1 DEF SessionsOf
  <2>3. CtxOK(d)
    BY <1>7 DEF CInv, CtxsOK
  <2> QED
    BY <2>1, <2>2, <2>3 DEF CtxOK, SessionOnly
<1>8. NoDuplicates(ctxes')
  BY DEF CInv, CtxsOK, SessionOnly
<1>9. CtxTypes'
  BY DEF CInv, CtxTypes, SessionOnly, WaitStep
<1>10. SingleOK'
  <2>1. SinglesSame
    BY DEF SinglesSame, SessionOnly
  <2>2. PICK F : F = InSingle(ctxs)
    OBVIOUS
  <2>3. F \in SUBSET Call
    BY <2>2, Kinds
  <2>4. f \in F <=> g \in F
    <3>1. ASSUME NEW x \in Call \cup {NoCall}, NEW y \in Call \cup {NoCall}, SameParts(x, y), x \in F
          PROVE  y \in F
      <4>1. x \in Call /\ x.c \in Ctxs /\ x \in InsideOf(x.c) /\ ctxs[x.c].ta \in Single \ Concurrent
        BY <2>2, <3>1 DEF InSingle
      <4>2. y \in InsideOf(x.c)
        BY <3>1, <4>1 DEF SameParts
      <4>3. y \in Call /\ y.c = x.c
        BY <4>2 DEF InsideOf, Inside
      <4> QED
        BY <2>2, <4>1, <4>2, <4>3 DEF InSingle
    <3>2. SameParts(g, f)
      BY DEF SameParts
    <3> QED
      BY <1>5, <3>1, <3>2
  <2>5. k \notin F
    BY <2>2 DEF InSingle, NoParts
  <2>6. Ind(f, F) = Ind(g, F) + Ind(k, F)
    BY <1>6, <2>3, <2>4, <2>5
  <2>7. Ind(f, InSingle(ctxs)) = Ind(g, InSingle(ctxs)) + Ind(k, InSingle(ctxs))
    BY <2>2, <2>6
  <2>8. single' = single
    BY DEF SessionOnly
  <2> QED
    BY <2>1, <2>7, <2>8, SingleStays
<1>11. WaitOK'
  BY WaitsStay DEF Moves
<1> QED
  BY <1>1, <1>2, <1>4, <1>7, <1>8, <1>9, <1>10, <1>11, StepCInv
\* f and g have the same part in every session and context.
Alike(f, g) ==
    /\ SameParts(f, g)
    /\ \A s \in Sessions : /\ f \in Owned(s) <=> g \in Owned(s)
                           /\ f \in Opening(s) <=> g \in Opening(s)
                           /\ f \in Closing(s) <=> g \in Closing(s)
                           /\ f \in Loading(s) <=> g \in Loading(s)

\* A call has a part in its own context only.
LEMMA OwnPart ==
    ASSUME NEW x, NEW c, x \in Leaving(c) \/ x \in Destroying(c) \/ x \in InsideOf(c)
    PROVE  x \in Call /\ x.c = c
  BY DEF Leaving, Destroying, InsideOf, Inside

\* The innermost call goes on in the same part; references do not change.
LEMMA QuietMove ==
    ASSUME SInv, CInv, NEW t \in Threads, stack[t] # <<>>, NEW f, f = Top(t), NEW g,
           Variant(f, g), Alike(f, g), FrameOK(g),
           stack' = [stack EXCEPT ![t] = <<g>> \o Tail(stack[t])],
           NEW s, s = f.s, SessionOnly(s), sess'[s].ref = sess[s].ref,
           sess'[s].told <=> sess[s].told, WaitStep(t)
    PROVE  CInv'
<1>1. f \in Call /\ f.s \in Sessions
  BY TopCall DEF CallOK
<1>2. g \in Call /\ g.h = f.h /\ g.s = s
  BY DEF Variant
<1>3. BelowOK' /\ \E R : Moves(t, R, f, g, NoCall)
  BY <1>1, <1>2, BecomeMoves DEF CInv
<1>4. PICK R : Moves(t, R, f, g, NoCall)
  BY <1>3
<1>5. ASSUME NEW F \in SUBSET Call, f \in F <=> g \in F
      PROVE  Cnt(stack', F) = Cnt(stack, F)
  <2>1. Ind(f, F) = Ind(g, F) /\ Ind(NoCall, F) = 0 /\ Ind(g, F) \in Nat
    BY <1>5, NoCallInd DEF Ind
  <2>2. /\ Cnt(R, F) \in Nat
        /\ Cnt(stack, F) = Cnt(R, F) + Ind(f, F)
        /\ Cnt(stack', F) = Cnt(R, F) + Ind(g, F) + Ind(NoCall, F)
    BY <1>4 DEF Moves
  <2> QED
    BY <2>1, <2>2
<1>6. /\ Cnt(stack', Owned(s)) = Cnt(stack, Owned(s))
      /\ Cnt(stack', Opening(s)) = Cnt(stack, Opening(s))
      /\ Cnt(stack', Closing(s)) = Cnt(stack, Closing(s))
      /\ Cnt(stack', Loading(s)) = Cnt(stack, Loading(s))
  BY <1>1, <1>5, Kinds DEF Alike
<1>7. SessionOK(s)
  BY <1>1 DEF CInv, SessionsOK
<1>8. SessionOK(s)'
  BY <1>6, <1>7 DEF SessionOK, SessionOnly
<1>9. PICK d : d = f.c
  OBVIOUS
<1>10. Tied(f, s, d) /\ Tied(g, s, d) /\ Tied(NoCall, s, d)
  <2>1. Tied(f, s, d)
    BY <1>9, OwnPart DEF Tied
  <2>2. Tied(g, s, d)
    BY <1>2, <1>9, OwnPart DEF Tied, Alike, SameParts
  <2> QED
    BY <2>1, <2>2, NoCallType DEF Tied
<1>11. NoParts(NoCall) /\ SameParts(f, g)
  BY OwnPart, NoCallType DEF NoParts, Alike
<1> QED
  BY <1>1, <1>3, <1>4, <1>8, <1>10, <1>11, NoCallType, SessionMove

\* A thread waits, and nothing else happens.
LEMMA WaitOnly ==
    ASSUME CInv, NEW t \in Threads, WaitStep(t),
           UNCHANGED <<sess, ctxs, heads, ctxes, single, stack, fault>>
    PROVE  CInv'
<1>1. WaitOK'
  BY WaitsStay
<1>2. CtxTypes'
  BY DEF CInv, CtxTypes, WaitStep
<1>3. FramesOK' /\ BelowOK'
  BY DEF CInv, FramesOK, FrameOK, BelowOK
<1>4. SessionsOK'
  BY DEF CInv, SessionsOK, SessionOK
<1>5. CtxsOK'
  BY DEF CInv, CtxsOK, CtxOK, SessionsOf
<1>6. SingleOK'
  BY DEF CInv, SingleOK
<1> QED
  BY <1>1, <1>2, <1>3, <1>4, <1>5, <1>6 DEF CInv

\* The core stops for a reason that is expected.
LEMMA StopStep ==
    ASSUME CInv, NEW why \in {"assert", "panic"}, Stop(why) PROVE CInv'
<1>1. /\ UNCHANGED <<sess, ctxs, heads, ctxes, single, stack, wait>>
      /\ fault' = why
  BY DEF Stop
<1>2. CtxTypes'
  BY <1>1 DEF CInv, CtxTypes
<1>3. FramesOK' /\ BelowOK'
  BY <1>1 DEF CInv, FramesOK, FrameOK, BelowOK
<1>4. SessionsOK'
  BY <1>1 DEF CInv, SessionsOK, SessionOK
<1>5. CtxsOK'
  BY <1>1 DEF CInv, CtxsOK, CtxOK, SessionsOf
<1>6. SingleOK'
  BY <1>1 DEF CInv, SingleOK
<1>7. WaitOK'
  BY <1>1 DEF CInv, WaitOK, Top
<1> QED
  BY <1>2, <1>3, <1>4, <1>5, <1>6, <1>7 DEF CInv
\* Labels at which a call has no part in a context.
Apart == {"load", "fail", "init", "opened", "dead", "origin", "get", "lock", "begin",
          "setbusy", "after", "put", "destroyctx", "cancel"}

\* A call outside of contexts stays outside.
LEMMA AlikeApart ==
    ASSUME NEW f \in Call, NEW g, Variant(f, g), f.pc \in Apart, g.pc \in Apart,
           f.op = "open" => (g.pc = "origin" <=> f.pc = "origin"),
           f.op \in {"invoke", "close"} => (g.pc = "get" <=> f.pc = "get")
    PROVE  Alike(f, g)
<1>1. f.op \in {"open", "invoke", "close", "cancel"} /\ g \in Call
      /\ g.op = f.op /\ g.s = f.s
  BY DEF Call, Variant
<1>2. SameParts(f, g)
  BY DEF Apart, SameParts, Leaving, Destroying, InsideOf, Inside
<1>3. ASSUME NEW s
      PROVE  /\ f \in Owned(s) <=> g \in Owned(s)
             /\ f \in Closing(s) <=> g \in Closing(s)
  BY <1>1 DEF Apart, Owned, OwnsSession, Closing
<1>4. ASSUME NEW s
      PROVE  /\ f \in Opening(s) <=> g \in Opening(s)
             /\ f \in Loading(s) <=> g \in Loading(s)
  BY <1>1, <1>3 DEF Apart, Opening, Loading
<1> QED
  BY <1>2, <1>3, <1>4 DEF Alike

\* A call inside a context stays inside.
LEMMA AlikeInside ==
    ASSUME NEW f \in Call, NEW g, Variant(f, g), g.c = f.c, Inside(f, f.c), Inside(g, f.c),
           f.op = "close" => f.pc # "clear" /\ g.pc # "clear"
    PROVE  Alike(f, g)
<1>1. f.op \in {"open", "invoke", "close", "cancel"} /\ g \in Call
      /\ g.op = f.op /\ g.s = f.s
  BY DEF Call, Variant
<1>2. /\ f.pc \in {"enter", "run", "clear", "unlink", "refc"}
      /\ g.pc \in {"enter", "run", "clear", "unlink", "refc"}
  BY DEF Inside
<1>3. SameParts(f, g)
  BY <1>1, <1>2 DEF SameParts, Leaving, Destroying, InsideOf, Inside
<1>4. ASSUME NEW s
      PROVE  /\ f \in Owned(s) <=> g \in Owned(s)
             /\ f \in Closing(s) <=> g \in Closing(s)
  BY <1>1, <1>2 DEF Owned, OwnsSession, Closing
<1>5. ASSUME NEW s
      PROVE  /\ f \in Opening(s) <=> g \in Opening(s)
             /\ f \in Loading(s) <=> g \in Loading(s)
  BY <1>1, <1>2, <1>4 DEF Opening, Loading
<1> QED
  BY <1>3, <1>4, <1>5 DEF Alike

\* The innermost call of t is at l.
LEMMA AtTop ==
    ASSUME SInv, CInv, NEW t \in Threads, NEW l, At(t, l), NEW f, f = Top(t)
    PROVE  /\ stack[t] # <<>> /\ wait[t] = NULL
           /\ f \in Call /\ f.pc = l /\ f.s \in Sessions /\ f.h \in Heads
           /\ f.c \in Ctxs \cup {NULL}
           /\ f.op \in {"open", "invoke", "close", "cancel"}
           /\ f \in Range(stack[t])
           /\ CallOK(t, f) /\ Shape(f) /\ FrameOK(f)
           /\ f \in Owned(f.s) => sess[f.s] # NULL /\ f.s \in Range(heads[f.h])
<1>1. stack[t] # <<>> /\ wait[t] = NULL /\ f.pc = l
  BY DEF At
<1>2. f \in Call /\ f \in Range(stack[t]) /\ CallOK(t, f)
  BY <1>1, TopCall
<1>3. FrameOK(f)
  BY <1>2 DEF CInv, FramesOK
<1>4. f.h \in Heads /\ f.c \in Ctxs \cup {NULL} /\ f.op \in {"open", "invoke", "close", "cancel"}
  BY <1>2 DEF Call
<1> QED
  BY <1>1, <1>2, <1>3, <1>4 DEF CallOK

\* NULL is no thread, session or context.
LEMMA NotNull == NULL \notin Threads /\ NULL \notin Sessions /\ NULL \notin Ctxs
  BY TaManagerAssumption DEF Heads

\* A context that a session refers to exists and has not panicked.
LEMMA LiveCtx ==
    ASSUME SInv, CInv, NEW s \in Sessions, sess[s] # NULL, NEW c \in Ctxs, sess[s].ctx = c
    PROVE  /\ ctxs[c] # NULL /\ ctxs[c] \in Ctx /\ ~ctxs[c].panicked
           /\ s \in SessionsOf(c) /\ CtxOK(c)
           /\ ctxs[c].ref \in Nat /\ ctxs[c].ref > 0 /\ c \in Range(ctxes)
<1>1. s \in SessionsOf(c) /\ CtxOK(c)
  BY DEF SessionsOf, CInv, CtxsOK
<1>2. ctxs[c] # NULL /\ ctxs[c] \in Ctx /\ ~ctxs[c].panicked
  BY <1>1 DEF CtxOK, CInv, CtxTypes
<1>3. ctxs[c].ref \in Nat
  BY <1>2 DEF Ctx
<1>4. Cardinality(SessionsOf(c)) \in Nat /\ Cardinality(SessionsOf(c)) # 0
  <2>1. IsFiniteSet(SessionsOf(c))
    BY <1>1 DEF CtxOK
  <2> QED
    BY <1>1, <2>1, FS_CardinalityType, FS_EmptySet
<1>5. Cnt(stack, Leaving(c)) \in Nat
  BY CntNat
<1>6. ctxs[c].ref = Cardinality(SessionsOf(c)) + Cnt(stack, Leaving(c))
  BY <1>1, <1>2 DEF CtxOK
<1>7. ctxs[c].ref > 0
  BY <1>3, <1>4, <1>5, <1>6
<1>8. c \in Range(ctxes)
  BY <1>1, <1>2, <1>3, <1>7 DEF CtxOK
<1> QED
  BY <1>1, <1>2, <1>3, <1>7, <1>8

\* No session changes.
LEMMA SessionsUnchanged ==
    ASSUME NEW s \in Sessions, sess[s] # NULL,
           UNCHANGED <<sess, ctxs, heads, ctxes, single, fault>>
    PROVE  SessionOnly(s) /\ sess'[s].ref = sess[s].ref /\ (sess'[s].told <=> sess[s].told)
  BY DEF SessionOnly

\* One field of a session changes.
LEMMA SessionField ==
    ASSUME SInv, NEW s \in Sessions, sess[s] # NULL, NEW k \in Session,
           sess' = [sess EXCEPT ![s] = k], k.ctx = sess[s].ctx, k.ref = sess[s].ref,
           k.told = sess[s].told, UNCHANGED <<ctxs, heads, ctxes, single, fault>>
    PROVE  SessionOnly(s) /\ sess'[s].ref = sess[s].ref /\ (sess'[s].told <=> sess[s].told)
<1>1. sess \in [Sessions -> Session \cup {NULL}]
  BY DEF SInv, SessTypes, Data
<1>2. sess'[s] = k /\ \A r \in Sessions \ {s} : sess'[r] = sess[r]
  BY <1>1
<1>3. k # NULL
  BY NullAssumption
<1> QED
  BY <1>2, <1>3 DEF SessionOnly
\* No memory for a context.
LEMMA LoadNoneC ==
    ASSUME SInv, CInv, NEW t \in Threads, LoadNone(t) PROVE CInv'
<1>1. PICK f : f = Top(t)
  OBVIOUS
<1>2. At(t, "load")
  BY DEF LoadNone
<1>3. PICK g : g = [f EXCEPT !.pc = "fail"]
  OBVIOUS
<1>4. f \in Call /\ f.pc = "load" /\ f.s \in Sessions /\ FrameOK(f) /\ Shape(f)
      /\ stack[t] # <<>> /\ wait[t] = NULL /\ f.op \in {"open", "invoke", "close", "cancel"}
  BY <1>1, <1>2, AtTop
<1>5. Variant(f, g) /\ g.pc = "fail"
  BY <1>3, <1>4, CallFields, Labels
<1>6. f.op = "open"
  BY <1>4 DEF Shape
<1>7. f \in Owned(f.s)
  BY <1>4, <1>6 DEF Owned, OwnsSession
<1>8. sess[f.s] # NULL
  BY <1>1, <1>2, <1>7, AtTop
<1>9. Alike(f, g)
  BY <1>4, <1>5, <1>6, AlikeApart DEF Apart
<1>10. FrameOK(g)
  BY <1>4, <1>5, <1>6 DEF FrameOK, InCtx, Variant
<1>11. PICK s : s = f.s
  OBVIOUS
<1>12. SessionOnly(s) /\ sess'[s].ref = sess[s].ref /\ (sess'[s].told <=> sess[s].told)
  BY <1>4, <1>8, <1>11, SessionsUnchanged DEF LoadNone
<1>13. WaitStep(t)
  BY <1>4, WaitSame DEF LoadNone
<1>14. stack' = [stack EXCEPT ![t] = <<g>> \o Tail(stack[t])]
  BY <1>1, <1>3 DEF LoadNone, Goto, Become
<1> QED
  BY <1>1, <1>4, <1>5, <1>9, <1>10, <1>11, <1>12, <1>13, <1>14, QuietMove

\* The TA is to be entered for an open.
LEMMA OpenedC ==
    ASSUME SInv, CInv, NEW t \in Threads, Opened(t) PROVE CInv'
<1>1. PICK f : f = Top(t)
  OBVIOUS
<1>2. At(t, "opened")
  BY DEF Opened
<1>4. f \in Call /\ f.pc = "opened" /\ f.s \in Sessions /\ FrameOK(f) /\ Shape(f)
      /\ stack[t] # <<>> /\ wait[t] = NULL /\ f.op \in {"open", "invoke", "close", "cancel"}
  BY <1>1, <1>2, AtTop
<1>6. f.op = "open"
  BY <1>4 DEF Shape
<1>7. f \in Owned(f.s)
  BY <1>4, <1>6 DEF Owned, OwnsSession
<1>8. sess[f.s] # NULL
  BY <1>1, <1>2, <1>7, AtTop
<1>11. PICK s : s = f.s
  OBVIOUS
<1>15. PICK c : c = sess[s].ctx
  OBVIOUS
<1>16. c \in Ctxs
  BY <1>4, <1>8, <1>11, <1>15 DEF FrameOK, SInv, SessTypes, Data, Session
<1>17. ~ctxs[c].panicked /\ c # NULL
  BY <1>4, <1>8, <1>11, <1>15, <1>16, LiveCtx, NotNull
<1>3. PICK g : g = [[f EXCEPT !.c = c] EXCEPT !.pc = "setbusy"]
  OBVIOUS
<1>5. Variant(f, g) /\ g.pc = "setbusy" /\ g.c = c
  <2>1. g \in Call /\ g.op = f.op /\ g.s = f.s /\ g.h = f.h /\ g.pc = "setbusy" /\ g.c = c
        /\ g.ta = f.ta
    BY <1>3, <1>4, <1>16, Labels DEF Call
  <2> QED
    BY <2>1 DEF Variant
<1>9. Alike(f, g)
  BY <1>4, <1>5, <1>6, AlikeApart DEF Apart
<1>10. FrameOK(g)
  BY <1>4, <1>5, <1>6, <1>11, <1>15, <1>17 DEF FrameOK, InCtx, Variant
<1>12. SessionOnly(s) /\ sess'[s].ref = sess[s].ref /\ (sess'[s].told <=> sess[s].told)
  BY <1>4, <1>8, <1>11, SessionsUnchanged DEF Opened
<1>13. WaitStep(t)
  BY <1>4, WaitSame DEF Opened
<1>14. stack' = [stack EXCEPT ![t] = <<g>> \o Tail(stack[t])]
  BY <1>1, <1>3, <1>11, <1>15, <1>17 DEF Opened, Become
<1> QED
  BY <1>1, <1>4, <1>5, <1>9, <1>10, <1>11, <1>12, <1>13, <1>14, QuietMove

\* The session is locked: its context is to be entered, if it has one.
LEMMA BeginC ==
    ASSUME SInv, CInv, NEW t \in Threads, Begin(t) PROVE CInv'
<1>1. PICK f : f = Top(t)
  OBVIOUS
<1>2. At(t, "begin")
  BY DEF Begin
<1>4. f \in Call /\ f.pc = "begin" /\ f.s \in Sessions /\ FrameOK(f) /\ Shape(f)
      /\ stack[t] # <<>> /\ wait[t] = NULL /\ f.op \in {"open", "invoke", "close", "cancel"}
  BY <1>1, <1>2, AtTop
<1>6. f.op \in {"invoke", "close"}
  BY <1>4 DEF Shape
<1>7. f \in Owned(f.s)
  BY <1>4, <1>6 DEF Owned, OwnsSession
<1>8. sess[f.s] # NULL
  BY <1>1, <1>2, <1>7, AtTop
<1>11. PICK s : s = f.s
  OBVIOUS
<1>15. PICK c : c = sess[s].ctx
  OBVIOUS
<1>16. c \in Ctxs \cup {NULL}
  BY <1>4, <1>8, <1>11, <1>15 DEF SInv, SessTypes, Data, Session
<1>17. c # NULL => ~ctxs[c].panicked
  BY <1>4, <1>8, <1>11, <1>15, <1>16, LiveCtx, NotNull
<1>18. PICK l : l = IF c # NULL THEN "setbusy" ELSE IF f.op = "close" THEN "unlink" ELSE "put"
  OBVIOUS
<1>3. PICK g : g = [[f EXCEPT !.c = c] EXCEPT !.pc = l]
  OBVIOUS
<1>5. Variant(f, g) /\ g.pc = l /\ g.c = c /\ g.res = f.res
  <2>0. l \in PC
    BY <1>18, Labels
  <2>1. g \in Call /\ g.op = f.op /\ g.s = f.s /\ g.h = f.h /\ g.pc = l /\ g.c = c /\ g.res = f.res
        /\ g.ta = f.ta
    BY <1>3, <1>4, <1>16, <2>0 DEF Call
  <2> QED
    BY <2>1 DEF Variant
<1>9. Alike(f, g)
  <2>1. CASE l # "unlink"
    <3>1. l \in {"setbusy", "put"}
      BY <1>18, <2>1
    <3> QED
      BY <1>4, <1>5, <1>6, <3>1, AlikeApart DEF Apart
  <2>2. CASE l = "unlink"
    <3>1. f.op = "close" /\ c = NULL /\ g.op = "close" /\ g \in Call /\ g.s = f.s /\ NULL \notin Ctxs
      BY <1>5, <1>18, <2>2, TaManagerAssumption DEF Variant, Heads
    <3>2. SameParts(f, g)
      BY <1>4, <1>5, <2>2, <3>1 DEF SameParts, Leaving, Destroying, InsideOf, Inside
    <3>3. ASSUME NEW r
          PROVE  /\ f \in Owned(r) <=> g \in Owned(r)
                 /\ f \in Closing(r) <=> g \in Closing(r)
                 /\ f \notin Opening(r) /\ g \notin Opening(r)
      BY <1>4, <1>5, <2>2, <3>1 DEF Owned, OwnsSession, Closing, Opening
    <3>4. \A r : f \notin Loading(r) /\ g \notin Loading(r)
      BY <3>3 DEF Loading
    <3> QED
      BY <3>2, <3>3, <3>4 DEF Alike
  <2> QED
    BY <2>1, <2>2
<1>10. FrameOK(g)
  <2>1. f.op = "close" => f.res = "none"
    BY <1>4, <1>5, <1>11 DEF FrameOK, Variant
  <2>2. g.op = f.op /\ g.s = s
    BY <1>5, <1>11 DEF Variant
  <2> QED
    BY <1>5, <1>6, <1>15, <1>18, <2>1, <2>2 DEF FrameOK, InCtx
<1>12. SessionOnly(s) /\ sess'[s].ref = sess[s].ref /\ (sess'[s].told <=> sess[s].told)
  BY <1>4, <1>8, <1>11, SessionsUnchanged DEF Begin
<1>13. WaitStep(t)
  BY <1>4, WaitSame DEF Begin
<1>14. stack' = [stack EXCEPT ![t] = <<g>> \o Tail(stack[t])]
  <2>1. PICK m : m = [f EXCEPT !.c = c]
    OBVIOUS
  <2>2. m.c = c /\ m.op = f.op
    BY <2>1, <1>4 DEF Call
  <2>3. stack' = [stack EXCEPT ![t] =
            <<[m EXCEPT !.pc = IF m.c # NULL /\ ~ctxs[m.c].panicked THEN "setbusy"
                               ELSE IF m.op = "close" THEN "unlink"
                               ELSE IF m.c = NULL THEN "put" ELSE "destroyctx"]>> \o Tail(stack[t])]
    BY <1>1, <1>11, <1>15, <2>1 DEF Begin, Become
  <2>4. l = IF m.c # NULL /\ ~ctxs[m.c].panicked THEN "setbusy"
            ELSE IF m.op = "close" THEN "unlink"
            ELSE IF m.c = NULL THEN "put" ELSE "destroyctx"
    BY <1>17, <1>18, <2>2
  <2> QED
    BY <1>3, <2>1, <2>3, <2>4
<1> QED
  BY <1>1, <1>4, <1>5, <1>9, <1>10, <1>11, <1>12, <1>13, <1>14, QuietMove

\* The TA is entered.
LEMMA EnterC ==
    ASSUME SInv, CInv, NEW t \in Threads, Enter(t) PROVE CInv'
<1>1. PICK f : f = Top(t)
  OBVIOUS
<1>2. At(t, "enter")
  BY DEF Enter
<1>3. PICK g : g = [f EXCEPT !.pc = "run"]
  OBVIOUS
<1>4. f \in Call /\ f.pc = "enter" /\ f.s \in Sessions /\ FrameOK(f) /\ Shape(f)
      /\ stack[t] # <<>> /\ wait[t] = NULL /\ f.op \in {"open", "invoke", "close", "cancel"}
  BY <1>1, <1>2, AtTop
<1>5. Variant(f, g) /\ g.pc = "run" /\ g.c = f.c /\ g.res = f.res
  BY <1>3, <1>4, CallFields, Labels
<1>7. f \in Owned(f.s)
  BY <1>4 DEF Owned, OwnsSession, Shape
<1>8. sess[f.s] # NULL
  BY <1>1, <1>2, <1>7, AtTop
<1>9. Alike(f, g)
  BY <1>4, <1>5, AlikeInside DEF Inside
<1>10. FrameOK(g)
  BY <1>4, <1>5 DEF FrameOK, InCtx, Variant
<1>11. PICK s : s = f.s
  OBVIOUS
<1>12. SessionOnly(s) /\ sess'[s].ref = sess[s].ref /\ (sess'[s].told <=> sess[s].told)
  BY <1>4, <1>8, <1>11, SessionsUnchanged DEF Enter
<1>13. WaitStep(t)
  BY <1>4, WaitSame DEF Enter
<1>14. stack' = [stack EXCEPT ![t] = <<g>> \o Tail(stack[t])]
  BY <1>1, <1>3 DEF Enter, Goto, Become
<1> QED
  BY <1>1, <1>4, <1>5, <1>9, <1>10, <1>11, <1>12, <1>13, <1>14, QuietMove
\* The TA is left.
LEMMA LeaveC ==
    ASSUME SInv, CInv, NEW t \in Threads, NEW l \in {"enter", "run"}, At(t, l),
           NEW res \in {"ok", "error"}, Leave(t, res), ctxs' = ctxs
    PROVE  CInv'
<1>1. PICK f : f = Top(t)
  OBVIOUS
<1>4. f \in Call /\ f.pc = l /\ f.s \in Sessions /\ FrameOK(f) /\ Shape(f)
      /\ stack[t] # <<>> /\ wait[t] = NULL /\ f.op \in {"open", "invoke", "close", "cancel"}
  BY <1>1, AtTop
<1>2. PICK m : m = IF f.op = "close" THEN "unlink" ELSE "clear"
  OBVIOUS
<1>3. PICK g : g = [f EXCEPT !.res = res, !.pc = m]
  OBVIOUS
<1>5. Variant(f, g) /\ g.pc = m /\ g.c = f.c /\ g.res = res
  <2>1. m \in PC
    BY <1>2, Labels
  <2> QED
    BY <1>3, <1>4, <2>1 DEF Call, Variant
<1>6. f \in Owned(f.s)
  BY <1>4 DEF Owned, OwnsSession, Shape
<1>7. sess[f.s] # NULL
  BY <1>1, <1>6, AtTop
<1>8. Alike(f, g)
  <2>1. Inside(f, f.c)
    BY <1>4 DEF Inside
  <2>2. g.op = f.op
    BY <1>5 DEF Variant
  <2>3. Inside(g, f.c)
    BY <1>2, <1>5, <2>2 DEF Inside
  <2> QED
    BY <1>2, <1>4, <1>5, <2>1, <2>3, AlikeInside
<1>9. FrameOK(g)
  <2>1. g.op = f.op /\ g.s = f.s /\ g.ta = f.ta
    BY <1>5 DEF Variant
  <2>2. f.c # NULL /\ sess[f.s].ctx = f.c /\ (f.op = "open" => f.ta \in TAs)
    BY <1>4 DEF FrameOK, InCtx
  <2> QED
    BY <1>2, <1>5, <2>1, <2>2 DEF FrameOK, InCtx
<1>10. PICK s : s = f.s
  OBVIOUS
<1>11. PICK k : k = [sess[s] EXCEPT !.cancel = FALSE]
  OBVIOUS
<1>12. k \in Session /\ k.ctx = sess[s].ctx /\ k.ref = sess[s].ref /\ k.told = sess[s].told
  <2>1. sess[s] \in Session
    BY <1>4, <1>7, <1>10 DEF SInv, SessTypes, Data
  <2> QED
    BY <1>11, <2>1 DEF Session
<1>13. sess' = [sess EXCEPT ![s] = k]
  BY <1>1, <1>10, <1>11 DEF Leave
<1>14. SessionOnly(s) /\ sess'[s].ref = sess[s].ref /\ (sess'[s].told <=> sess[s].told)
  BY <1>4, <1>7, <1>10, <1>12, <1>13, SessionField DEF Leave
<1>15. WaitStep(t)
  BY <1>4, WaitSame DEF Leave
<1>16. stack' = [stack EXCEPT ![t] = <<g>> \o Tail(stack[t])]
  BY <1>1, <1>2, <1>3 DEF Leave, Become
<1> QED
  BY <1>1, <1>4, <1>5, <1>8, <1>9, <1>10, <1>14, <1>15, <1>16, QuietMove

\* user_ta_enter() refuses a call that is too deep.
LEMMA EnterTooDeepC ==
    ASSUME SInv, CInv, NEW t \in Threads, EnterTooDeep(t) PROVE CInv'
  BY LeaveC DEF EnterTooDeep

\* The panicked flag was clear before.
LEMMA TaReturnsC ==
    ASSUME SInv, CInv, NEW t \in Threads, TaReturns(t) PROVE CInv'
<1>1. PICK f : f = Top(t)
  OBVIOUS
<1>2. At(t, "run")
  BY DEF TaReturns
<1>3. PICK res \in {"ok", "error"} : Leave(t, res)
  BY DEF TaReturns
<1>4. f \in Call /\ f.pc = "run" /\ f.s \in Sessions /\ FrameOK(f) /\ Shape(f)
      /\ f.c \in Ctxs \cup {NULL}
  BY <1>1, <1>2, AtTop
<1>5. f \in Owned(f.s)
  BY <1>4 DEF Owned, OwnsSession, Shape, Call
<1>6. sess[f.s] # NULL
  BY <1>1, <1>2, <1>5, AtTop
<1>7. f.c \in Ctxs /\ sess[f.s].ctx = f.c
  BY <1>4 DEF FrameOK, InCtx
<1>8. PICK c : c = f.c
  OBVIOUS
<1>9. ctxs[c] \in Ctx /\ ~ctxs[c].panicked
  BY <1>4, <1>6, <1>7, <1>8, LiveCtx
<1>10. [ctxs[c] EXCEPT !.panicked = FALSE] = ctxs[c]
  BY <1>9 DEF Ctx
<1>11. ctxs \in [Ctxs -> Ctx \cup {NULL}]
  BY DEF CInv, CtxTypes
<1>12. ctxs' = ctxs
  <2>1. ctxs' = [ctxs EXCEPT ![c] = [ctxs[c] EXCEPT !.panicked = FALSE]]
    BY <1>1, <1>8 DEF TaReturns
  <2> QED
    BY <2>1, <1>7, <1>8, <1>10, <1>11
<1> QED
  BY <1>2, <1>3, <1>12, LeaveC

\* The TA is busy in the thread's own calls: an open goes on with an error.
LEMMA BusyRefusedC ==
    ASSUME SInv, CInv, NEW t \in Threads, BusyRefused(t) PROVE CInv'
<1>1. PICK f : f = Top(t)
  OBVIOUS
<1>2. At(t, "setbusy")
  BY DEF BusyRefused
<1>3. CASE f.op # "open"
  BY <1>1, <1>3, StopStep DEF BusyRefused
<1>4. CASE f.op = "open"
  <2>1. f \in Call /\ f.pc = "setbusy" /\ f.s \in Sessions /\ FrameOK(f) /\ Shape(f)
        /\ stack[t] # <<>> /\ wait[t] = NULL
    BY <1>1, <1>2, AtTop
  <2>2. PICK g : g = [f EXCEPT !.pc = "put", !.res = "busy"]
    OBVIOUS
  <2>3. Variant(f, g) /\ g.pc = "put" /\ g.c = f.c
    BY <2>1, <2>2, Labels DEF Call, Variant
  <2>4. f \in Owned(f.s)
    BY <1>4, <2>1 DEF Owned, OwnsSession
  <2>5. sess[f.s] # NULL
    BY <1>1, <1>2, <2>4, AtTop
  <2>6. Alike(f, g)
    BY <1>4, <2>1, <2>3, AlikeApart DEF Apart
  <2>7. FrameOK(g)
    BY <1>4, <2>1, <2>3 DEF FrameOK, InCtx, Variant
  <2>8. PICK s : s = f.s
    OBVIOUS
  <2>9. UNCHANGED <<sess, ctxs, heads, ctxes, single, fault>>
    BY <1>1, <1>4 DEF BusyRefused
  <2>10. SessionOnly(s) /\ sess'[s].ref = sess[s].ref /\ (sess'[s].told <=> sess[s].told)
    BY <2>1, <2>5, <2>8, <2>9, SessionsUnchanged
  <2>11. WaitStep(t)
    <3>1. PICK W : Wake(W)
      BY <1>1, <1>4 DEF BusyRefused
    <3> QED
      BY <2>1, <3>1, WaitWoken
  <2>12. stack' = [stack EXCEPT ![t] = <<g>> \o Tail(stack[t])]
    BY <1>1, <1>4, <2>2 DEF BusyRefused, Become
  <2> QED
    BY <1>1, <2>1, <2>3, <2>6, <2>7, <2>8, <2>10, <2>11, <2>12, QuietMove
<1> QED
  BY <1>3, <1>4

\* A condition variable of the call that waits.
LEMMA WaitForOne ==
    ASSUME CInv, NEW t \in Threads, stack[t] # <<>>, NEW cv \in Condvars, WaitFor(t, cv),
           Waits(Top(t), cv), UNCHANGED <<sess, ctxs, heads, ctxes, single, stack, fault>>
    PROVE  CInv'
<1>1. wait \in [Threads -> Condvars \cup {NULL}]
  BY DEF CInv, CtxTypes
<1>2. /\ wait' \in [Threads -> Condvars \cup {NULL}]
      /\ wait'[t] = cv /\ \A u \in Threads \ {t} : wait'[u] = wait[u]
  BY <1>1 DEF WaitFor
<1>3. WaitStep(t)
  BY <1>2 DEF WaitStep, Top
<1> QED
  BY <1>3, WaitOnly

\* The thread waits for the single instance lock or for the TA.
LEMMA WaitBusyC ==
    ASSUME SInv, CInv, NEW t \in Threads, WaitBusy(t) PROVE CInv'
<1>1. PICK f : f = Top(t)
  OBVIOUS
<1>2. f.pc = "setbusy" /\ f \in Call /\ FrameOK(f) /\ stack[t] # <<>> /\ f.c \in Ctxs \cup {NULL}
  BY <1>1, AtTop DEF WaitBusy
<1>3. f.c \in Ctxs
  BY <1>2 DEF FrameOK, InCtx
<1>4. PICK cv : cv = IF TaOf(f) \in Single THEN <<"single", NULL>> ELSE <<"busy", f.c>>
  OBVIOUS
<1>5. cv \in Condvars /\ Waits(f, cv)
  BY <1>2, <1>3, <1>4 DEF Condvars, Waits
<1>6. WaitFor(t, cv) /\ UNCHANGED <<sess, ctxs, heads, ctxes, single, stack, fault>>
  BY <1>1, <1>4 DEF WaitBusy
<1> QED
  BY <1>1, <1>2, <1>5, <1>6, WaitForOne
\* The innermost call is g now.
LEMMA NewTop ==
    ASSUME SInv, NEW t \in Threads, NEW g \in Call, NEW p \in Seq(Call),
           stack' = [stack EXCEPT ![t] = <<g>> \o p]
    PROVE  stack'[t] # <<>> /\ Head(stack'[t]) = g
<1>1. stack'[t] = <<g>> \o p
  BY DEF SInv, SessTypes, Stacks
<1> QED
  BY <1>1

\* A close that waits for the last reference has the same part as before.
LEMMA AlikeUnlink ==
    ASSUME NEW f \in Call, NEW g, Variant(f, g), g.c = f.c, g.res = f.res,
           f.op = "close", f.pc = "unlink", g.pc = "refc"
    PROVE  Alike(f, g)
<1>1. g \in Call /\ g.op = "close" /\ g.s = f.s
  BY DEF Variant
<1>2. SameParts(f, g)
  BY <1>1 DEF SameParts, Leaving, Destroying, InsideOf, Inside
<1>3. ASSUME NEW r
      PROVE  /\ f \in Owned(r) <=> g \in Owned(r)
             /\ f \in Closing(r) <=> g \in Closing(r)
             /\ f \notin Opening(r) /\ g \notin Opening(r)
  BY <1>1 DEF Owned, OwnsSession, Closing, Opening
<1>4. \A r : f \notin Loading(r) /\ g \notin Loading(r)
  BY <1>3 DEF Loading
<1> QED
  BY <1>2, <1>3, <1>4 DEF Alike

\* tee_ta_unlink_session() has to wait for other references.
LEMMA UnlinkWaitsC ==
    ASSUME SInv, CInv, NEW t \in Threads, At(t, "unlink"), NEW f, f = Top(t),
           sess' = [sess EXCEPT ![f.s].unlink = TRUE],
           wait' = [u \in Threads |->
                      IF u = t THEN <<"refc", f.s>>
                      ELSE IF wait[u] = <<"lock", f.s>> THEN NULL ELSE wait[u]],
           Goto(t, "refc"), UNCHANGED <<ctxs, heads, ctxes, single, fault>>
    PROVE  CInv'
<1>1. f \in Call /\ f.pc = "unlink" /\ f.s \in Sessions /\ FrameOK(f) /\ Shape(f)
      /\ stack[t] # <<>> /\ wait[t] = NULL /\ f.op \in {"open", "invoke", "close", "cancel"}
  BY AtTop
<1>2. f.op = "close"
  BY <1>1 DEF Shape
<1>3. PICK g : g = [f EXCEPT !.pc = "refc"]
  OBVIOUS
<1>4. Variant(f, g) /\ g.pc = "refc" /\ g.c = f.c /\ g.res = f.res
  BY <1>1, <1>3, CallFields, Labels
<1>5. f \in Owned(f.s)
  BY <1>1, <1>2 DEF Owned, OwnsSession
<1>6. sess[f.s] # NULL
  BY <1>5, AtTop
<1>7. Alike(f, g)
  BY <1>1, <1>2, <1>4, AlikeUnlink
<1>8. FrameOK(g)
  BY <1>1, <1>4 DEF FrameOK, InCtx, Variant
<1>9. PICK s : s = f.s
  OBVIOUS
<1>10. PICK k : k = [sess[s] EXCEPT !.unlink = TRUE]
  OBVIOUS
<1>11. k \in Session /\ k.ctx = sess[s].ctx /\ k.ref = sess[s].ref /\ k.told = sess[s].told
  <2>1. sess[s] \in Session
    BY <1>1, <1>6, <1>9 DEF SInv, SessTypes, Data
  <2> QED
    BY <1>10, <2>1 DEF Session
<1>12. sess' = [sess EXCEPT ![s] = k]
  BY <1>9, <1>10
<1>13. SessionOnly(s) /\ sess'[s].ref = sess[s].ref /\ (sess'[s].told <=> sess[s].told)
  BY <1>1, <1>6, <1>9, <1>11, <1>12, SessionField
<1>14. stack' = [stack EXCEPT ![t] = <<g>> \o Tail(stack[t])]
  BY <1>3 DEF Goto, Become
<1>15. WaitStep(t)
  <2>1. stack'[t] # <<>> /\ Head(stack'[t]) = g
    BY <1>1, <1>4, <1>14, NewTop, TopCall DEF Variant
  <2>2. g.s = f.s
    BY <1>4 DEF Variant
  <2>3. wait \in [Threads -> Condvars \cup {NULL}] /\ <<"refc", f.s>> \in Condvars
    BY <1>1 DEF CInv, CtxTypes, Condvars
  <2>4. wait' \in [Threads -> Condvars \cup {NULL}]
    BY <2>3
  <2> QED
    BY <1>4, <2>1, <2>2, <2>4 DEF WaitStep, Waits
<1> QED
  BY <1>1, <1>4, <1>7, <1>8, <1>9, <1>13, <1>14, <1>15, QuietMove

\* tee_ta_init_session_with_context() without a context for the session, and with
\* the context c.
InitLater(t, f, rest, S) ==
    \E l \in {"load", "init", "fail"} :
        /\ stack' = [stack EXCEPT ![t] = <<[f EXCEPT !.pc = l]>> \o rest]
        /\ sess' = S /\ ctxs' = ctxs
        /\ wait' = IF l = "init" THEN [wait EXCEPT ![t] = <<"init", NULL>>] ELSE wait
InitJoins(t, f, rest, S, c) ==
    /\ stack' = [stack EXCEPT ![t] = <<[f EXCEPT !.pc = "opened"]>> \o rest]
    /\ sess' = [S EXCEPT ![f.s].ctx = c]
    /\ ctxs' = [ctxs EXCEPT ![c].ref = @ + 1]
    /\ wait' = wait
    /\ ~ctxs[c].init

\* tee_ta_init_session_with_context() joins a context or leaves it for later.
LEMMA InitSplits ==
    ASSUME NEW t \in Threads, NEW f, NEW rest, NEW S, ctxes \in Seq(Ctxs),
           InitWithContext(t, f, rest, S)
    PROVE  \/ InitLater(t, f, rest, S)
           \/ \E c \in Range(ctxes) : InitJoins(t, f, rest, S, c)
<1> DEFINE found == {i \in DOMAIN ctxes : ctxs[ctxes[i]].ta = f.ta}
           c == CtxFind(f.ta)
           l == IF c = NULL THEN "load"
                ELSE IF ctxs[c].init THEN "init"
                ELSE IF f.ta \notin Single THEN "load"
                ELSE IF f.ta \notin MultiSession /\ ctxs[c].ref > 0 THEN "fail"
                ELSE "opened"
<1>1. found \in SUBSET Nat /\ \A i \in found : ctxes[i] \in Range(ctxes)
  BY DEF Range
<1>2. c = IF found = {} THEN NULL ELSE ctxes[Min(found)]
  BY DEF CtxFind
<1>3. ASSUME found # {} PROVE Min(found) \in found
  <2> HIDE DEF found
  <2>1. \E b \in found : \A a \in found : b <= a
    BY <1>1, <1>3, LeastNumber
  <2> QED
    BY <2>1 DEF Min
<1>4. /\ stack' = [stack EXCEPT ![t] = <<[f EXCEPT !.pc = l]>> \o rest]
      /\ ctxs' = IF l = "opened" THEN [ctxs EXCEPT ![c].ref = @ + 1] ELSE ctxs
      /\ sess' = IF l = "opened" THEN [S EXCEPT ![f.s].ctx = c] ELSE S
      /\ wait' = IF l = "init" THEN [wait EXCEPT ![t] = <<"init", NULL>>] ELSE wait
  BY DEF InitWithContext
<1> HIDE DEF found
<1>5. c # NULL => c \in Range(ctxes)
  BY <1>1, <1>2, <1>3
<1> HIDE DEF c
<1>6. l \in {"load", "init", "fail", "opened"} /\ (l = "opened" => c # NULL /\ ~ctxs[c].init)
  OBVIOUS
<1> HIDE DEF l
<1>7. CASE l = "opened"
  BY <1>4, <1>5, <1>6, <1>7 DEF InitJoins
<1>8. CASE l # "opened"
  BY <1>4, <1>6, <1>8 DEF InitLater
<1> QED
  BY <1>7, <1>8

\* The context is still missing, or not initialized.
LEMMA OpenRetryLater ==
    ASSUME SInv, CInv, NEW t \in Threads, At(t, "init"), NEW f, f = Top(t),
           InitLater(t, f, Tail(stack[t]), sess), UNCHANGED <<heads, ctxes, single, fault>>
    PROVE  CInv'
<1>1. f \in Call /\ f.pc = "init" /\ f.s \in Sessions /\ FrameOK(f) /\ Shape(f)
      /\ stack[t] # <<>> /\ wait[t] = NULL /\ f.op \in {"open", "invoke", "close", "cancel"}
  BY AtTop
<1>2. f.op = "open"
  BY <1>1 DEF Shape
<1>3. PICK l \in {"load", "init", "fail"} :
        /\ stack' = [stack EXCEPT ![t] = <<[f EXCEPT !.pc = l]>> \o Tail(stack[t])]
        /\ sess' = sess /\ ctxs' = ctxs
        /\ wait' = IF l = "init" THEN [wait EXCEPT ![t] = <<"init", NULL>>] ELSE wait
  BY DEF InitLater
<1>4. PICK g : g = [f EXCEPT !.pc = l]
  OBVIOUS
<1>5. Variant(f, g) /\ g.pc = l /\ g.c = f.c /\ g.res = f.res
  BY <1>1, <1>4, CallFields, Labels
<1>6. f \in Owned(f.s)
  BY <1>1, <1>2 DEF Owned, OwnsSession
<1>7. sess[f.s] # NULL
  BY <1>6, AtTop
<1>8. Alike(f, g)
  BY <1>1, <1>2, <1>5, AlikeApart DEF Apart
<1>9. FrameOK(g)
  BY <1>1, <1>2, <1>5 DEF FrameOK, InCtx, Variant
<1>10. PICK s : s = f.s
  OBVIOUS
<1>11. SessionOnly(s) /\ sess'[s].ref = sess[s].ref /\ (sess'[s].told <=> sess[s].told)
  BY <1>1, <1>3, <1>7, <1>10, SessionsUnchanged
<1>12. stack' = [stack EXCEPT ![t] = <<g>> \o Tail(stack[t])]
  BY <1>3, <1>4
<1>13. WaitStep(t)
  <2>1. stack'[t] # <<>> /\ Head(stack'[t]) = g
    BY <1>1, <1>5, <1>12, NewTop, TopCall DEF Variant
  <2>2. wait \in [Threads -> Condvars \cup {NULL}] /\ <<"init", NULL>> \in Condvars
    BY DEF CInv, CtxTypes, Condvars
  <2> QED
    BY <1>1, <1>3, <1>5, <2>1, <2>2 DEF WaitStep, Waits
<1> QED
  BY <1>1, <1>5, <1>8, <1>9, <1>10, <1>11, <1>12, <1>13, QuietMove

-----------------------------------------------------------------------------
(* References of a session.                                                *)

\* How a step changes the number of calls of a kind.
LEMMA CntStep ==
    ASSUME NEW t, NEW R, NEW f, NEW g, NEW k, Moves(t, R, f, g, k), NEW F \in SUBSET Call
    PROVE  /\ Cnt(R, F) \in Nat /\ Cnt(stack, F) \in Nat /\ Cnt(stack', F) \in Nat
           /\ Ind(f, F) \in 0..1 /\ Ind(g, F) \in 0..1 /\ Ind(k, F) \in 0..1
           /\ Cnt(stack, F) = Cnt(R, F) + Ind(f, F)
           /\ Cnt(stack', F) = Cnt(R, F) + Ind(g, F) + Ind(k, F)
<1>1. Ind(f, F) \in 0..1 /\ Ind(g, F) \in 0..1 /\ Ind(k, F) \in 0..1
  BY DEF Ind
<1> QED
  BY <1>1 DEF Moves

\* A call that opens a session owns it.
LEMMA OpenersOwn ==
    ASSUME NEW R \in Stacks, NEW s, Cnt(R, Opening(s)) > 0
    PROVE  Cnt(R, Owned(s)) > 0
<1>1. Cnt(R, Opening(s)) # 0
  BY CntZero
<1>2. PICK u \in Threads : \E e \in Range(R[u]) : e \in Opening(s)
  BY <1>1, CntZero
<1>3. PICK e \in Range(R[u]) : e \in Opening(s)
  BY <1>2
<1>4. e \in Owned(s)
  BY <1>3 DEF Opening
<1>5. Cnt(R, Owned(s)) # 0 /\ Cnt(R, Owned(s)) \in Nat
  BY <1>4, CntZero
<1> QED
  BY <1>5

\* The references of s change with the calls that own them, the calls having no
\* part in a context.
LEMMA RefMove ==
    ASSUME SInv, CInv, NEW t \in Threads, NEW R, NEW s \in Sessions, NEW f, NEW g, NEW k,
           Moves(t, R, f, g, k), SessionOnly(s), NoParts(f), NoParts(g), NoParts(k),
           f \in Call => f.s = s, g \in Call => g.s = s, k \in Call => k.s = s,
           sess'[s].ref = sess[s].ref - Ind(f, Owned(s)) + Ind(g, Owned(s)) + Ind(k, Owned(s)),
           f \notin Loading(s), g \notin Opening(s), k \notin Opening(s),
           sess'[s].told => sess[s].told \/ f \in Opening(s),
           g \in Owned(s) \/ k \in Owned(s) => Cnt(stack, Opening(s)) = 0,
           Cnt(stack', Opening(s)) + Cnt(stack', Closing(s)) <= 1,
           g \in Call => FrameOK(g), k \in Call => FrameOK(k), BelowOK', WaitStep(t)
    PROVE  CInv'
<1>1. SessionOK(s)
  BY DEF CInv, SessionsOK
<1>2. sess[s] # NULL /\ sess'[s] # NULL /\ sess'[s].ctx = sess[s].ctx /\ ctxs' = ctxs
  BY DEF SessionOnly
<1>3. R \in Stacks
  BY DEF Moves
<1>4. PICK o, o1, o2, fo, go, ko : /\ o = Cnt(R, Owned(s)) /\ o1 = Cnt(stack, Owned(s))
                           /\ o2 = Cnt(stack', Owned(s)) /\ fo = Ind(f, Owned(s))
                           /\ go = Ind(g, Owned(s)) /\ ko = Ind(k, Owned(s))
  OBVIOUS
<1>5. /\ o \in Nat /\ o1 \in Nat /\ o2 \in Nat /\ fo \in 0..1 /\ go \in 0..1 /\ ko \in 0..1
      /\ o1 = o + fo /\ o2 = o + go + ko
  BY <1>4, CntStep, Kinds
<1>6. sess'[s].ref = o2
  <2>1. sess[s].ref = o1
    BY <1>1, <1>2, <1>4 DEF SessionOK
  <2>2. sess'[s].ref = o1 - fo + go + ko
    BY <2>1, <1>4
  <2> QED
    BY <1>5, <2>2
<1>7. PICK p, p1, p2, fp : /\ p = Cnt(R, Opening(s)) /\ p1 = Cnt(stack, Opening(s))
                           /\ p2 = Cnt(stack', Opening(s)) /\ fp = Ind(f, Opening(s))
  OBVIOUS
<1>8. p \in Nat /\ p1 \in Nat /\ p2 \in Nat /\ fp \in 0..1 /\ p1 = p + fp /\ p2 = p
  <2>1. Ind(g, Opening(s)) = 0 /\ Ind(k, Opening(s)) = 0
    BY DEF Ind
  <2> QED
    BY <1>7, <2>1, CntStep, Kinds
<1>9. p > 0 => o > 0
  BY <1>3, <1>4, <1>7, OpenersOwn
<1>10. p1 > 0 => o1 = 1
  BY <1>1, <1>2, <1>4, <1>7 DEF SessionOK
<1>11. p2 > 0 => o2 = 1
  <2>1. ASSUME p2 > 0 PROVE go = 0 /\ ko = 0
    <3>1. p1 # 0
      BY <1>8, <2>1
    <3>2. g \notin Owned(s) /\ k \notin Owned(s)
      BY <1>7, <3>1
    <3> QED
      BY <1>4, <3>2 DEF Ind
  <2> QED
    BY <1>5, <1>8, <1>9, <1>10, <2>1
<1>12. sess'[s].told => p2 = 0
  <2>1. CASE sess[s].told
    <3>1. p1 = 0
      BY <1>1, <1>2, <1>7, <2>1 DEF SessionOK
    <3> QED
      BY <1>8, <3>1
  <2>2. CASE f \in Opening(s)
    <3>1. fp = 1
      BY <1>7, <2>2 DEF Ind
    <3>2. p1 + Cnt(stack, Closing(s)) <= 1 /\ Cnt(stack, Closing(s)) \in Nat
      BY <1>1, <1>2, <1>7, CntNat DEF SessionOK
    <3> QED
      BY <1>8, <3>1, <3>2
  <2> QED
    BY <2>1, <2>2
<1>13. Cnt(stack', Loading(s)) = Cnt(stack, Loading(s))
  <2>1. Ind(f, Loading(s)) = 0 /\ Ind(g, Loading(s)) = 0 /\ Ind(k, Loading(s)) = 0
    BY DEF Ind, Loading
  <2> QED
    BY <2>1, CountSame, Kinds
<1>14. SessionOK(s)'
  BY <1>1, <1>2, <1>4, <1>6, <1>7, <1>11, <1>12, <1>13 DEF SessionOK
<1>15. PICK d : d = NULL
  OBVIOUS
<1>16. Tied(f, s, d) /\ Tied(g, s, d) /\ Tied(k, s, d) /\ SameParts(f, g)
  BY DEF Tied, NoParts, SameParts
<1> QED
  BY <1>14, <1>16, SessionMove

\* A call that gives its reference back returns.
LEMMA RefReturn ==
    ASSUME SInv, CInv, NEW t \in Threads, stack[t] # <<>>, NEW f, f = Top(t), Return(t),
           NEW s \in Sessions, s = f.s, SessionOnly(s), NoParts(f), f \notin Loading(s),
           sess'[s].ref = sess[s].ref - Ind(f, Owned(s)),
           sess'[s].told => sess[s].told \/ f \in Opening(s), WaitStep(t)
    PROVE  CInv'
<1>1. BelowOK' /\ \E R : Moves(t, R, f, NoCall, NoCall)
  BY ReturnMoves DEF CInv
<1>2. PICK R : Moves(t, R, f, NoCall, NoCall)
  BY <1>1
<1>3. NoParts(NoCall) /\ NoCall \notin Call /\ NoCall \notin Opening(s) /\ NoCall \notin Owned(s)
  BY OwnPart, NoCallType, Kinds DEF NoParts
<1>4. sess'[s].ref = sess[s].ref - Ind(f, Owned(s)) + Ind(NoCall, Owned(s)) + Ind(NoCall, Owned(s))
  <2>1. Ind(NoCall, Owned(s)) = 0
    BY NoCallInd, Kinds
  <2>2. sess[s].ref \in Nat
    BY DEF SessionOnly, SInv, SessTypes, Data, Session
  <2>3. Ind(f, Owned(s)) \in 0..1
    BY DEF Ind
  <2> QED
    BY <2>1, <2>2, <2>3
<1>5. Cnt(stack', Opening(s)) + Cnt(stack', Closing(s)) <= 1
  <2>1. PICK a, a1, b, b1 : /\ a = Cnt(stack, Opening(s)) /\ a1 = Cnt(stack', Opening(s))
                            /\ b = Cnt(stack, Closing(s)) /\ b1 = Cnt(stack', Closing(s))
    OBVIOUS
  <2>2. Ind(NoCall, Opening(s)) = 0 /\ Ind(NoCall, Closing(s)) = 0
    BY NoCallInd, Kinds
  <2>3. a \in Nat /\ a1 \in Nat /\ b \in Nat /\ b1 \in Nat /\ a1 <= a /\ b1 <= b
    BY <1>2, <2>1, <2>2, CntStep, Kinds
  <2>4. a + b <= 1
    BY <2>1 DEF CInv, SessionsOK, SessionOK, SessionOnly
  <2> QED
    BY <2>1, <2>3, <2>4
<1> QED
  BY <1>1, <1>2, <1>3, <1>4, <1>5, RefMove
\* A call at these labels has no part in a context.
LEMMA ApartNoParts == ASSUME NEW f, f.pc \in Apart PROVE NoParts(f)
  BY DEF Apart, NoParts, Leaving, Destroying, InsideOf, Inside

\* tee_ta_put_session() after other fields of the session may have changed.
LEMMA PutKeeps ==
    ASSUME SInv, NEW t \in Threads, NEW s \in Sessions, sess[s] # NULL, NEW a \in Session,
           a.ctx = sess[s].ctx, a.ref = sess[s].ref, sess[s].ref >= 1,
           PutSession(t, s, [sess EXCEPT ![s] = a]), UNCHANGED <<ctxs, heads, ctxes, single, fault>>
    PROVE  /\ SessionOnly(s) /\ sess'[s].ref = sess[s].ref - 1 /\ sess'[s].told = a.told
           /\ \E W : Wake(W)
<1>1. sess \in [Sessions -> Session \cup {NULL}]
  BY DEF SInv, SessTypes, Data
<1>2. PICK S : S = [sess EXCEPT ![s] = a]
  OBVIOUS
<1>3. S \in [Sessions -> Session \cup {NULL}] /\ S[s] = a /\ \A r \in Sessions \ {s} : S[r] = sess[r]
  BY <1>1, <1>2
<1>4. PICK k : k = [a EXCEPT !.ref = a.ref - 1, !.lock = IF a.lock = t THEN NULL ELSE a.lock]
  OBVIOUS
<1>5. k \in Session /\ k.ref = a.ref - 1 /\ k.ctx = a.ctx /\ k.told = a.told
  <2>1. a.ref \in Nat /\ a.ref - 1 \in Nat /\ a.lock \in Threads \cup {NULL}
    BY DEF Session
  <2>2. PICK m \in Threads \cup {NULL} : m = IF a.lock = t THEN NULL ELSE a.lock
    BY <2>1
  <2>3. k = [a EXCEPT !.ref = a.ref - 1, !.lock = m]
    BY <1>4, <2>2
  <2> QED
    BY <2>1, <2>2, <2>3 DEF Session
<1>6. sess' = [S EXCEPT ![s] = k]
  BY <1>2, <1>3, <1>4 DEF PutSession
<1>7. sess'[s] = k /\ \A r \in Sessions \ {s} : sess'[r] = sess[r]
  BY <1>3, <1>6
<1>8. \E W : Wake(W)
  BY DEF PutSession
<1>9. k # NULL
  BY <1>5, NullAssumption
<1> QED
  BY <1>5, <1>7, <1>8, <1>9 DEF SessionOnly

\* An invoke ends.
LEMMA InvokeEndC ==
    ASSUME SInv, CInv, NEW t \in Threads, InvokeEnd(t) PROVE CInv'
<1>1. PICK f : f = Top(t)
  OBVIOUS
<1>2. PICK l \in {"put", "after"} : At(t, l) /\ (l = "put" => f.op = "invoke")
  BY <1>1 DEF InvokeEnd
<1>3. f \in Call /\ f.pc = l /\ f.s \in Sessions /\ Shape(f) /\ f \in Range(stack[t])
      /\ stack[t] # <<>> /\ wait[t] = NULL /\ f.op \in {"open", "invoke", "close", "cancel"}
  BY <1>1, <1>2, AtTop
<1>4. f.op = "invoke"
  BY <1>2, <1>3 DEF Shape
<1>5. PICK s \in Sessions : s = f.s
  BY <1>3
<1>6. f \in Owned(s) /\ f \notin Loading(s)
  BY <1>2, <1>3, <1>4, <1>5 DEF Owned, OwnsSession, Loading
<1>7. sess[s] # NULL /\ sess[s] \in Session /\ sess[s].ref >= 1
  BY <1>3, <1>6, RefPositive
<1>8. PutSession(t, s, [sess EXCEPT ![s] = sess[s]]) /\ Return(t)
      /\ UNCHANGED <<ctxs, heads, ctxes, single, fault>>
  <2>1. sess = [sess EXCEPT ![s] = sess[s]]
    BY DEF SInv, SessTypes, Data
  <2> QED
    BY <1>1, <1>5, <2>1 DEF InvokeEnd
<1>9. /\ SessionOnly(s) /\ sess'[s].ref = sess[s].ref - 1 /\ sess'[s].told = sess[s].told
      /\ \E W : Wake(W)
  <2>1. PICK a : a = sess[s]
    OBVIOUS
  <2> QED
    BY <1>7, <1>8, <2>1, PutKeeps
<1>10. NoParts(f)
  BY <1>2, <1>3, ApartNoParts DEF Apart
<1>11. Ind(f, Owned(s)) = 1
  BY <1>6 DEF Ind
<1>12. WaitStep(t)
  BY <1>3, <1>9, WaitWoken
<1> QED
  BY <1>1, <1>3, <1>5, <1>6, <1>8, <1>9, <1>10, <1>11, <1>12, RefReturn

\* check_client() refuses a call.
LEMMA RefusedC ==
    ASSUME SInv, CInv, NEW t \in Threads, Refused(t) PROVE CInv'
<1>1. PICK f : f = Top(t)
  OBVIOUS
<1>2. At(t, "begin")
  BY DEF Refused
<1>3. f \in Call /\ f.pc = "begin" /\ f.s \in Sessions /\ Shape(f) /\ f \in Range(stack[t])
      /\ stack[t] # <<>> /\ wait[t] = NULL /\ f.op \in {"open", "invoke", "close", "cancel"}
  BY <1>1, <1>2, AtTop
<1>4. f.op \in {"invoke", "close"}
  BY <1>2, <1>3 DEF Shape
<1>5. PICK s \in Sessions : s = f.s
  BY <1>3
<1>6. f \in Owned(s) /\ f \notin Loading(s)
  BY <1>2, <1>3, <1>4, <1>5 DEF Owned, OwnsSession, Loading
<1>7. sess[s] # NULL /\ sess[s] \in Session /\ sess[s].ref >= 1
  BY <1>3, <1>6, RefPositive
<1>8. PutSession(t, s, [sess EXCEPT ![s] = sess[s]]) /\ Return(t)
      /\ UNCHANGED <<ctxs, heads, ctxes, single, fault>>
  <2>1. sess = [sess EXCEPT ![s] = sess[s]]
    BY DEF SInv, SessTypes, Data
  <2> QED
    BY <1>1, <1>5, <2>1 DEF Refused
<1>9. /\ SessionOnly(s) /\ sess'[s].ref = sess[s].ref - 1 /\ sess'[s].told = sess[s].told
      /\ \E W : Wake(W)
  <2>1. PICK a : a = sess[s]
    OBVIOUS
  <2> QED
    BY <1>7, <1>8, <2>1, PutKeeps
<1>10. NoParts(f)
  BY <1>2, <1>3, ApartNoParts DEF Apart
<1>11. Ind(f, Owned(s)) = 1
  BY <1>6 DEF Ind
<1>12. WaitStep(t)
  BY <1>3, <1>9, WaitWoken
<1> QED
  BY <1>1, <1>3, <1>5, <1>6, <1>8, <1>9, <1>10, <1>11, <1>12, RefReturn

\* A cancellation ends.
LEMMA CancelC ==
    ASSUME SInv, CInv, NEW t \in Threads, Cancel(t) PROVE CInv'
<1>1. PICK f : f = Top(t)
  OBVIOUS
<1>2. At(t, "cancel")
  BY DEF Cancel
<1>3. f \in Call /\ f.pc = "cancel" /\ f.s \in Sessions /\ Shape(f) /\ f \in Range(stack[t])
      /\ stack[t] # <<>> /\ wait[t] = NULL /\ f.op \in {"open", "invoke", "close", "cancel"}
  BY <1>1, <1>2, AtTop
<1>4. f.op = "cancel"
  BY <1>3 DEF Shape
<1>5. PICK s \in Sessions : s = f.s
  BY <1>3
<1>6. f \in Owned(s) /\ f \notin Loading(s)
  BY <1>3, <1>4, <1>5 DEF Owned, OwnsSession, Loading
<1>7. sess[s] # NULL /\ sess[s] \in Session /\ sess[s].ref >= 1
  BY <1>3, <1>6, RefPositive
<1>8. PICK a : a = [sess[s] EXCEPT !.cancel = TRUE]
  OBVIOUS
<1>9. a \in Session /\ a.ctx = sess[s].ctx /\ a.ref = sess[s].ref /\ a.told = sess[s].told
  BY <1>7, <1>8 DEF Session
<1>10. PutSession(t, s, [sess EXCEPT ![s] = a]) /\ Return(t)
       /\ UNCHANGED <<ctxs, heads, ctxes, single, fault>>
  <2>1. [sess EXCEPT ![s].cancel = TRUE] = [sess EXCEPT ![s] = a]
    BY <1>8
  <2> QED
    BY <1>1, <1>5, <2>1 DEF Cancel
<1>11. /\ SessionOnly(s) /\ sess'[s].ref = sess[s].ref - 1 /\ sess'[s].told = a.told
       /\ \E W : Wake(W)
  BY <1>7, <1>9, <1>10, PutKeeps
<1>12. NoParts(f)
  BY <1>3, ApartNoParts DEF Apart
<1>13. Ind(f, Owned(s)) = 1
  BY <1>6 DEF Ind
<1>14. WaitStep(t)
  BY <1>3, <1>11, WaitWoken
<1> QED
  BY <1>1, <1>3, <1>5, <1>6, <1>9, <1>10, <1>11, <1>12, <1>13, <1>14, RefReturn

\* The wait for the lock of a session is over, or not.
LEMMA LockC ==
    ASSUME SInv, CInv, NEW t \in Threads, Lock(t) PROVE CInv'
<1>1. PICK f : f = Top(t)
  OBVIOUS
<1>2. At(t, "lock")
  BY DEF Lock
<1>3. f \in Call /\ f.pc = "lock" /\ f.s \in Sessions /\ Shape(f) /\ f \in Range(stack[t])
      /\ FrameOK(f)
      /\ stack[t] # <<>> /\ wait[t] = NULL /\ f.op \in {"open", "invoke", "close", "cancel"}
  BY <1>1, <1>2, AtTop
<1>4. f.op \in {"invoke", "close"}
  BY <1>3 DEF Shape
<1>5. PICK s \in Sessions : s = f.s
  BY <1>3
<1>6. f \in Owned(s) /\ f \notin Loading(s)
  BY <1>3, <1>4, <1>5 DEF Owned, OwnsSession, Loading
<1>7. sess[s] # NULL /\ sess[s] \in Session /\ sess[s].ref \in Nat /\ sess[s].ref >= 1
  BY <1>3, <1>6, RefPositive
<1>8. UNCHANGED <<ctxs, heads, ctxes, single, fault>> /\ sess \in [Sessions -> Session \cup {NULL}]
  BY DEF Lock, SInv, SessTypes, Data
<1>9. CASE sess' = [sess EXCEPT ![s].ref = @ - 1] /\ (\E W : Wake(W)) /\ Return(t)
  <2>1. PICK k : k = [sess[s] EXCEPT !.ref = sess[s].ref - 1]
    OBVIOUS
  <2>2. /\ k \in Session /\ k.ctx = sess[s].ctx /\ k.ref = sess[s].ref - 1
        /\ k.told = sess[s].told
    BY <2>1, <1>7 DEF Session
  <2>3. sess'[s] = k /\ (\A r \in Sessions \ {s} : sess'[r] = sess[r]) /\ k # NULL
    BY <1>8, <1>9, <2>1, <2>2, NullAssumption
  <2>4. SessionOnly(s)
    BY <1>7, <1>8, <2>2, <2>3 DEF SessionOnly
  <2>5. WaitStep(t)
    BY <1>3, <1>9, WaitWoken
  <2>6. NoParts(f)
    BY <1>3, ApartNoParts DEF Apart
  <2>7. Ind(f, Owned(s)) = 1
    BY <1>6 DEF Ind
  <2> QED
    BY <1>1, <1>3, <1>5, <1>6, <1>9, <2>2, <2>3, <2>4, <2>5, <2>6, <2>7, RefReturn
<1>10. CASE WaitFor(t, <<"lock", s>>) /\ UNCHANGED <<sess, stack>>
  <2>1. PICK cv : cv = <<"lock", s>>
    OBVIOUS
  <2>2. cv \in Condvars /\ Waits(Top(t), cv)
    BY <1>1, <1>3, <1>5, <2>1 DEF Condvars, Waits
  <2> QED
    BY <1>3, <1>8, <1>10, <2>1, <2>2, WaitForOne
<1>11. CASE sess' = [sess EXCEPT ![s].lock = t] /\ Goto(t, "begin") /\ UNCHANGED wait
  <2>1. PICK k : k = [sess[s] EXCEPT !.lock = t]
    OBVIOUS
  <2>2. /\ k \in Session /\ k.ctx = sess[s].ctx /\ k.ref = sess[s].ref
        /\ k.told = sess[s].told
    BY <2>1, <1>7 DEF Session
  <2>3. sess' = [sess EXCEPT ![s] = k]
    BY <1>11, <2>1
  <2>4. SessionOnly(s) /\ sess'[s].ref = sess[s].ref /\ (sess'[s].told <=> sess[s].told)
    BY <1>7, <1>8, <2>2, <2>3, SessionField
  <2>5. PICK g : g = [f EXCEPT !.pc = "begin"]
    OBVIOUS
  <2>6. Variant(f, g) /\ g.pc = "begin" /\ g.c = f.c /\ g.res = f.res
    BY <2>5, <1>3, Labels, CallFields
  <2>7. stack' = [stack EXCEPT ![t] = <<g>> \o Tail(stack[t])]
    BY <1>1, <1>11, <2>5 DEF Goto, Become
  <2>8. WaitStep(t)
    BY <1>3, <1>11, WaitSame
  <2>9. Alike(f, g)
    BY <1>3, <1>4, <2>6, AlikeApart DEF Apart
  <2>10. FrameOK(g)
    BY <1>3, <2>6 DEF FrameOK, InCtx, Variant
  <2> QED
    BY <1>1, <1>3, <1>5, <2>4, <2>6, <2>7, <2>8, <2>9, <2>10, QuietMove
<1> QED
  BY <1>1, <1>5, <1>9, <1>10, <1>11 DEF Lock
\* Who may call has the thread, and runs the context of the list.
LEMMA MayCallHosts ==
    ASSUME SInv, CInv, NEW t \in Threads, NEW h \in Heads, MayCall(t, h), NEW g, g.h = h
    PROVE  Hosted(stack[t], g) /\ wait[t] = NULL
<1>1. CASE stack[t] = <<>>
  <2>1. wait[t] = NULL
    BY <1>1, NoWait
  <2> QED
    BY <1>1, <2>1 DEF MayCall, Hosted
<1>2. CASE stack[t] # <<>>
  <2>1. At(t, "run") /\ Top(t).c = h
    BY <1>2 DEF MayCall
  <2>2. PICK f : f = Top(t)
    OBVIOUS
  <2>3. f \in Range(stack[t]) /\ f.pc = "run" /\ wait[t] = NULL
    BY <2>1, <2>2, AtTop
  <2> QED
    BY <2>1, <2>2, <2>3 DEF Hosted, Hosts
<1> QED
  BY <1>1, <1>2

\* A new call that may own a reference.
LEMMA RefPush ==
    ASSUME SInv, CInv, NEW t \in Threads, NEW g \in Call, Hosted(stack[t], g),
           stack' = [stack EXCEPT ![t] = <<g>> \o stack[t]],
           NEW s \in Sessions, s = g.s, SessionOnly(s), NoParts(g), g \notin Opening(s),
           sess'[s].ref = sess[s].ref + Ind(g, Owned(s)), sess'[s].told => sess[s].told,
           Cnt(stack, Opening(s)) = 0, Cnt(stack, Closing(s)) + Ind(g, Closing(s)) <= 1,
           FrameOK(g), WaitStep(t)
    PROVE  CInv'
<1>1. BelowOK' /\ \E R : Moves(t, R, NoCall, g, NoCall)
  BY PushMoves DEF CInv
<1>2. PICK R : Moves(t, R, NoCall, g, NoCall)
  BY <1>1
<1>3. NoParts(NoCall) /\ NoCall \notin Call /\ NoCall \notin Opening(s) /\ NoCall \notin Owned(s)
      /\ NoCall \notin Loading(s)
  BY OwnPart, NoCallType, Kinds DEF NoParts
<1>4. sess'[s].ref = sess[s].ref - Ind(NoCall, Owned(s)) + Ind(g, Owned(s)) + Ind(NoCall, Owned(s))
  <2>1. Ind(NoCall, Owned(s)) = 0
    BY NoCallInd, Kinds
  <2>2. sess[s].ref \in Nat
    BY DEF SessionOnly, SInv, SessTypes, Data, Session
  <2>3. Ind(g, Owned(s)) \in 0..1
    BY DEF Ind
  <2> QED
    BY <2>1, <2>2, <2>3
<1>5. Cnt(stack', Opening(s)) + Cnt(stack', Closing(s)) <= 1
  <2>1. PICK a, a1, b, b1, i : /\ a = Cnt(stack, Opening(s)) /\ a1 = Cnt(stack', Opening(s))
                               /\ b = Cnt(stack, Closing(s)) /\ b1 = Cnt(stack', Closing(s))
                               /\ i = Ind(g, Closing(s))
    OBVIOUS
  <2>2. Ind(NoCall, Opening(s)) = 0 /\ Ind(NoCall, Closing(s)) = 0 /\ Ind(g, Opening(s)) = 0
    BY NoCallInd, Kinds DEF Ind
  <2>6. a \in Nat /\ a1 \in Nat /\ a1 = a
    <3>1. PICK F : F = Opening(s)
      OBVIOUS
    <3>2. F \in SUBSET Call /\ Ind(NoCall, F) = 0 /\ Ind(g, F) = 0
      BY <2>2, <3>1, Kinds
    <3>3. /\ Cnt(R, F) \in Nat /\ Cnt(stack, F) = Cnt(R, F) + Ind(NoCall, F)
          /\ Cnt(stack', F) = Cnt(R, F) + Ind(g, F) + Ind(NoCall, F)
      BY <1>2, <3>2, NoCallInd DEF Moves
    <3> QED
      BY <2>1, <3>1, <3>2, <3>3
  <2>7. b \in Nat /\ b1 \in Nat /\ i \in 0..1 /\ b1 = b + i
    <3>1. PICK F : F = Closing(s)
      OBVIOUS
    <3>2. F \in SUBSET Call /\ Ind(NoCall, F) = 0
      BY <2>2, <3>1, Kinds
    <3>4. Ind(g, F) \in 0..1
      BY DEF Ind
    <3>3. /\ Cnt(R, F) \in Nat /\ Cnt(stack, F) = Cnt(R, F) + Ind(NoCall, F)
          /\ Cnt(stack', F) = Cnt(R, F) + Ind(g, F) + Ind(NoCall, F) /\ Ind(g, F) \in 0..1
      BY <1>2, <3>2, <3>4 DEF Moves
    <3> QED
      BY <2>1, <3>1, <3>2, <3>3
  <2>3. a \in Nat /\ a1 \in Nat /\ b \in Nat /\ b1 \in Nat /\ i \in 0..1 /\ a1 = a /\ b1 = b + i
    BY <2>6, <2>7
  <2>4. a = 0 /\ b + i <= 1
    BY <2>1
  <2>5. a1 + b1 <= 1
    BY <2>3, <2>4
  <2> QED
    BY <2>1, <2>5
<1> QED
  BY <1>1, <1>2, <1>3, <1>4, <1>5, RefMove

\* The call with its reference after tee_ta_get_session().
GetResult(t, f, rest, s, g) ==
    /\ g \in Call /\ g.op = f.op /\ g.s = s /\ g.h = f.h /\ g.c = f.c /\ g.res = f.res
    /\ g.pc \in {"begin", "lock"}
    /\ stack' = [stack EXCEPT ![t] = <<g>> \o rest]
    /\ SessionOnly(s) /\ sess'[s].ref = sess[s].ref + 1 /\ sess'[s].told = sess[s].told
    /\ WaitStep(t)

\* tee_ta_get_session() takes a reference and changes no other part of a session.
LEMMA GetKeeps ==
    ASSUME SInv, CInv, NEW t \in Threads, NEW s \in Sessions, sess[s] # NULL, NEW f \in Call,
           NEW rest \in Seq(Call), wait[t] = NULL, Get(t, f, rest, s)
    PROVE  \E g : GetResult(t, f, rest, s, g)
<1>1. sess[s] \in Session /\ sess \in [Sessions -> Session \cup {NULL}]
  BY DEF SInv, SessTypes, Data
<1>2. PICK free \in BOOLEAN : free = (sess[s].lock = NULL)
  OBVIOUS
<1>3. PICK l : l = IF free THEN "begin" ELSE "lock"
  OBVIOUS
<1>4. PICK g : g = [f EXCEPT !.s = s, !.pc = l]
  OBVIOUS
<1>5. g \in Call /\ g.op = f.op /\ g.s = s /\ g.h = f.h /\ g.pc = l /\ g.c = f.c /\ g.res = f.res
  <2>1. l \in PC
    BY <1>3, Labels
  <2> QED
    BY <2>1, <1>4 DEF Call
<1>6. PICK m : m = IF free THEN t ELSE sess[s].lock
  OBVIOUS
<1>7. PICK k : k = [sess[s] EXCEPT !.ref = sess[s].ref + 1, !.lock = m]
  OBVIOUS
<1>8. k \in Session /\ k.ctx = sess[s].ctx /\ k.ref = sess[s].ref + 1 /\ k.told = sess[s].told
  <2>1. m \in Threads \cup {NULL} /\ sess[s].ref + 1 \in Nat
    BY <1>1, <1>6 DEF Session
  <2> QED
    BY <2>1, <1>1, <1>7 DEF Session
<1>9. sess' = [sess EXCEPT ![s] = k] /\ UNCHANGED <<ctxs, heads, ctxes, single, fault>>
  BY <1>1, <1>2, <1>6, <1>7 DEF Get
<1>10. sess'[s] = k /\ (\A r \in Sessions \ {s} : sess'[r] = sess[r]) /\ k # NULL
  BY <1>1, <1>8, <1>9, NullAssumption
<1>11. SessionOnly(s)
  BY <1>8, <1>9, <1>10 DEF SessionOnly
<1>12. stack' = [stack EXCEPT ![t] = <<g>> \o rest]
  BY <1>2, <1>3, <1>4 DEF Get
<1>13. WaitStep(t)
  <2>1. CASE free
    <3>1. wait' = wait
      BY <1>2, <2>1 DEF Get
    <3> QED
      BY <3>1, WaitSame
  <2>2. CASE ~free
    <3>1. wait' = [wait EXCEPT ![t] = <<"lock", s>>]
      BY <1>2, <2>2 DEF Get
    <3>2. stack'[t] # <<>> /\ Head(stack'[t]) = g
      BY <1>5, <1>12, NewTop
    <3>3. <<"lock", s>> \in Condvars /\ wait \in [Threads -> Condvars \cup {NULL}]
      BY DEF Condvars, CInv, CtxTypes
    <3>4. g.pc = "lock"
      BY <1>3, <1>5, <2>2
    <3> QED
      BY <1>5, <3>1, <3>2, <3>3, <3>4 DEF WaitStep, Waits
  <2> QED
    BY <2>1, <2>2
<1>14. g.pc \in {"begin", "lock"}
  BY <1>3, <1>5
<1>15. GetResult(t, f, rest, s, g)
  BY <1>5, <1>8, <1>10, <1>11, <1>12, <1>13, <1>14 DEF GetResult
<1> QED
  BY <1>15

\* Every session of a list exists.
LEMMA Listed ==
    ASSUME SInv, NEW h \in Heads, NEW s \in Range(heads[h])
    PROVE  s \in Sessions /\ sess[s] # NULL /\ sess[s] \in Session
  BY DEF SInv, SessTypes, Data, ListsOK, Range

\* A session that the client knows is open.
LEMMA ToldOpen ==
    ASSUME CInv, NEW s \in Sessions, sess[s] # NULL, sess[s].told
    PROVE  Cnt(stack, Opening(s)) = 0
  BY DEF CInv, SessionsOK, SessionOK

\* A client invokes a command.
LEMMA InvokeC ==
    ASSUME ~AnyId, SInv, CInv, NEW t \in Threads, NEW h \in Heads, NEW s \in Sessions, Invoke(t, h, s)
    PROVE  CInv'
<1>1. PICK f : f = [CloseCall(h, s) EXCEPT !.op = "invoke"]
  OBVIOUS
<1>2. f \in Call /\ f.op = "invoke" /\ f.h = h /\ f.c = NULL /\ f.res = "none"
  BY <1>1, Labels DEF CloseCall, Call
<1>3. s \in Range(heads[h]) /\ sess[s].told /\ MayCall(t, h)
  BY DEF Invoke, Known
<1>4. sess[s] # NULL
  BY <1>3, Listed
<1>5. PICK rest : rest = stack[t]
  OBVIOUS
<1>6. Get(t, f, rest, s) /\ rest \in Seq(Call)
  BY <1>1, <1>5 DEF Invoke, SInv, SessTypes, Stacks
<1>7. wait[t] = NULL
  BY <1>2, <1>3, MayCallHosts
<1>8. PICK g : GetResult(t, f, rest, s, g)
  BY <1>2, <1>4, <1>6, <1>7, GetKeeps
<1>9. /\ g \in Call /\ g.op = "invoke" /\ g.s = s /\ g.h = h /\ g.pc \in {"begin", "lock"}
      /\ stack' = [stack EXCEPT ![t] = <<g>> \o stack[t]]
      /\ SessionOnly(s) /\ sess'[s].ref = sess[s].ref + 1 /\ sess'[s].told = sess[s].told
      /\ WaitStep(t)
  BY <1>2, <1>5, <1>8 DEF GetResult
<1>10. Hosted(stack[t], g)
  BY <1>3, <1>9, MayCallHosts
<1>11. NoParts(g)
  BY <1>9, ApartNoParts DEF Apart
<1>12. g \notin Opening(s) /\ Ind(g, Owned(s)) = 1 /\ Ind(g, Closing(s)) = 0
  BY <1>9 DEF Opening, Owned, OwnsSession, Closing, Ind
<1>13. FrameOK(g)
  BY <1>9 DEF FrameOK, InCtx
<1>14. Cnt(stack, Opening(s)) = 0
  BY <1>3, <1>4, ToldOpen
<1>15. Cnt(stack, Closing(s)) + Ind(g, Closing(s)) <= 1
  <2>1. PICK b : b = Cnt(stack, Closing(s))
    OBVIOUS
  <2>2. b \in Nat /\ 0 + b <= 1
    BY <1>4, <1>14, <2>1, CntNat DEF CInv, SessionsOK, SessionOK
  <2> QED
    BY <1>12, <2>1, <2>2
<1> QED
  BY <1>9, <1>10, <1>11, <1>12, <1>13, <1>14, <1>15, RefPush

\* A TA comes back to a session that the thread works in.
LEMMA InvokeAgainC ==
    ASSUME CInv, NEW t \in Threads, NEW h \in Heads, NEW s \in Sessions, InvokeAgain(t, h, s)
    PROVE  CInv'
  BY StopStep DEF InvokeAgain

\* Normal world cancels.
LEMMA CancelGetC ==
    ASSUME ~AnyId, SInv, CInv, NEW t \in Threads, NEW s \in Sessions, CancelGet(t, s)
    PROVE  CInv'
<1>1. NSEC \in Heads /\ s \in Range(heads[NSEC]) /\ stack[t] = <<>> /\ sess[s].told
  BY DEF CancelGet, Known, Heads
<1>2. sess[s] # NULL /\ sess[s] \in Session /\ sess \in [Sessions -> Session \cup {NULL}]
  BY <1>1, Listed DEF SInv, SessTypes, Data
<1>3. PICK g : g = [CloseCall(NSEC, s) EXCEPT !.op = "cancel", !.pc = "cancel"]
  OBVIOUS
<1>4. /\ g \in Call /\ g.op = "cancel" /\ g.pc = "cancel" /\ g.h = NSEC /\ g.s = s
  BY <1>1, <1>3, Labels DEF CloseCall, Call
<1>5. g \notin Opening(s) /\ Ind(g, Owned(s)) = 1 /\ Ind(g, Closing(s)) = 0
  BY <1>4 DEF Opening, Owned, OwnsSession, Closing, Ind
<1>6. PICK k : k = [sess[s] EXCEPT !.ref = sess[s].ref + 1]
  OBVIOUS
<1>7. /\ k \in Session /\ k.ref = sess[s].ref + 1 /\ k.ctx = sess[s].ctx /\ k.told = sess[s].told
  BY <1>2, <1>6 DEF Session
<1>8. sess'[s] = k /\ (\A r \in Sessions \ {s} : sess'[r] = sess[r]) /\ k # NULL
  BY <1>2, <1>6, <1>7, NullAssumption DEF CancelGet
<1>9. SessionOnly(s) /\ sess'[s].ref = sess[s].ref + Ind(g, Owned(s)) /\ sess'[s].told = sess[s].told
  BY <1>2, <1>5, <1>7, <1>8 DEF SessionOnly, CancelGet
<1>10. stack' = [stack EXCEPT ![t] = <<g>> \o stack[t]]
  <2>1. <<g>> \o <<>> = <<g>>
    OBVIOUS
  <2> QED
    BY <2>1, <1>1, <1>3 DEF CancelGet
<1>11. Hosted(stack[t], g) /\ NoParts(g) /\ FrameOK(g)
  <2>1. NoParts(g)
    BY <1>4, ApartNoParts DEF Apart
  <2> QED
    BY <1>4, <2>1 DEF Hosted, FrameOK, InCtx
<1>12. Cnt(stack, Opening(s)) = 0
  BY <1>1, <1>2, ToldOpen
<1>13. Cnt(stack, Closing(s)) + Ind(g, Closing(s)) <= 1
  <2>1. PICK b : b = Cnt(stack, Closing(s))
    OBVIOUS
  <2>2. b \in Nat /\ 0 + b <= 1
    BY <1>2, <1>12, <2>1, CntNat DEF CInv, SessionsOK, SessionOK
  <2> QED
    BY <1>5, <2>1, <2>2
<1>14. WaitStep(t)
  BY <1>1, NoWait, WaitSame DEF CancelGet
<1> QED
  BY <1>4, <1>5, <1>9, <1>10, <1>11, <1>12, <1>13, <1>14, RefPush
\* An open ends, or closes the session that the TA has refused.
LEMMA OpenPutC ==
    ASSUME SInv, CInv, NEW t \in Threads, OpenPut(t) PROVE CInv'
<1>1. PICK f : f = Top(t)
  OBVIOUS
<1>2. At(t, "put") /\ f.op = "open"
  BY <1>1 DEF OpenPut
<1>3. f \in Call /\ f.pc = "put" /\ f.s \in Sessions /\ Shape(f) /\ f \in Range(stack[t])
      /\ f.h \in Heads /\ stack[t] # <<>> /\ wait[t] = NULL /\ FrameOK(f)
  BY <1>1, <1>2, AtTop
<1>5. PICK s \in Sessions : s = f.s
  BY <1>3
<1>6. f \in Owned(s) /\ f \in Opening(s) /\ f \notin Loading(s) /\ f \notin Closing(s)
  BY <1>2, <1>3, <1>5 DEF Owned, OwnsSession, Loading, Opening, Closing
<1>7. sess[s] # NULL /\ sess[s] \in Session /\ sess[s].ref \in Nat /\ sess[s].ref >= 1
  BY <1>3, <1>6, RefPositive
<1>17. s \in Range(heads[f.h])
  BY <1>1, <1>2, <1>5, <1>6, AtTop
<1>8. PICK e \in {"none", "ok", "error", "busy", "panicked"} :
         e = IF ctxs[f.c].panicked THEN "panicked" ELSE f.res
  BY <1>3 DEF Call
<1>9. PICK b \in BOOLEAN : b = (e = "ok")
  OBVIOUS
<1>10. PICK a : a = [sess[s] EXCEPT !.told = b]
  OBVIOUS
<1>11. a \in Session /\ a.ctx = sess[s].ctx /\ a.ref = sess[s].ref /\ a.told = b
  BY <1>7, <1>10 DEF Session
<1>12. /\ PutSession(t, s, [sess EXCEPT ![s] = a])
       /\ UNCHANGED <<ctxs, heads, ctxes, single, fault>>
       /\ IF e = "ok" THEN Return(t)
          ELSE Calling(t, [f EXCEPT !.pc = "origin", !.res = e], CloseCall(f.h, f.s))
  <2>1. [sess EXCEPT ![s].told = b] = [sess EXCEPT ![s] = a]
    BY <1>10
  <2> QED
    BY <1>1, <1>5, <1>8, <1>9, <2>1 DEF OpenPut
<1>13. /\ SessionOnly(s) /\ sess'[s].ref = sess[s].ref - 1 /\ sess'[s].told = a.told
       /\ \E W : Wake(W)
  BY <1>7, <1>11, <1>12, PutKeeps
<1>14. NoParts(f) /\ Ind(f, Owned(s)) = 1
  <2>1. NoParts(f)
    BY <1>3, ApartNoParts DEF Apart
  <2> QED
    BY <1>6, <2>1 DEF Ind
<1>15. WaitStep(t)
  BY <1>3, <1>13, WaitWoken
<1>16. CASE e = "ok"
  BY <1>1, <1>3, <1>5, <1>6, <1>12, <1>13, <1>14, <1>15, <1>16, RefReturn
<1>18. CASE e # "ok"
  <2>1. PICK k : k = [f EXCEPT !.pc = "origin", !.res = e]
    OBVIOUS
  <2>2. Variant(f, k) /\ k.pc = "origin" /\ k \in Call /\ k.op = "open" /\ k.s = s /\ k.h = f.h
    BY <2>1, <1>2, <1>3, <1>5, <1>8, Labels DEF Call, Variant
  <2>3. PICK g : g = CloseCall(f.h, f.s)
    OBVIOUS
  <2>4. g \in Call /\ g.op = "close" /\ g.pc = "get" /\ g.h = f.h /\ g.s = s /\ g.res = "none"
    BY <2>3, <1>3, <1>5, Labels DEF CloseCall, Call
  <2>5. Calling(t, k, g)
    BY <1>12, <1>18, <2>1, <2>3
  <2>6. BelowOK' /\ \E R : Moves(t, R, f, g, k)
    BY <1>1, <1>3, <2>2, <2>4, <2>5, CallingMoves DEF CInv
  <2>7. PICK R : Moves(t, R, f, g, k)
    BY <2>6
  <2>8. g \notin Owned(s) /\ k \notin Owned(s) /\ g \in Closing(s) /\ k \notin Closing(s)
    BY <2>2, <2>4 DEF Owned, OwnsSession, Closing
  <2>9. g \notin Opening(s) /\ k \notin Opening(s)
    BY <2>8 DEF Opening
  <2>10. NoParts(g) /\ NoParts(k)
    BY <2>2, <2>4, ApartNoParts DEF Apart
  <2>11. FrameOK(g) /\ FrameOK(k)
    <3>1. f.ta \in TAs /\ k.ta = f.ta
      BY <1>2, <1>3, <2>2 DEF FrameOK, Variant
    <3> QED
      BY <2>2, <2>4, <1>7, <1>17, <3>1 DEF FrameOK, InCtx
  <2>12. sess'[s].ref = sess[s].ref - Ind(f, Owned(s)) + Ind(g, Owned(s)) + Ind(k, Owned(s))
    <3>1. Ind(g, Owned(s)) = 0 /\ Ind(k, Owned(s)) = 0
      BY <2>8 DEF Ind
    <3> QED
      BY <1>7, <1>13, <1>14, <3>1
  <2>13. Cnt(stack', Opening(s)) + Cnt(stack', Closing(s)) <= 1
    <3>1. PICK p, p1, q, q1 : /\ p = Cnt(stack, Opening(s)) /\ p1 = Cnt(stack', Opening(s))
                              /\ q = Cnt(stack, Closing(s)) /\ q1 = Cnt(stack', Closing(s))
      OBVIOUS
    <3>2. Ind(f, Opening(s)) = 1 /\ Ind(g, Opening(s)) = 0 /\ Ind(k, Opening(s)) = 0
      BY <1>6, <2>9 DEF Ind
    <3>3. p \in Nat /\ p1 \in Nat /\ p = p1 + 1
      BY <2>7, <3>1, <3>2, CntStep, Kinds
    <3>4. Ind(f, Closing(s)) = 0 /\ Ind(g, Closing(s)) = 1 /\ Ind(k, Closing(s)) = 0
      BY <1>6, <2>8 DEF Ind
    <3>5. q \in Nat /\ q1 \in Nat /\ q1 = q + 1
      BY <2>7, <3>1, <3>4, CntStep, Kinds
    <3>6. p + q <= 1
      BY <1>7, <3>1 DEF CInv, SessionsOK, SessionOK
    <3> QED
      BY <3>1, <3>3, <3>5, <3>6
  <2>14. sess'[s].told => sess[s].told \/ f \in Opening(s)
    BY <1>6
  <2> QED
    BY <1>5, <1>6, <1>13, <1>14, <1>15, <2>2, <2>4, <2>6, <2>7, <2>8, <2>9, <2>10, <2>11,
       <2>12, <2>13, <2>14, RefMove
<1> QED
  BY <1>16, <1>18

\* The sessions with one id in a list are one.
LEMMA FoundAgain ==
    ASSUME SInv, NEW h \in Heads, NEW s \in Range(heads[h]),
           NEW X \in SUBSET Find(h, sess[s].id), X # {}
    PROVE  heads[h][Min(X)] = s
<1>1. X \in SUBSET (DOMAIN heads[h])
  BY DEF Find
<1>2. PICK r : r = heads[h][Min(X)]
  OBVIOUS
<1>3. Min(X) \in X /\ r \in Range(heads[h])
  BY <1>1, <1>2, FindSession
<1>4. sess[r].id = sess[s].id
  BY <1>2, <1>3 DEF Find
<1>5. r = s
  BY <1>3, <1>4 DEF SInv, IdsNameSessions
<1> QED
  BY <1>2, <1>5

\* A client closes its session.
LEMMA CloseC ==
    ASSUME ~AnyId, SInv, CInv, NEW t \in Threads, NEW h \in Heads, NEW s \in Sessions,
           Close(t, h, s)
    PROVE  CInv'
<1>1. s \in Range(heads[h]) /\ sess[s].told /\ MayCall(t, h)
      /\ UNCHANGED <<sess, ctxs, heads, ctxes, single, wait, fault>>
  BY DEF Close, Known
<1>2. sess[s] # NULL /\ sess[s] \in Session
  BY <1>1, Listed
<1>3. heads[h][Min(Find(h, sess[s].id))] = s
  <2>1. PICK X : X = Find(h, sess[s].id)
    OBVIOUS
  <2>2. X # {}
    BY <1>1, <2>1 DEF Find, Range
  <2> QED
    BY <1>1, <2>1, <2>2, FoundAgain
<1>4. PICK g : g = CloseCall(h, s)
  OBVIOUS
<1>5. g \in Call /\ g.op = "close" /\ g.pc = "get" /\ g.h = h /\ g.s = s /\ g.res = "none"
  BY <1>4, Labels DEF CloseCall, Call
<1>6. stack' = [stack EXCEPT ![t] = <<g>> \o stack[t]]
  BY <1>3, <1>4 DEF Close
<1>7. Hosted(stack[t], g) /\ wait[t] = NULL
  BY <1>1, <1>5, MayCallHosts
<1>8. Ind(g, Owned(s)) = 0 /\ Ind(g, Closing(s)) = 1 /\ g \notin Opening(s)
  BY <1>5 DEF Owned, OwnsSession, Closing, Opening, Ind
<1>9. NoParts(g)
  BY <1>5, ApartNoParts DEF Apart
<1>10. FrameOK(g)
  BY <1>1, <1>2, <1>5 DEF FrameOK, InCtx
<1>11. SessionOnly(s) /\ sess'[s].ref = sess[s].ref /\ (sess'[s].told <=> sess[s].told)
  BY <1>1, <1>2, SessionsUnchanged
<1>12. sess'[s].ref = sess[s].ref + Ind(g, Owned(s))
  BY <1>2, <1>8, <1>11 DEF Session
<1>13. Cnt(stack, Opening(s)) = 0
  BY <1>1, <1>2, ToldOpen
<1>14. Cnt(stack, Closing(s)) = 0
  <2>1. \A u \in Threads : \A f \in Range(stack[u]) : f \notin Closing(s)
    BY DEF Close, Closing, Range
  <2>2. stack \in Stacks
    BY DEF SInv, SessTypes
  <2> QED
    BY <2>1, <2>2, CntZero
<1>15. Cnt(stack, Closing(s)) + Ind(g, Closing(s)) <= 1
  BY <1>8, <1>14
<1>16. WaitStep(t)
  BY <1>1, <1>7, WaitSame
<1> QED
  BY <1>5, <1>6, <1>7, <1>8, <1>9, <1>10, <1>11, <1>12, <1>13, <1>15, <1>16, RefPush

\* tee_ta_close_session() finds its session, or not.
LEMMA CloseGetC ==
    ASSUME SInv, CInv, NEW t \in Threads, CloseGet(t) PROVE CInv'
<1>1. PICK f : f = Top(t)
  OBVIOUS
<1>2. At(t, "get")
  BY DEF CloseGet
<1>3. f \in Call /\ f.pc = "get" /\ f.s \in Sessions /\ Shape(f) /\ f \in Range(stack[t])
      /\ f.h \in Heads /\ stack[t] # <<>> /\ wait[t] = NULL /\ FrameOK(f)
      /\ f.op \in {"open", "invoke", "close", "cancel"}
  BY <1>1, <1>2, AtTop
<1>4. f.op = "close"
  BY <1>3 DEF Shape
<1>5. PICK s \in Sessions : s = f.s
  BY <1>3
<1>6. sess[s] # NULL /\ s \in Range(heads[f.h]) /\ f.res = "none"
  BY <1>3, <1>4, <1>5 DEF FrameOK
<1>7. f \notin Owned(s) /\ f \in Closing(s) /\ f \notin Loading(s) /\ f \notin Opening(s)
  BY <1>3, <1>4, <1>5 DEF Owned, OwnsSession, Closing, Loading, Opening
<1>8. NoParts(f)
  BY <1>3, ApartNoParts DEF Apart
<1>9. PICK found : found = {i \in Find(f.h, sess[f.s].id) : ~sess[heads[f.h][i]].unlink}
  OBVIOUS
<1>10. CASE found = {}
  <2>1. Return(t) /\ UNCHANGED <<sess, ctxs, heads, ctxes, single, wait, fault>>
    BY <1>1, <1>9, <1>10 DEF CloseGet
  <2>2. SessionOnly(s) /\ sess'[s].ref = sess[s].ref /\ (sess'[s].told <=> sess[s].told)
    BY <1>6, <2>1, SessionsUnchanged
  <2>3. sess[s].ref \in Nat /\ Ind(f, Owned(s)) = 0
    BY <1>6, <1>7 DEF SInv, SessTypes, Data, Session, Ind
  <2>4. sess'[s].ref = sess[s].ref - Ind(f, Owned(s))
    BY <2>2, <2>3
  <2>5. WaitStep(t)
    BY <1>3, <2>1, WaitSame
  <2> QED
    BY <1>1, <1>3, <1>5, <1>7, <1>8, <2>1, <2>2, <2>4, <2>5, RefReturn
<1>11. CASE found # {}
  <2>1. heads[f.h][Min(found)] = s
    <3>1. PICK h \in Heads : h = f.h
      BY <1>3
    <3>2. found \in SUBSET Find(h, sess[s].id) /\ s \in Range(heads[h])
      BY <1>5, <1>6, <1>9, <3>1
    <3>3. heads[h][Min(found)] = s
      BY <1>11, <3>2, FoundAgain
    <3> QED
      BY <3>1, <3>3
  <2>2. PICK rest : rest = Tail(stack[t])
    OBVIOUS
  <2>3. Stop("assert") \/ Get(t, f, rest, s)
    BY <1>1, <1>9, <1>11, <2>1, <2>2 DEF CloseGet
  <2>4. CASE Stop("assert")
    BY <2>4, StopStep
  <2>5. CASE Get(t, f, rest, s)
    <3>1. rest \in Seq(Call)
      BY <1>3, <2>2, TopCall
    <3>2. PICK g : GetResult(t, f, rest, s, g)
      BY <1>3, <1>6, <2>5, <3>1, GetKeeps
    <3>3. /\ g \in Call /\ g.op = "close" /\ g.s = s /\ g.h = f.h /\ g.pc \in {"begin", "lock"}
          /\ g.res = "none"
          /\ stack' = [stack EXCEPT ![t] = <<g>> \o Tail(stack[t])]
          /\ SessionOnly(s) /\ sess'[s].ref = sess[s].ref + 1 /\ sess'[s].told = sess[s].told
          /\ WaitStep(t)
      BY <1>4, <1>6, <2>2, <3>2 DEF GetResult
    <3>4. BelowOK' /\ \E R : Moves(t, R, f, g, NoCall)
      BY <1>1, <1>3, <3>3, BecomeMoves DEF CInv
    <3>5. PICK R : Moves(t, R, f, g, NoCall)
      BY <3>4
    <3>6. NoParts(NoCall) /\ NoCall \notin Call /\ NoCall \notin Opening(s) /\ NoCall \notin Owned(s)
      BY OwnPart, NoCallType, Kinds DEF NoParts
    <3>7. NoParts(g)
      BY <3>3, ApartNoParts DEF Apart
    <3>8. g \in Owned(s) /\ g \in Closing(s) /\ g \notin Opening(s)
      BY <3>3 DEF Owned, OwnsSession, Closing, Opening
    <3>9. FrameOK(g)
      BY <3>3 DEF FrameOK, InCtx
    <3>10. PICK p, p1, q, q1 : /\ p = Cnt(stack, Opening(s)) /\ p1 = Cnt(stack', Opening(s))
                               /\ q = Cnt(stack, Closing(s)) /\ q1 = Cnt(stack', Closing(s))
      OBVIOUS
    <3>11. p1 = p /\ p \in Nat
      <4>1. Ind(f, Opening(s)) = 0 /\ Ind(g, Opening(s)) = 0 /\ Ind(NoCall, Opening(s)) = 0
        BY <1>7, <3>6, <3>8 DEF Ind
      <4> QED
        BY <3>5, <3>10, <4>1, CountSame, Kinds
    <3>12. q1 = q /\ q \in Nat /\ q > 0
      <4>1. PICK F : F = Closing(s)
        OBVIOUS
      <4>2. Ind(f, F) = 1 /\ Ind(g, F) = 1 /\ Ind(NoCall, F) = 0 /\ F \in SUBSET Call
        BY <1>7, <3>8, <4>1, NoCallInd, Kinds DEF Ind
      <4>3. /\ Cnt(R, F) \in Nat /\ Cnt(stack, F) = Cnt(R, F) + Ind(f, F)
            /\ Cnt(stack', F) = Cnt(R, F) + Ind(g, F) + Ind(NoCall, F)
        BY <3>5, <4>2 DEF Moves
      <4> QED
        BY <3>10, <4>1, <4>2, <4>3
    <3>13. p + q <= 1
      BY <1>6, <3>10 DEF CInv, SessionsOK, SessionOK
    <3>14. Cnt(stack, Opening(s)) = 0 /\ Cnt(stack', Opening(s)) + Cnt(stack', Closing(s)) <= 1
      BY <3>10, <3>11, <3>12, <3>13
    <3>15. sess'[s].ref = sess[s].ref - Ind(f, Owned(s)) + Ind(g, Owned(s)) + Ind(NoCall, Owned(s))
      <4>1. Ind(f, Owned(s)) = 0 /\ Ind(g, Owned(s)) = 1 /\ Ind(NoCall, Owned(s)) = 0
        BY <1>7, <3>6, <3>8 DEF Ind
      <4>2. sess[s].ref \in Nat
        BY <1>6 DEF SInv, SessTypes, Data, Session
      <4> QED
        BY <3>3, <4>1, <4>2
    <3> QED
      BY <1>5, <1>7, <1>8, <3>3, <3>4, <3>5, <3>6, <3>7, <3>8, <3>9, <3>14, <3>15, RefMove
  <2> QED
    BY <2>3, <2>4, <2>5
<1> QED
  BY <1>10, <1>11
\* Calls of no context are in no single instance TA.
LEMMA NoSingles ==
    ASSUME NEW f, NoParts(f) PROVE \A K : f \notin InSingle(K) /\ Ind(f, InSingle(K)) = 0
<1>1. \A K : f \notin InSingle(K)
  BY DEF NoParts, InSingle
<1> QED
  BY <1>1 DEF Ind

\* NoCall has no part anywhere.
LEMMA NoCallParts == NoParts(NoCall) /\ \A s, d : Tied(NoCall, s, d)
  BY OwnPart, NoCallType DEF NoParts, Tied

\* The end of an open that failed.
LEMMA OpenEndC ==
    ASSUME SInv, CInv, NEW t \in Threads, OpenEnd(t) PROVE CInv'
<1>1. PICK f : f = Top(t)
  OBVIOUS
<1>2. PICK l \in {"dead", "origin"} : At(t, l)
  BY DEF OpenEnd
<1>3. f \in Call /\ f.pc = l /\ f.s \in Sessions /\ Shape(f)
      /\ stack[t] # <<>> /\ wait[t] = NULL /\ FrameOK(f)
      /\ f.op \in {"open", "invoke", "close", "cancel"}
  BY <1>1, <1>2, AtTop
<1>4. f.op = "open" /\ f.pc = "origin"
  BY <1>2, <1>3 DEF Shape, FrameOK
<1>5. PICK s \in Sessions : s = f.s
  BY <1>3
<1>6. UNCHANGED <<sess, ctxs, heads, ctxes, single, wait, fault>> /\ Return(t)
  BY DEF OpenEnd
<1>7. BelowOK' /\ \E R : Moves(t, R, f, NoCall, NoCall)
  BY <1>1, <1>3, <1>6, ReturnMoves DEF CInv
<1>8. PICK R : Moves(t, R, f, NoCall, NoCall)
  BY <1>7
<1>9. NoParts(f)
  BY <1>4, ApartNoParts DEF Apart
<1>10. f \notin Owned(s) /\ f \notin Closing(s)
  BY <1>4 DEF Owned, OwnsSession, Closing
<1>11. f \notin Opening(s) /\ f \notin Loading(s)
  BY <1>10 DEF Opening, Loading
<1>12. ASSUME NEW F \in SUBSET Call, f \notin F PROVE Cnt(stack', F) = Cnt(stack, F)
  <2>1. Ind(f, F) = 0 /\ Ind(NoCall, F) = 0
    BY <1>12, NoCallInd DEF Ind
  <2> QED
    BY <1>8, <2>1, CountSame
<1>13. SessionOK(s)'
  <2>1. /\ Cnt(stack', Owned(s)) = Cnt(stack, Owned(s))
        /\ Cnt(stack', Opening(s)) = Cnt(stack, Opening(s))
        /\ Cnt(stack', Closing(s)) = Cnt(stack, Closing(s))
        /\ Cnt(stack', Loading(s)) = Cnt(stack, Loading(s))
    BY <1>10, <1>11, <1>12, Kinds
  <2>2. SessionOK(s)
    BY DEF CInv, SessionsOK
  <2> QED
    BY <1>6, <2>1, <2>2 DEF SessionOK
<1>14. PICK d : d = NULL
  OBVIOUS
<1>15. Tied(f, s, d) /\ Tied(NoCall, s, d)
  BY <1>5, <1>9, NoCallParts DEF Tied, NoParts
<1>16. StepAt(t, R, s, d, f, NoCall, NoCall)
  BY <1>6, <1>8, <1>14, <1>15, NotNull DEF StepAt
<1>17. RestKept(R, s, d)
  BY <1>6, <1>14, NotNull DEF RestKept, SessKept
<1>18. SingleOK'
  <2>1. SinglesSame
    BY <1>6 DEF SinglesSame
  <2>2. Ind(f, InSingle(ctxs)) = Ind(NoCall, InSingle(ctxs)) + Ind(NoCall, InSingle(ctxs))
    <3>1. Ind(f, InSingle(ctxs)) = 0 /\ Ind(NoCall, InSingle(ctxs)) = 0
      BY <1>9, NoSingles, NoCallParts
    <3> QED
      BY <3>1
  <2> QED
    BY <1>6, <1>8, <2>1, <2>2, SingleStays
<1>19. WaitOK'
  <2>1. WaitStep(t)
    BY <1>3, <1>6, WaitSame
  <2> QED
    BY <1>8, <2>1, WaitsStay DEF Moves
<1>20. CtxTypes' /\ NoDuplicates(ctxes')
  BY <1>6 DEF CInv, CtxTypes, CtxsOK
<1> QED
  BY <1>7, <1>13, <1>14, <1>16, <1>17, <1>18, <1>19, <1>20, NoCallType, NotNull, StepCInv

-----------------------------------------------------------------------------
(* The busy flag and the single instance lock.                             *)

\* The lock after a step.
SingleAfter(t, R, g) ==
    /\ single'.count = Cnt(stack', InSingle(ctxs))
    /\ single'.owner = NULL <=> single'.count = 0
    /\ \A u \in Threads : \A e \in Range(R[u]) : e \in InSingle(ctxs) => single'.owner = u
    /\ g \in InSingle(ctxs) => single'.owner = t

\* It is exact if the calls in single instance TAs are the same with the new
\* contexts.
LEMMA SingleStep ==
    ASSUME NEW t \in Threads, NEW R, NEW f, NEW g, Moves(t, R, f, g, NoCall),
           SinglesSame, SingleAfter(t, R, g)
    PROVE  SingleOK'
<1>1. PICK F : F = InSingle(ctxs)
  OBVIOUS
<1>6. PICK S, H : S = stack' /\ H = InSingle(ctxs')
  OBVIOUS
<1>7. \A u \in Threads : \A e \in Range(S[u]) : e \in H <=> e \in F
  BY <1>1, <1>6 DEF SinglesSame
<1>8. Cnt(S, H) = Cnt(S, F)
  BY <1>7, CntAgree
<1>9. single'.count = Cnt(S, F) /\ (single'.owner = NULL <=> single'.count = 0)
  BY <1>1, <1>6 DEF SingleAfter
<1>10. ASSUME NEW u \in Threads, NEW e \in Range(S[u]), e \in H PROVE single'.owner = u
  <2>1. e \in F
    BY <1>7, <1>10
  <2>2. e \in Range(R[u]) \/ (u = t /\ e = g)
    BY <1>6 DEF Moves
  <2> QED
    BY <1>1, <2>1, <2>2 DEF SingleAfter
<1>12. single'.count = Cnt(stack', InSingle(ctxs')) /\ InSingle(ctxs') = H
  BY <1>6, <1>8, <1>9
<1> QED
  BY <1>6, <1>9, <1>10, <1>12 DEF SingleOK

\* lock_single_instance() for a call that enters a single instance TA.
LEMMA SingleLocks ==
    ASSUME SInv, CInv, NEW t \in Threads, NEW R, NEW f, NEW g, Moves(t, R, f, g, NoCall),
           SinglesSame, f \notin InSingle(ctxs), g \in InSingle(ctxs), MayLockSingle(t),
           single' = LockedSingle(t)
    PROVE  SingleOK'
<1>1. PICK F : F = InSingle(ctxs)
  OBVIOUS
<1>2. F \in SUBSET Call
  BY <1>1, Kinds
<1>3. Ind(f, F) = 0 /\ Ind(g, F) = 1 /\ Ind(NoCall, F) = 0
  BY <1>1, <1>2, NoCallInd DEF Ind
<1>4. /\ Cnt(R, F) \in Nat /\ Cnt(stack, F) = Cnt(R, F) + Ind(f, F)
      /\ Cnt(stack', F) = Cnt(R, F) + Ind(g, F) + Ind(NoCall, F)
  BY <1>2 DEF Moves
<1>5. single.count = Cnt(stack, F)
      /\ \A u \in Threads : \A e \in Range(stack[u]) : e \in F => single.owner = u
  BY <1>1 DEF CInv, SingleOK
<1>6. single'.count = single.count + 1 /\ single'.owner = t
  BY DEF LockedSingle
<1>7. single'.count = Cnt(stack', F) /\ single'.count # 0
  BY <1>3, <1>4, <1>5, <1>6
<1>8. ASSUME NEW u \in Threads, NEW e \in Range(R[u]), e \in F PROVE t = u
  <2>1. e \in Range(stack[u])
    BY DEF Moves
  <2>2. single.owner = u
    BY <1>5, <1>8, <2>1
  <2> QED
    BY <2>2, NotNull DEF MayLockSingle
<1>9. SingleAfter(t, R, g)
  BY <1>1, <1>6, <1>7, <1>8, NotNull DEF SingleAfter
<1> QED
  BY <1>9, SingleStep

\* unlock_single_instance() for a call that leaves a single instance TA.
LEMMA SingleUnlocks ==
    ASSUME SInv, CInv, NEW t \in Threads, NEW R, NEW f, NEW g, Moves(t, R, f, g, NoCall),
           SinglesSame, f \in InSingle(ctxs), g \notin InSingle(ctxs), single' = UnlockedSingle
    PROVE  SingleOK'
<1>1. PICK F : F = InSingle(ctxs)
  OBVIOUS
<1>2. F \in SUBSET Call
  BY <1>1, Kinds
<1>3. Ind(f, F) = 1 /\ Ind(g, F) = 0 /\ Ind(NoCall, F) = 0
  BY <1>1, <1>2, NoCallInd DEF Ind
<1>4. /\ Cnt(R, F) \in Nat /\ Cnt(stack, F) = Cnt(R, F) + Ind(f, F)
      /\ Cnt(stack', F) = Cnt(R, F) + Ind(g, F) + Ind(NoCall, F) /\ R \in Stacks
  BY <1>2 DEF Moves
<1>5. single.count = Cnt(stack, F) /\ (single.owner = NULL <=> single.count = 0)
      /\ \A u \in Threads : \A e \in Range(stack[u]) : e \in F => single.owner = u
  BY <1>1 DEF CInv, SingleOK
<1>6. single'.count = single.count - 1
      /\ single'.owner = IF single.count = 1 THEN NULL ELSE single.owner
  BY DEF UnlockedSingle
<1>7. single'.count = Cnt(R, F) /\ single'.count = Cnt(stack', F) /\ single.count = Cnt(R, F) + 1
  BY <1>3, <1>4, <1>5, <1>6
<1>8. single'.owner = NULL <=> single'.count = 0
  BY <1>4, <1>5, <1>6, <1>7
<1>9. ASSUME NEW u \in Threads, NEW e \in Range(R[u]), e \in F PROVE single'.owner = u
  <2>1. e \in Range(stack[u])
    BY DEF Moves
  <2>2. single.owner = u
    BY <1>5, <1>9, <2>1
  <2>3. Cnt(R, F) # 0
    BY <1>4, <1>9, CntZero
  <2>4. single.count # 1
    <3>1. PICK n \in Nat : n = Cnt(R, F)
      BY <1>4
    <3>2. n # 0 /\ single.count = n + 1
      BY <1>7, <2>3, <3>1
    <3> QED
      BY <3>2
  <2> QED
    BY <1>6, <2>2, <2>4
<1>10. SingleAfter(t, R, g)
  BY <1>1, <1>7, <1>8, <1>9 DEF SingleAfter
<1> QED
  BY <1>10, SingleStep

\* f and g have the same part in every session.
SameSessions(f, g) ==
    \A s \in Sessions : /\ f \in Owned(s) <=> g \in Owned(s)
                        /\ f \in Opening(s) <=> g \in Opening(s)
                        /\ f \in Closing(s) <=> g \in Closing(s)
                        /\ f \in Loading(s) <=> g \in Loading(s)

\* The context d may become busy or free.
BusyOnly(d) ==
    /\ \A c \in Ctxs \ {d} : ctxs'[c] = ctxs[c]
    /\ ctxs[d] # NULL /\ ctxs' \in [Ctxs -> Ctx \cup {NULL}] /\ ctxs'[d] # NULL
    /\ ctxs'[d].ta = ctxs[d].ta /\ ctxs'[d].ref = ctxs[d].ref /\ ctxs'[d].init = ctxs[d].init
    /\ ctxs'[d].panicked = ctxs[d].panicked
    /\ single' \in [owner : Threads \cup {NULL}, count : Nat]
    /\ UNCHANGED <<sess, heads, ctxes, fault>>

\* A call enters or leaves its context.
LEMMA BusyMove ==
    ASSUME SInv, CInv, NEW t \in Threads, NEW R, NEW f \in Call, NEW g \in Call,
           Moves(t, R, f, g, NoCall), BelowOK', NEW s \in Sessions, s = f.s, g.s = s,
           NEW d \in Ctxs, d = f.c, g.c = d, SameSessions(f, g),
           f \in Leaving(d) <=> g \in Leaving(d), f \notin Destroying(d), g \notin Destroying(d),
           BusyOnly(d),
           ctxs[d].ta \notin Concurrent =>
              Cnt(stack', InsideOf(d)) = IF ctxs'[d].busy THEN 1 ELSE 0,
           FrameOK(g), SingleOK', WaitStep(t)
    PROVE  CInv'
<1>1. ASSUME NEW F \in SUBSET Call, f \in F <=> g \in F
      PROVE  Cnt(stack', F) = Cnt(stack, F)
  <2>1. Ind(f, F) = Ind(g, F) /\ Ind(NoCall, F) = 0 /\ Ind(g, F) \in Nat
    BY <1>1, NoCallInd DEF Ind
  <2>2. /\ Cnt(R, F) \in Nat
        /\ Cnt(stack, F) = Cnt(R, F) + Ind(f, F)
        /\ Cnt(stack', F) = Cnt(R, F) + Ind(g, F) + Ind(NoCall, F)
    BY DEF Moves
  <2> QED
    BY <2>1, <2>2
<1>2. UNCHANGED <<sess, heads, ctxes, fault>>
  BY DEF BusyOnly
<1>3. \A c \in Ctxs : ctxs'[c].init = ctxs[c].init /\ (ctxs'[c] = NULL <=> ctxs[c] = NULL)
  BY DEF BusyOnly
<1>4. SessionOK(s)'
  <2>1. /\ Cnt(stack', Owned(s)) = Cnt(stack, Owned(s))
        /\ Cnt(stack', Opening(s)) = Cnt(stack, Opening(s))
        /\ Cnt(stack', Closing(s)) = Cnt(stack, Closing(s))
        /\ Cnt(stack', Loading(s)) = Cnt(stack, Loading(s))
    BY <1>1, Kinds DEF SameSessions
  <2>2. SessionOK(s)
    BY DEF CInv, SessionsOK
  <2>3. sess[s] # NULL => sess[s].ctx \in Ctxs \cup {NULL}
    BY DEF SInv, SessTypes, Data, Session
  <2> QED
    BY <1>2, <1>3, <2>1, <2>2, <2>3 DEF SessionOK
<1>5. CtxOK(d)'
  <2>1. /\ Cnt(stack', Leaving(d)) = Cnt(stack, Leaving(d))
        /\ Cnt(stack', Destroying(d)) = Cnt(stack, Destroying(d))
    BY <1>1, Kinds
  <2>2. CtxOK(d)
    BY DEF CInv, CtxsOK
  <2>3. SessionsOf(d)' = SessionsOf(d)
    BY <1>2 DEF SessionsOf
  <2> QED
    BY <1>2, <2>1, <2>2, <2>3 DEF CtxOK, BusyOnly
<1>6. Tied(f, s, d) /\ Tied(g, s, d) /\ Tied(NoCall, s, d)
  BY OwnPart, NoCallParts DEF Tied
<1>7. StepAt(t, R, s, d, f, g, NoCall)
  BY <1>2, <1>3, <1>6 DEF StepAt, BusyOnly
<1>8. RestKept(R, s, d)
  BY <1>2, <1>3 DEF RestKept, SessKept
<1>9. FrameOK(g)'
  <2>1. g.pc = "loading" => ctxs'[g.c].init = ctxs[g.c].init
    BY <1>3
  <2> QED
    BY <1>2, <2>1 DEF FrameOK
<1>10. WaitOK'
  BY WaitsStay DEF Moves
<1>11. CtxTypes' /\ NoDuplicates(ctxes')
  BY <1>2 DEF CInv, CtxTypes, CtxsOK, BusyOnly, WaitStep
<1> QED
  BY <1>4, <1>5, <1>7, <1>8, <1>9, <1>10, <1>11, NoCallType, StepCInv
\* What is known of a call that is to enter its context.
Enters(t, f, g, s, d) ==
    /\ f = Top(t) /\ f \in Call /\ g \in Call /\ s = f.s /\ g.s = s /\ d = f.c /\ g.c = d
    /\ s \in Sessions /\ d \in Ctxs /\ g.h = f.h /\ ctxs[d] \in Ctx
    /\ stack[t] # <<>> /\ wait[t] = NULL /\ sess[s] # NULL /\ sess[s].ctx = d
    /\ SameSessions(f, g) /\ f \notin Leaving(d) /\ g \notin Leaving(d)
    /\ f \notin Destroying(d) /\ g \notin Destroying(d)
    /\ f \notin InsideOf(d) /\ g \in InsideOf(d) /\ FrameOK(g)
    /\ stack' = [stack EXCEPT ![t] = <<g>> \o Tail(stack[t])]

\* A call enters the context of its session.
LEMMA EntersCtx ==
    ASSUME SInv, CInv, NEW t \in Threads, At(t, "setbusy"), Goto(t, "enter")
    PROVE  \E f, g, s, d : Enters(t, f, g, s, d)
<1>1. PICK f : f = Top(t)
  OBVIOUS
<1>2. f \in Call /\ f.pc = "setbusy" /\ f.s \in Sessions /\ Shape(f)
      /\ stack[t] # <<>> /\ wait[t] = NULL /\ FrameOK(f) /\ f.c \in Ctxs \cup {NULL}
      /\ f.op \in {"open", "invoke", "close", "cancel"}
  BY <1>1, AtTop
<1>3. f.op \in {"open", "invoke", "close"}
  BY <1>2 DEF Shape
<1>4. f.c \in Ctxs /\ sess[f.s].ctx = f.c
  BY <1>2 DEF FrameOK, InCtx
<1>5. f \in Owned(f.s)
  BY <1>2, <1>3 DEF Owned, OwnsSession
<1>6. sess[f.s] # NULL
  BY <1>1, <1>5, AtTop
<1>7. PICK g : g = [f EXCEPT !.pc = "enter"]
  OBVIOUS
<1>8. Variant(f, g) /\ g.pc = "enter" /\ g.c = f.c /\ g.res = f.res
  BY <1>2, <1>7, CallFields, Labels
<1>9. g \in Call /\ g.op = f.op /\ g.s = f.s /\ g.h = f.h /\ g.ta = f.ta
  BY <1>8 DEF Variant
<1>10. stack' = [stack EXCEPT ![t] = <<g>> \o Tail(stack[t])]
  BY <1>1, <1>7 DEF Goto, Become
<1>11. FrameOK(g)
  BY <1>2, <1>8, <1>9 DEF FrameOK, InCtx
<1>12. ASSUME NEW s
       PROVE  /\ f \in Owned(s) <=> g \in Owned(s)
              /\ f \in Closing(s) <=> g \in Closing(s)
  BY <1>2, <1>3, <1>8, <1>9 DEF Owned, OwnsSession, Closing
<1>13. ASSUME NEW s
       PROVE  /\ f \in Opening(s) <=> g \in Opening(s)
              /\ f \in Loading(s) <=> g \in Loading(s)
  BY <1>2, <1>8, <1>9, <1>12 DEF Opening, Loading
<1>14. SameSessions(f, g)
  BY <1>12, <1>13 DEF SameSessions
<1>15. PICK s, d : s = f.s /\ d = f.c
  OBVIOUS
<1>16. ctxs[d] \in Ctx
  BY <1>2, <1>4, <1>6, <1>15, LiveCtx
<1>17. /\ f \notin Leaving(d) /\ g \notin Leaving(d) /\ f \notin Destroying(d)
       /\ g \notin Destroying(d) /\ f \notin InsideOf(d) /\ g \in InsideOf(d)
  BY <1>2, <1>8, <1>9, <1>15 DEF Leaving, Destroying, InsideOf, Inside
<1>18. Enters(t, f, g, s, d)
  BY <1>1, <1>2, <1>4, <1>6, <1>8, <1>9, <1>10, <1>11, <1>14, <1>15, <1>16, <1>17 DEF Enters
<1> QED
  BY <1>18

\* A call in a context that is not of a single instance TA.
LEMMA NotInSingle ==
    ASSUME NEW f, NEW d, f \in Call => f.c = d, NEW K,
           f \notin InsideOf(d) \/ K[d].ta \notin Single \/ K[d].ta \in Concurrent
    PROVE  f \notin InSingle(K) /\ Ind(f, InSingle(K)) = 0
<1>1. f \notin InSingle(K)
  BY DEF InSingle
<1> QED
  BY <1>1 DEF Ind

\* A TA with TA_FLAG_CONCURRENT is entered.
LEMMA SetBusyConcurrentC ==
    ASSUME SInv, CInv, NEW t \in Threads, SetBusyConcurrent(t) PROVE CInv'
<1>1. PICK f, g, s, d : Enters(t, f, g, s, d)
  BY EntersCtx DEF SetBusyConcurrent
<1>2. ctxs[d].ta \in Concurrent /\ UNCHANGED <<sess, ctxs, heads, ctxes, single, wait, fault>>
  BY <1>1 DEF SetBusyConcurrent, TaOf, Enters
<1>3. BelowOK' /\ \E R : Moves(t, R, f, g, NoCall)
  BY <1>1, BecomeMoves DEF CInv, Enters
<1>4. PICK R : Moves(t, R, f, g, NoCall)
  BY <1>3
<1>5. BusyOnly(d)
  <2>1. ctxs[d] # NULL
    BY <1>1, NullAssumption DEF Enters
  <2> QED
    BY <1>2, <2>1 DEF BusyOnly, CInv, CtxTypes
<1>6. SingleOK'
  <2>1. SinglesSame
    BY <1>2 DEF SinglesSame
  <2>2. Ind(f, InSingle(ctxs)) = 0 /\ Ind(g, InSingle(ctxs)) = 0 /\ Ind(NoCall, InSingle(ctxs)) = 0
    <3>1. PICK K : K = ctxs
      OBVIOUS
    <3>2. Ind(f, InSingle(K)) = 0 /\ Ind(g, InSingle(K)) = 0
      BY <1>1, <1>2, <3>1, NotInSingle DEF Enters
    <3>3. Ind(NoCall, InSingle(K)) = 0
      BY NoCallInd, Kinds
    <3> QED
      BY <3>1, <3>2, <3>3
  <2>3. Ind(f, InSingle(ctxs)) = Ind(g, InSingle(ctxs)) + Ind(NoCall, InSingle(ctxs))
    BY <2>2
  <2> QED
    BY <1>2, <1>4, <2>1, <2>3, SingleStays
<1>7. WaitStep(t)
  BY <1>1, <1>2, WaitSame DEF Enters
<1> QED
  BY <1>1, <1>2, <1>3, <1>4, <1>5, <1>6, <1>7, BusyMove DEF Enters

\* A TA that was not busy is entered.
LEMMA SetBusyC ==
    ASSUME SInv, CInv, NEW t \in Threads, SetBusy(t) PROVE CInv'
<1>1. PICK f, g, s, d : Enters(t, f, g, s, d)
  BY EntersCtx DEF SetBusy
<1>2. /\ ctxs[d].ta \notin Concurrent /\ ~ctxs[d].busy
      /\ ctxs[d].ta \in Single => MayLockSingle(t)
      /\ ctxs' = [ctxs EXCEPT ![d].busy = TRUE]
      /\ single' = IF ctxs[d].ta \in Single THEN LockedSingle(t) ELSE single
      /\ UNCHANGED <<sess, heads, ctxes, wait, fault>>
  BY <1>1 DEF SetBusy, TaOf, Enters
<1>0. f \in Call /\ g \in Call /\ f.c = d /\ g.c = d /\ d \in Ctxs /\ ctxs[d] \in Ctx
      /\ f \notin InsideOf(d) /\ g \in InsideOf(d)
  BY <1>1 DEF Enters
<1>3. BelowOK' /\ \E R : Moves(t, R, f, g, NoCall)
  BY <1>1, BecomeMoves DEF CInv, Enters
<1>4. PICK R : Moves(t, R, f, g, NoCall)
  BY <1>3
<1>5. ctxs[d] # NULL /\ ctxs \in [Ctxs -> Ctx \cup {NULL}] /\ d \in Ctxs
      /\ single \in [owner : Threads \cup {NULL}, count : Nat]
  BY <1>0, NullAssumption DEF CInv, CtxTypes
<1>6. PICK k : k = [ctxs[d] EXCEPT !.busy = TRUE]
  OBVIOUS
<1>7. k \in Ctx /\ k.ta = ctxs[d].ta /\ k.ref = ctxs[d].ref /\ k.init = ctxs[d].init
      /\ k.panicked = ctxs[d].panicked /\ k.busy
  BY <1>0, <1>6 DEF Ctx
<1>8. ctxs'[d] = k /\ ctxs' \in [Ctxs -> Ctx \cup {NULL}] /\ k # NULL
      /\ \A c \in Ctxs \ {d} : ctxs'[c] = ctxs[c]
  BY <1>2, <1>5, <1>6, <1>7, NullAssumption
<1>9. single' \in [owner : Threads \cup {NULL}, count : Nat]
  <2>1. single.count + 1 \in Nat
    BY <1>5
  <2>2. LockedSingle(t) \in [owner : Threads \cup {NULL}, count : Nat]
    BY <2>1 DEF LockedSingle
  <2> QED
    BY <1>2, <1>5, <2>2
<1>10. BusyOnly(d)
  BY <1>2, <1>5, <1>7, <1>8, <1>9 DEF BusyOnly
<1>11. SinglesSame
  BY <1>7, <1>8, SinglesStay DEF TaKept
<1>12. SingleOK'
  <2>1. CASE ctxs[d].ta \in Single
    <3>1. f \notin InSingle(ctxs) /\ g \in InSingle(ctxs)
      BY <1>0, <1>2, <2>1 DEF InSingle
    <3> QED
      BY <1>2, <1>4, <1>11, <2>1, <3>1, SingleLocks
  <2>2. CASE ctxs[d].ta \notin Single
    <3>1. PICK K : K = ctxs
      OBVIOUS
    <3>2. Ind(f, InSingle(K)) = 0 /\ Ind(g, InSingle(K)) = 0
      BY <1>0, <2>2, <3>1, NotInSingle
    <3>3. Ind(NoCall, InSingle(K)) = 0
      BY NoCallInd, Kinds
    <3>4. Ind(f, InSingle(ctxs)) = Ind(g, InSingle(ctxs)) + Ind(NoCall, InSingle(ctxs))
      BY <3>1, <3>2, <3>3
    <3> QED
      BY <1>2, <1>4, <1>11, <2>2, <3>4, SingleStays
  <2> QED
    BY <2>1, <2>2
<1>13. WaitStep(t)
  BY <1>1, <1>2, WaitSame DEF Enters
<1>14. Cnt(stack', InsideOf(d)) = IF ctxs'[d].busy THEN 1 ELSE 0
  <2>1. PICK F : F = InsideOf(d)
    OBVIOUS
  <2>2. F \in SUBSET Call /\ Ind(f, F) = 0 /\ Ind(g, F) = 1 /\ Ind(NoCall, F) = 0
    BY <1>0, <2>1, NoCallInd, Kinds DEF Ind
  <2>3. /\ Cnt(R, F) \in Nat /\ Cnt(stack, F) = Cnt(R, F) + Ind(f, F)
        /\ Cnt(stack', F) = Cnt(R, F) + Ind(g, F) + Ind(NoCall, F)
    BY <1>4, <2>2 DEF Moves
  <2>4. Cnt(stack, F) = 0
    BY <1>2, <1>5, <2>1 DEF CInv, CtxsOK, CtxOK
  <2>5. Cnt(stack', F) = 1
    BY <2>2, <2>3, <2>4
  <2> QED
    BY <1>7, <1>8, <2>1, <2>5
<1> QED
  BY <1>1, <1>3, <1>4, <1>10, <1>12, <1>13, <1>14, BusyMove DEF Enters
\* What is known of a call that leaves its context.
Leaves(t, f, g, s, d) ==
    /\ f = Top(t) /\ f \in Call /\ g \in Call /\ s = f.s /\ g.s = s /\ d = f.c /\ g.c = d
    /\ s \in Sessions /\ d \in Ctxs /\ g.h = f.h /\ ctxs[d] \in Ctx
    /\ stack[t] # <<>> /\ wait[t] = NULL
    /\ SameSessions(f, g) /\ (f \in Leaving(d) <=> g \in Leaving(d))
    /\ f \notin Destroying(d) /\ g \notin Destroying(d)
    /\ f \in InsideOf(d) /\ g \notin InsideOf(d) /\ FrameOK(g)
    /\ stack' = [stack EXCEPT ![t] = <<g>> \o Tail(stack[t])]

\* A context in which calls have a part exists.
LEMMA PartCtx ==
    ASSUME SInv, CInv, NEW u \in Threads, NEW f \in Range(stack[u]), NEW d \in Ctxs,
           f \in Leaving(d) \/ f \in Destroying(d)
    PROVE  ctxs[d] # NULL /\ ctxs[d] \in Ctx /\ CtxOK(d)
<1>1. stack \in Stacks
  BY DEF SInv, SessTypes
<1>2. Cnt(stack, Leaving(d)) # 0 \/ Cnt(stack, Destroying(d)) # 0
  BY <1>1, CntZero
<1>3. CtxOK(d)
  BY DEF CInv, CtxsOK
<1>4. ctxs[d] # NULL
  BY <1>2, <1>3 DEF CtxOK
<1> QED
  BY <1>3, <1>4 DEF CInv, CtxTypes

\* tee_ta_clear_busy() of a call.
LEMMA LeavesCtx ==
    ASSUME SInv, CInv, NEW t \in Threads, ClearBusy(t)
    PROVE  \E f, g, s, d : Leaves(t, f, g, s, d)
<1>1. PICK f : f = Top(t)
  OBVIOUS
<1>2. f \in Call /\ f.pc = "clear" /\ f.s \in Sessions /\ Shape(f) /\ f \in Range(stack[t])
      /\ stack[t] # <<>> /\ wait[t] = NULL /\ FrameOK(f) /\ f.c \in Ctxs \cup {NULL}
      /\ f.op \in {"open", "invoke", "close", "cancel"}
  BY <1>1, AtTop DEF ClearBusy
<1>3. f.op \in {"open", "invoke", "close"}
  BY <1>2 DEF Shape
<1>4. f.c \in Ctxs /\ (f.op # "close" => sess[f.s].ctx = f.c)
  BY <1>2, <1>3 DEF FrameOK, InCtx, Shape
<1>15. PICK s, d : s = f.s /\ d = f.c
  OBVIOUS
<1>16. ctxs[d] \in Ctx
  <2>1. CASE f.op # "close"
    <3>1. f \in Owned(f.s)
      BY <1>2, <1>3, <2>1 DEF Owned, OwnsSession
    <3>2. sess[s] # NULL /\ sess[s].ctx = d /\ s \in Sessions /\ d \in Ctxs
      BY <1>1, <1>2, <1>4, <1>15, <2>1, <3>1, AtTop DEF ClearBusy
    <3> QED
      BY <3>2, LiveCtx
  <2>2. CASE f.op = "close"
    <3>1. f \in Leaving(d)
      BY <1>2, <1>15, <2>2 DEF Leaving
    <3> QED
      BY <1>2, <1>4, <1>15, <3>1, PartCtx
  <2> QED
    BY <2>1, <2>2
<1>6. PICK l : l = CASE f.op = "open" -> "put"
                     [] f.op = "invoke" -> "after"
                     [] f.op = "close" -> "release"
  OBVIOUS
<1>5. /\ f.op = "open" => l = "put"
      /\ f.op = "invoke" => l = "after"
      /\ f.op = "close" => l = "release"
  BY <1>6
<1>7. PICK g : g = [f EXCEPT !.pc = l]
  OBVIOUS
<1>8. Variant(f, g) /\ g.pc = l /\ g.c = f.c /\ g.res = f.res
  <2>1. l \in PC
    BY <1>3, <1>5, Labels
  <2> QED
    BY <1>2, <1>7, <2>1, CallFields
<1>9. g \in Call /\ g.op = f.op /\ g.s = f.s /\ g.h = f.h /\ g.ta = f.ta
  BY <1>8 DEF Variant
<1>10. stack' = [stack EXCEPT ![t] = <<g>> \o Tail(stack[t])]
  <2>1. Goto(t, l)
    BY <1>1, <1>6 DEF ClearBusy
  <2> QED
    BY <1>1, <1>7, <2>1 DEF Goto, Become
<1>11. FrameOK(g)
  <2>1. CASE f.op = "open"
    BY <1>2, <1>4, <1>5, <1>8, <1>9, <2>1, NotNull DEF FrameOK, InCtx
  <2>2. CASE f.op = "invoke"
    BY <1>4, <1>5, <1>8, <1>9, <2>2, NotNull DEF FrameOK, InCtx
  <2>3. CASE f.op = "close"
    BY <1>5, <1>8, <1>9, <2>3 DEF FrameOK, InCtx
  <2> QED
    BY <1>3, <2>1, <2>2, <2>3
<1>12. ASSUME NEW r
       PROVE  /\ f \in Owned(r) <=> g \in Owned(r)
              /\ f \in Closing(r) <=> g \in Closing(r)
  BY <1>2, <1>3, <1>5, <1>8, <1>9 DEF Owned, OwnsSession, Closing
<1>13. ASSUME NEW r
       PROVE  /\ f \in Opening(r) <=> g \in Opening(r)
              /\ f \in Loading(r) <=> g \in Loading(r)
  BY <1>2, <1>3, <1>5, <1>8, <1>9, <1>12 DEF Opening, Loading
<1>14. SameSessions(f, g)
  BY <1>12, <1>13 DEF SameSessions
<1>19. f \in Leaving(d) <=> g \in Leaving(d)
  BY <1>2, <1>3, <1>5, <1>8, <1>9, <1>15 DEF Leaving
<1>20. /\ f \notin Destroying(d) /\ g \notin Destroying(d)
       /\ f \in InsideOf(d) /\ g \notin InsideOf(d)
  BY <1>2, <1>3, <1>5, <1>8, <1>9, <1>15 DEF Destroying, InsideOf, Inside
<1>18. Leaves(t, f, g, s, d)
  BY <1>1, <1>2, <1>4, <1>8, <1>9, <1>10, <1>11, <1>14, <1>15, <1>16, <1>19, <1>20 DEF Leaves
<1> QED
  BY <1>18

\* tee_ta_clear_busy(): the TA is free again, and so may be the lock.
LEMMA ClearBusyC ==
    ASSUME SInv, CInv, NEW t \in Threads, ClearBusy(t) PROVE CInv'
<1>1. PICK f, g, s, d : Leaves(t, f, g, s, d)
  BY LeavesCtx
<1>0. f \in Call /\ g \in Call /\ f.c = d /\ g.c = d /\ d \in Ctxs /\ ctxs[d] \in Ctx
      /\ f \in InsideOf(d) /\ g \notin InsideOf(d) /\ f = Top(t) /\ wait[t] = NULL
  BY <1>1 DEF Leaves
<1>2. UNCHANGED <<sess, heads, ctxes, fault>>
  BY DEF ClearBusy
<1>3. BelowOK' /\ \E R : Moves(t, R, f, g, NoCall)
  BY <1>1, BecomeMoves DEF CInv, Leaves
<1>4. PICK R : Moves(t, R, f, g, NoCall)
  BY <1>3
<1>5. ctxs[d] # NULL /\ ctxs \in [Ctxs -> Ctx \cup {NULL}] /\ d \in Ctxs
      /\ single \in [owner : Threads \cup {NULL}, count : Nat]
  BY <1>0, NullAssumption DEF CInv, CtxTypes
<1>6. CASE ctxs[d].ta \in Concurrent
  <2>1. UNCHANGED <<ctxs, single, wait>>
    BY <1>0, <1>6 DEF ClearBusy, TaOf
  <2>2. BusyOnly(d)
    BY <1>2, <1>5, <2>1 DEF BusyOnly
  <2>3. SinglesSame
    BY <2>1 DEF SinglesSame
  <2>4. SingleOK'
    <3>1. PICK K : K = ctxs
      OBVIOUS
    <3>2. Ind(f, InSingle(K)) = 0 /\ Ind(g, InSingle(K)) = 0
      BY <1>0, <1>6, <3>1, NotInSingle
    <3>3. Ind(NoCall, InSingle(K)) = 0
      BY NoCallInd, Kinds
    <3>4. Ind(f, InSingle(ctxs)) = Ind(g, InSingle(ctxs)) + Ind(NoCall, InSingle(ctxs))
      BY <3>1, <3>2, <3>3
    <3> QED
      BY <1>4, <2>1, <2>3, <3>4, SingleStays
  <2>5. WaitStep(t)
    BY <1>0, <2>1, WaitSame
  <2> QED
    BY <1>1, <1>3, <1>4, <1>6, <2>2, <2>4, <2>5, BusyMove DEF Leaves
<1>7. CASE ctxs[d].ta \notin Concurrent
  <2>1. /\ ctxs' = [ctxs EXCEPT ![d].busy = FALSE]
        /\ single' = IF ctxs[d].ta \in Single THEN UnlockedSingle ELSE single
        /\ \E W : Wake(W)
    BY <1>0, <1>7 DEF ClearBusy, TaOf
  <2>2. PICK k : k = [ctxs[d] EXCEPT !.busy = FALSE]
    OBVIOUS
  <2>3. k \in Ctx /\ k.ta = ctxs[d].ta /\ k.ref = ctxs[d].ref /\ k.init = ctxs[d].init
        /\ k.panicked = ctxs[d].panicked /\ ~k.busy
    BY <1>0, <2>2 DEF Ctx
  <2>4. ctxs'[d] = k /\ ctxs' \in [Ctxs -> Ctx \cup {NULL}] /\ k # NULL
        /\ \A c \in Ctxs \ {d} : ctxs'[c] = ctxs[c]
    BY <1>5, <2>1, <2>2, <2>3, NullAssumption
  <2>5. f \in Range(stack[t])
    BY <1>4, <1>0, NoCallType DEF Moves
  <2>6. single' \in [owner : Threads \cup {NULL}, count : Nat]
    <3>1. CASE ctxs[d].ta \in Single
      <4>1. f \in InSingle(ctxs)
        BY <1>0, <1>7, <3>1 DEF InSingle
      <4>2. PICK F : F = InSingle(ctxs)
        OBVIOUS
      <4>3. Cnt(stack, F) # 0
        BY <2>5, <4>1, <4>2, CntZero DEF SInv, SessTypes
      <4>4. single.count # 0 /\ single.count \in Nat
        BY <1>5, <4>2, <4>3 DEF CInv, SingleOK
      <4>5. single.count - 1 \in Nat
        BY <4>4
      <4>6. UnlockedSingle \in [owner : Threads \cup {NULL}, count : Nat]
        BY <1>5, <4>5 DEF UnlockedSingle
      <4> QED
        BY <2>1, <3>1, <4>6
    <3>2. CASE ctxs[d].ta \notin Single
      BY <1>5, <2>1, <3>2
    <3> QED
      BY <3>1, <3>2
  <2>7. BusyOnly(d)
    BY <1>2, <1>5, <2>3, <2>4, <2>6 DEF BusyOnly
  <2>8. SinglesSame
    BY <2>3, <2>4, SinglesStay DEF TaKept
  <2>9. SingleOK'
    <3>1. CASE ctxs[d].ta \in Single
      <4>1. f \in InSingle(ctxs) /\ g \notin InSingle(ctxs)
        BY <1>0, <1>7, <3>1 DEF InSingle
      <4> QED
        BY <1>4, <2>1, <2>8, <3>1, <4>1, SingleUnlocks
    <3>2. CASE ctxs[d].ta \notin Single
      <4>1. PICK K : K = ctxs
        OBVIOUS
      <4>2. Ind(f, InSingle(K)) = 0 /\ Ind(g, InSingle(K)) = 0
        BY <1>0, <3>2, <4>1, NotInSingle
      <4>3. Ind(NoCall, InSingle(K)) = 0
        BY NoCallInd, Kinds
      <4>4. Ind(f, InSingle(ctxs)) = Ind(g, InSingle(ctxs)) + Ind(NoCall, InSingle(ctxs))
        BY <4>1, <4>2, <4>3
      <4> QED
        BY <1>4, <2>1, <2>8, <3>2, <4>4, SingleStays
    <3> QED
      BY <3>1, <3>2
  <2>10. WaitStep(t)
    BY <1>0, <2>1, WaitWoken
  <2>11. Cnt(stack', InsideOf(d)) = IF ctxs'[d].busy THEN 1 ELSE 0
    <3>1. PICK F : F = InsideOf(d)
      OBVIOUS
    <3>2. F \in SUBSET Call /\ Ind(f, F) = 1 /\ Ind(g, F) = 0 /\ Ind(NoCall, F) = 0
      BY <1>0, <3>1, NoCallInd, Kinds DEF Ind
    <3>3. /\ Cnt(R, F) \in Nat /\ Cnt(stack, F) = Cnt(R, F) + Ind(f, F)
          /\ Cnt(stack', F) = Cnt(R, F) + Ind(g, F) + Ind(NoCall, F)
      BY <1>4, <3>2 DEF Moves
    <3>4. Cnt(stack, F) = IF ctxs[d].busy THEN 1 ELSE 0
      BY <1>5, <1>7, <3>1 DEF CInv, CtxsOK, CtxOK
    <3>5. Cnt(stack', F) = 0
      BY <3>2, <3>3, <3>4
    <3> QED
      BY <2>3, <2>4, <3>1, <3>5
  <2> QED
    BY <1>1, <1>3, <1>4, <2>7, <2>9, <2>10, <2>11, BusyMove DEF Leaves
<1> QED
  BY <1>6, <1>7

-----------------------------------------------------------------------------
(* Opening: the session gets a context.                                    *)

\* Who opens a session is alone with it.
LEMMA OpenerAlone ==
    ASSUME SInv, CInv, NEW t \in Threads, NEW R, NEW f, NEW g, NEW k, Moves(t, R, f, g, k),
           NEW s \in Sessions, f \in Opening(s)
    PROVE  /\ Untied(R, s) /\ sess[s] # NULL /\ ~sess[s].told
           /\ Cnt(R, Owned(s)) = 0 /\ Cnt(R, Opening(s)) = 0
           /\ Cnt(R, Closing(s)) = 0 /\ Cnt(R, Loading(s)) = 0
<1>1. f \in Owned(s) /\ f \in Call /\ f \in Range(stack[t]) /\ R \in Stacks
  BY NoCallType DEF Opening, Owned, Moves
<1>2. sess[s] # NULL
  BY <1>1, RefPositive
<1>3. SessionOK(s)
  BY DEF CInv, SessionsOK
<1>4. PICK o, o1, p, p1, q, q1 :
         /\ o = Cnt(R, Owned(s)) /\ o1 = Cnt(stack, Owned(s))
         /\ p = Cnt(R, Opening(s)) /\ p1 = Cnt(stack, Opening(s))
         /\ q = Cnt(R, Closing(s)) /\ q1 = Cnt(stack, Closing(s))
  OBVIOUS
<1>5. Ind(f, Owned(s)) = 1 /\ Ind(f, Opening(s)) = 1 /\ Ind(f, Closing(s)) = 0
  BY <1>1 DEF Ind, Opening, Closing
<1>6. /\ o \in Nat /\ o1 = o + 1
  BY <1>4, <1>5, CntStep, Kinds
<1>7. /\ p \in Nat /\ p1 = p + 1
  BY <1>4, <1>5, CntStep, Kinds
<1>8. /\ q \in Nat /\ q1 = q
  BY <1>4, <1>5, CntStep, Kinds
<1>9. p1 + q1 <= 1 /\ (p1 > 0 => o1 = 1) /\ (sess[s].told => p1 = 0)
  BY <1>2, <1>3, <1>4 DEF SessionOK
<1>10. o = 0 /\ p = 0 /\ q = 0 /\ ~sess[s].told
  BY <1>6, <1>7, <1>8, <1>9
<1>11. \A u \in Threads : \A e \in Range(R[u]) :
          e \notin Owned(s) /\ e \notin Opening(s) /\ e \notin Closing(s)
  BY <1>1, <1>4, <1>10, CntZero
<1>12. \A u \in Threads : \A e \in Range(R[u]) : e \notin Loading(s)
  BY <1>11 DEF Loading
<1>13. Cnt(R, Loading(s)) = 0
  BY <1>1, <1>12, CntZero
<1> QED
  BY <1>2, <1>4, <1>10, <1>11, <1>13 DEF Untied

\* Calls without a part in contexts.
LEMMA NoPartsCounts ==
    ASSUME NEW t, NEW R, NEW f, NEW g, NEW k, Moves(t, R, f, g, k), NoParts(f), NoParts(g),
           NoParts(k), NEW c \in Ctxs
    PROVE  /\ Cnt(stack', Leaving(c)) = Cnt(stack, Leaving(c))
           /\ Cnt(stack', Destroying(c)) = Cnt(stack, Destroying(c))
           /\ Cnt(stack', InsideOf(c)) = Cnt(stack, InsideOf(c))
           /\ Cnt(stack, Leaving(c)) \in Nat
<1>1. ASSUME NEW F \in SUBSET Call, f \notin F, g \notin F, k \notin F
      PROVE  Cnt(stack', F) = Cnt(stack, F) /\ Cnt(stack, F) \in Nat
  <2>1. Ind(f, F) = 0 /\ Ind(g, F) = 0 /\ Ind(k, F) = 0
    BY <1>1 DEF Ind
  <2> QED
    BY <2>1, CountSame
<1> QED
  BY <1>1, Kinds DEF NoParts

\* Who is in a context without other sessions than s owns s.
LEMMA NobodyInside ==
    ASSUME SInv, CInv, NEW t \in Threads, NEW R, NEW f, NEW g, NEW k, Moves(t, R, f, g, k),
           NEW s, NEW c \in Ctxs, SessionsOf(c) \subseteq {s},
           SessionsOf(c) = {} \/ Untied(R, s), Cnt(stack, Leaving(c)) = 0
    PROVE  \A u \in Threads : \A e \in Range(R[u]) : e \notin InsideOf(c)
<1> SUFFICES ASSUME NEW u \in Threads, NEW e \in Range(R[u]), e \in InsideOf(c) PROVE FALSE
  OBVIOUS
<1>1. e \in Range(stack[u]) /\ stack \in Stacks
  BY DEF Moves
<1>2. CallOK(u, e) /\ FrameOK(e)
  BY <1>1 DEF SInv, CallsOK, CInv, FramesOK
<1>3. e \in Call /\ e.c = c /\ Inside(e, c) /\ e.op \in {"open", "invoke", "close", "cancel"}
  BY DEF InsideOf, Inside, Call
<1>4. e \notin Leaving(c)
  BY <1>1, CntZero
<1>5. e.pc \in {"enter", "run", "clear", "unlink", "refc"} /\ (e.op = "close" => e.pc # "clear")
  BY <1>3, <1>4 DEF Inside, Leaving
<1>6. e \in Owned(e.s)
  BY <1>2, <1>3, <1>5 DEF Owned, OwnsSession, CallOK, Shape
<1>7. sess[e.s] # NULL /\ e.s \in Sessions
  BY <1>2, <1>6 DEF CallOK
<1>8. sess[e.s].ctx = c
  BY <1>2, <1>3, <1>5 DEF FrameOK, InCtx
<1>9. e.s \in SessionsOf(c)
  BY <1>7, <1>8 DEF SessionsOf
<1>10. e.s = s /\ SessionsOf(c) # {}
  BY <1>9
<1> QED
  BY <1>6, <1>10 DEF Untied

\* What a step of the call that opens s leaves of s and of the context d.
OpenerKeeps(s, d) ==
    /\ \A r \in Sessions \ {s} : sess'[r] = sess[r]
    /\ sess'[s] # NULL /\ sess'[s].ref = sess[s].ref /\ (sess'[s].told <=> sess[s].told)
    /\ sess[s].ctx \in {NULL, d} /\ sess'[s].ctx \in {NULL, d}
    /\ \A c \in Ctxs \ {d} : ctxs'[c] = ctxs[c] /\ (c \in Range(ctxes') <=> c \in Range(ctxes))
    /\ (ctxs'[d].init <=> ctxs[d].init) \/ SessionsOf(d) \subseteq {s}
    /\ NoDuplicates(ctxes') /\ ctxs' \in [Ctxs -> Ctx \cup {NULL}]
    /\ UNCHANGED <<heads, single, fault>>

\* A step of the call that opens s.
LEMMA OpenerMove ==
    ASSUME SInv, CInv, NEW t \in Threads, NEW R, NEW f, NEW g \in Call,
           Moves(t, R, f, g, NoCall), BelowOK', NEW s \in Sessions, NEW d \in Ctxs,
           f \in Opening(s), g \in Opening(s), NoParts(f), NoParts(g), OpenerKeeps(s, d),
           sess'[s].ctx # NULL /\ ctxs'[sess'[s].ctx].init => g \in Loading(s),
           CtxOK(d)', FrameOK(g)', TaKept(d), WaitStep(t)
    PROVE  CInv'
<1>1. /\ Untied(R, s) /\ sess[s] # NULL /\ ~sess[s].told
      /\ Cnt(R, Owned(s)) = 0 /\ Cnt(R, Opening(s)) = 0
      /\ Cnt(R, Closing(s)) = 0 /\ Cnt(R, Loading(s)) = 0
  BY OpenerAlone
<1>2. f.s = s /\ g.s = s /\ f \in Owned(s) /\ g \in Owned(s) /\ g \notin Closing(s)
  BY DEF Opening, Owned, OwnsSession, Closing
<1>3. /\ Cnt(stack', Owned(s)) = 1 /\ Cnt(stack, Owned(s)) = 1 /\ Cnt(stack', Opening(s)) = 1
      /\ Cnt(stack', Closing(s)) = 0 /\ (g \in Loading(s) => Cnt(stack', Loading(s)) = 1)
  <2>1. ASSUME NEW F \in SUBSET Call, Cnt(R, F) = 0
        PROVE  Cnt(stack', F) = Ind(g, F) /\ Cnt(stack, F) = Ind(f, F)
    <3>1. Ind(NoCall, F) = 0 /\ Ind(g, F) \in 0..1 /\ Ind(f, F) \in 0..1
      BY NoCallInd DEF Ind
    <3>2. /\ Cnt(stack, F) = Cnt(R, F) + Ind(f, F)
          /\ Cnt(stack', F) = Cnt(R, F) + Ind(g, F) + Ind(NoCall, F)
      BY DEF Moves
    <3> QED
      BY <2>1, <3>1, <3>2
  <2>2. Ind(g, Owned(s)) = 1 /\ Ind(f, Owned(s)) = 1 /\ Ind(g, Opening(s)) = 1
        /\ Ind(g, Closing(s)) = 0 /\ (g \in Loading(s) => Ind(g, Loading(s)) = 1)
    BY <1>2 DEF Ind
  <2> QED
    BY <1>1, <2>1, <2>2, Kinds
<1>4. SessionOK(s)'
  <2>1. sess'[s].ref = 1 /\ ~sess'[s].told /\ sess'[s] # NULL
    BY <1>1, <1>3 DEF CInv, SessionsOK, SessionOK, OpenerKeeps
  <2> QED
    BY <1>3, <2>1 DEF SessionOK
<1>5. Tied(f, s, d) /\ Tied(g, s, d) /\ Tied(NoCall, s, d)
  BY <1>2, NoCallParts DEF Tied, NoParts
<1>6. StepAt(t, R, s, d, f, g, NoCall)
  <2>1. ASSUME NEW c \in Ctxs \ {d} PROVE sess[s].ctx # c /\ sess'[s].ctx # c
    BY NotNull DEF OpenerKeeps
  <2> QED
    BY <1>5, <2>1 DEF StepAt, OpenerKeeps
<1>7. RestKept(R, s, d)
  BY <1>1 DEF RestKept, OpenerKeeps
<1>8. SingleOK'
  <2>1. SinglesSame
    BY SinglesStay DEF OpenerKeeps
  <2>2. Ind(f, InSingle(ctxs)) = 0 /\ Ind(g, InSingle(ctxs)) = 0 /\ Ind(NoCall, InSingle(ctxs)) = 0
    BY NoSingles, NoCallParts
  <2>3. Ind(f, InSingle(ctxs)) = Ind(g, InSingle(ctxs)) + Ind(NoCall, InSingle(ctxs))
    BY <2>2
  <2> QED
    BY <2>1, <2>3, SingleStays DEF OpenerKeeps
<1>9. WaitOK'
  BY WaitsStay DEF Moves
<1>10. CtxTypes'
  BY DEF CInv, CtxTypes, OpenerKeeps, WaitStep
<1> QED
  BY <1>4, <1>6, <1>7, <1>8, <1>9, <1>10, NoCallType, StepCInv DEF OpenerKeeps
\* The session gets the context x, or none.
CtxSet(s, x) ==
    /\ sess'[s] # NULL /\ sess'[s].ctx = x
    /\ sess'[s].ref = sess[s].ref /\ (sess'[s].told <=> sess[s].told)
    /\ \A r \in Sessions \ {s} : sess'[r] = sess[r]
    /\ \A c \in Ctxs : SessionsOf(c)' = IF x = c THEN SessionsOf(c) \cup {s} ELSE SessionsOf(c) \ {s}

\* A session's context is set or cleared.
LEMMA SetsCtx ==
    ASSUME SInv, NEW s \in Sessions, sess[s] # NULL, NEW x \in Ctxs \cup {NULL},
           sess' = [sess EXCEPT ![s].ctx = x]
    PROVE  CtxSet(s, x)
<1>1. sess \in [Sessions -> Session \cup {NULL}] /\ sess[s] \in Session
  BY DEF SInv, SessTypes, Data
<1>2. PICK k : k = [sess[s] EXCEPT !.ctx = x]
  OBVIOUS
<1>3. k \in Session /\ k.ctx = x /\ k.ref = sess[s].ref /\ k.told = sess[s].told
  BY <1>1, <1>2 DEF Session
<1>4. sess'[s] = k /\ k # NULL /\ \A r \in Sessions \ {s} : sess'[r] = sess[r]
  BY <1>1, <1>2, <1>3, NullAssumption
<1>5. ASSUME NEW c \in Ctxs
      PROVE  SessionsOf(c)' = IF x = c THEN SessionsOf(c) \cup {s} ELSE SessionsOf(c) \ {s}
  <2>1. SessionsOf(c)' = {r \in Sessions : sess'[r] # NULL /\ sess'[r].ctx = c}
    BY DEF SessionsOf
  <2>2. ASSUME NEW r
        PROVE  r \in SessionsOf(c)' <=> IF r = s THEN x = c ELSE r \in SessionsOf(c)
    BY <1>3, <1>4, <2>1 DEF SessionsOf
  <2> QED
    BY <2>2
<1> QED
  BY <1>3, <1>4, <1>5 DEF CtxSet

\* Before its entry an open has no part in a context.
LEMMA OpenerParts ==
    ASSUME NEW f \in Call, f.op = "open", f.pc \in {"load", "loading", "init", "opened", "fail"}
    PROVE  f \in Opening(f.s) /\ NoParts(f) /\ (f.pc = "loading" => f \in Loading(f.s))
<1>1. f \in Opening(f.s)
  BY DEF Opening, Owned, OwnsSession
<1>2. NoParts(f)
  BY DEF NoParts, Leaving, Destroying, InsideOf, Inside
<1> QED
  BY <1>1, <1>2 DEF Loading

\* What is known of a call that opens a session and becomes g.
Opens(t, f, g, s) ==
    /\ f \in Call /\ g \in Call /\ f = Top(t) /\ s = f.s /\ g.s = s /\ s \in Sessions
    /\ sess[s] # NULL /\ f \in Opening(s) /\ g \in Opening(s) /\ NoParts(f) /\ NoParts(g)
    /\ BelowOK' /\ \E R : Moves(t, R, f, g, NoCall)

\* A call that opens a session goes on.
LEMMA OpenerBecomes ==
    ASSUME SInv, CInv, NEW t \in Threads, stack[t] # <<>>, NEW f, f = Top(t), f.op = "open",
           f.pc \in {"load", "loading", "init"}, NEW g, Variant(f, g),
           g.pc \in {"load", "loading", "init", "opened", "fail"},
           stack' = [stack EXCEPT ![t] = <<g>> \o Tail(stack[t])]
    PROVE  Opens(t, f, g, f.s)
<1>1. f \in Call /\ CallOK(t, f) /\ f.s \in Sessions
  BY TopCall DEF CallOK
<1>2. g \in Call /\ g.op = "open" /\ g.s = f.s /\ g.h = f.h
  BY DEF Variant
<1>3. f \in Opening(f.s) /\ NoParts(f)
  BY <1>1, OpenerParts
<1>4. g \in Opening(f.s) /\ NoParts(g)
  BY <1>2, OpenerParts
<1>5. sess[f.s] # NULL
  BY <1>1, <1>3 DEF CallOK, Opening
<1>6. BelowOK' /\ \E R : Moves(t, R, f, g, NoCall)
  BY <1>2, BecomeMoves DEF CInv
<1> QED
  BY <1>1, <1>2, <1>3, <1>4, <1>5, <1>6 DEF Opens

\* A new context.
LEMMA LoadStartC ==
    ASSUME SInv, CInv, NEW t \in Threads, NEW d \in Ctxs, LoadStart(t, d) PROVE CInv'
<1>1. PICK f : f = Top(t)
  OBVIOUS
<1>2. At(t, "load")
  BY DEF LoadStart
<1>3. f \in Call /\ f.pc = "load" /\ Shape(f) /\ stack[t] # <<>> /\ wait[t] = NULL /\ FrameOK(f)
      /\ f.op \in {"open", "invoke", "close", "cancel"}
  BY <1>1, <1>2, AtTop
<1>4. f.op = "open"
  BY <1>3 DEF Shape
<1>5. PICK g : g = [f EXCEPT !.pc = "loading", !.c = d]
  OBVIOUS
<1>6. Variant(f, g) /\ g.pc = "loading" /\ g.c = d
  BY <1>3, <1>5, Labels DEF Call, Variant
<1>7. stack' = [stack EXCEPT ![t] = <<g>> \o Tail(stack[t])]
  BY <1>1, <1>5 DEF LoadStart, Become
<1>8. PICK s : s = f.s
  OBVIOUS
<1>9. Opens(t, f, g, s)
  BY <1>1, <1>3, <1>4, <1>6, <1>7, <1>8, OpenerBecomes
<1>10. g.s = s /\ s \in Sessions /\ sess[s] # NULL /\ f \in Opening(s) /\ g \in Opening(s)
       /\ NoParts(f) /\ NoParts(g) /\ g \in Call
  BY <1>9 DEF Opens
<1>11. PICK R : Moves(t, R, f, g, NoCall)
  BY <1>9 DEF Opens
<1>12. sess' = [sess EXCEPT ![s].ctx = d] /\ ctxs[d] = NULL /\ ctxes' = Append(ctxes, d)
       /\ UNCHANGED <<heads, single, wait, fault>>
  BY <1>1, <1>8 DEF LoadStart
<1>13. PICK k : k = [ta |-> f.ta, ref |-> 1, busy |-> FALSE, panicked |-> FALSE, init |-> TRUE]
  OBVIOUS
<1>14. k \in Ctx /\ k.ref = 1 /\ ~k.busy /\ ~k.panicked /\ k.init /\ k # NULL
  <2>1. f.ta \in TAs
    BY <1>3, <1>4 DEF FrameOK
  <2>2. k \in Ctx /\ k.ref = 1 /\ ~k.busy /\ ~k.panicked /\ k.init
    BY <1>13, <2>1 DEF Ctx
  <2> QED
    BY <2>2, NullAssumption
<1>15. ctxs'[d] = k /\ ctxs' \in [Ctxs -> Ctx \cup {NULL}] /\ \A c \in Ctxs \ {d} : ctxs'[c] = ctxs[c]
  <2>1. ctxs' = [ctxs EXCEPT ![d] = k] /\ ctxs \in [Ctxs -> Ctx \cup {NULL}]
    BY <1>1, <1>13 DEF LoadStart, CInv, CtxTypes
  <2> QED
    BY <1>14, <2>1
<1>16. CtxSet(s, d)
  BY <1>10, <1>12, SetsCtx
<1>17. CtxOK(d)
  BY DEF CInv, CtxsOK
<1>18. /\ SessionsOf(d) = {} /\ Cnt(stack, Leaving(d)) = 0 /\ Cnt(stack, Destroying(d)) = 0
       /\ d \notin Range(ctxes) /\ heads[d] = <<>>
  BY <1>12, <1>17 DEF CtxOK
<1>19. Range(ctxes') = Range(ctxes) \cup {d} /\ NoDuplicates(ctxes')
  <2>1. ctxes \in Seq(Ctxs) /\ NoDuplicates(ctxes)
    BY DEF SInv, SessTypes, Data, CInv, CtxsOK
  <2> QED
    BY <1>12, <1>18, <2>1, AppendElement
<1>20. sess[s].ctx = NULL
  BY <1>3, <1>8 DEF FrameOK
<1>21. OpenerKeeps(s, d)
  BY <1>12, <1>15, <1>16, <1>18, <1>19, <1>20 DEF OpenerKeeps, CtxSet
<1>22. g \in Loading(s)
  BY <1>6, <1>10 DEF Loading
<1>23. ASSUME NEW u \in Threads, NEW e \in Range(stack'[u]) PROVE e \notin InsideOf(d)
  <2>1. \A v \in Threads : \A x \in Range(R[v]) : x \notin InsideOf(d)
    BY <1>11, <1>18, NobodyInside
  <2>2. e \in Range(R[u]) \/ e = g
    BY <1>11 DEF Moves
  <2> QED
    BY <1>10, <2>1, <2>2 DEF NoParts
<1>24. CtxOK(d)'
  <2>1. Cnt(stack', Leaving(d)) = 0 /\ Cnt(stack', Destroying(d)) = 0
    BY <1>10, <1>11, <1>18, NoPartsCounts, NoCallParts
  <2>2. Cnt(stack', InsideOf(d)) = 0
    <3>1. PICK S : S = stack'
      OBVIOUS
    <3>2. S \in Stacks /\ \A u \in Threads : \A e \in Range(S[u]) : e \notin InsideOf(d)
      BY <1>11, <1>23, <3>1 DEF Moves
    <3>3. Cnt(S, InsideOf(d)) = 0
      BY <3>2, CntZero
    <3> QED
      BY <3>1, <3>3
  <2>3. SessionsOf(d)' = {s}
    BY <1>16, <1>18 DEF CtxSet
  <2>4. IsFiniteSet(SessionsOf(d)') /\ Cardinality(SessionsOf(d)') = 1
    BY <2>3, FS_Singleton
  <2>5. d \in Range(ctxes') /\ heads'[d] = <<>>
    BY <1>12, <1>18, <1>19
  <2> QED
    BY <1>14, <1>15, <2>1, <2>2, <2>4, <2>5 DEF CtxOK
<1>25. FrameOK(g)'
  <2>1. sess'[s].ctx = d /\ ctxs'[d].init
    BY <1>14, <1>15, <1>16 DEF CtxSet
  <2>2. g.op = "open" /\ g.s = s /\ g.ta = f.ta
    BY <1>4, <1>6, <1>8 DEF Variant
  <2>3. g.ta \in TAs
    BY <1>3, <1>4, <2>2 DEF FrameOK
  <2> QED
    BY <1>6, <2>1, <2>2, <2>3, NotNull DEF FrameOK, InCtx
<1>26. TaKept(d)
  BY <1>23 DEF TaKept
<1>27. WaitStep(t)
  BY <1>3, <1>12, WaitSame
<1> QED
  BY <1>9, <1>10, <1>11, <1>21, <1>22, <1>24, <1>25, <1>26, <1>27, OpenerMove DEF Opens
\* What is known of a context that is being loaded for s.
LoadedFor(s, d) ==
    /\ d \in Ctxs /\ sess[s].ctx = d /\ ctxs[d] # NULL /\ ctxs[d] \in Ctx /\ ctxs[d].init
    /\ ~ctxs[d].panicked /\ ctxs[d].ref = 1 /\ SessionsOf(d) = {s} /\ heads[d] = <<>>
    /\ Cnt(stack, Leaving(d)) = 0 /\ Cnt(stack, Destroying(d)) = 0 /\ d \in Range(ctxes)
    /\ CtxOK(d)

\* No other session has it.
LEMMA LoadingAlone ==
    ASSUME SInv, CInv, NEW t \in Threads, At(t, "loading"), NEW f, f = Top(t)
    PROVE  f.op = "open" /\ LoadedFor(f.s, f.c)
<1>1. f \in Call /\ f.pc = "loading" /\ Shape(f) /\ FrameOK(f) /\ f.s \in Sessions
      /\ f.op \in {"open", "invoke", "close", "cancel"} /\ f.c \in Ctxs \cup {NULL}
  BY AtTop
<1>2. f.op = "open"
  BY <1>1 DEF Shape
<1>3. f \in Owned(f.s)
  BY <1>1, <1>2 DEF Owned, OwnsSession
<1>4. sess[f.s] # NULL
  BY <1>3, AtTop
<1>5. PICK s \in Sessions : s = f.s
  BY <1>1
<1>6. PICK d \in Ctxs : d = f.c
  BY <1>1 DEF FrameOK, InCtx
<1>7. sess[s].ctx = d /\ ctxs[d].init
  BY <1>1, <1>5, <1>6 DEF FrameOK, InCtx
<1>8. /\ ctxs[d] # NULL /\ ctxs[d] \in Ctx /\ ~ctxs[d].panicked
      /\ s \in SessionsOf(d) /\ CtxOK(d) /\ d \in Range(ctxes)
  BY <1>4, <1>5, <1>7, LiveCtx
<1>9. /\ ctxs[d].ref = 1 /\ Cnt(stack, Leaving(d)) = 0 /\ heads[d] = <<>>
      /\ Cnt(stack, Destroying(d)) = 0 /\ IsFiniteSet(SessionsOf(d))
      /\ ctxs[d].ref = Cardinality(SessionsOf(d)) + Cnt(stack, Leaving(d))
  BY <1>7, <1>8 DEF CtxOK
<1>10. Cardinality(SessionsOf(d)) = 1
  BY <1>9, FS_CardinalityType
<1>11. SessionsOf(d) = {s}
  <2>1. PICK x : SessionsOf(d) = {x}
    BY <1>9, <1>10, FS_Singleton
  <2> QED
    BY <1>8, <2>1
<1> QED
  BY <1>2, <1>5, <1>6, <1>7, <1>8, <1>9, <1>11 DEF LoadedFor

\* The context is initialized.
LEMMA LoadedC ==
    ASSUME SInv, CInv, NEW t \in Threads, Loaded(t) PROVE CInv'
<1>1. PICK f : f = Top(t)
  OBVIOUS
<1>2. At(t, "loading")
  BY DEF Loaded
<1>3. f \in Call /\ f.pc = "loading" /\ stack[t] # <<>> /\ wait[t] = NULL /\ FrameOK(f)
  BY <1>1, <1>2, AtTop
<1>4. PICK s : s = f.s
  OBVIOUS
<1>5. PICK d : d = f.c
  OBVIOUS
<1>6. f.op = "open" /\ LoadedFor(s, d)
  BY <1>1, <1>2, <1>4, <1>5, LoadingAlone
<1>7. PICK g : g = [f EXCEPT !.pc = "opened"]
  OBVIOUS
<1>8. Variant(f, g) /\ g.pc = "opened"
  BY <1>3, <1>7, CallFields, Labels
<1>9. stack' = [stack EXCEPT ![t] = <<g>> \o Tail(stack[t])]
  BY <1>1, <1>7 DEF Loaded, Goto, Become
<1>10. Opens(t, f, g, s)
  BY <1>1, <1>3, <1>4, <1>6, <1>8, <1>9, OpenerBecomes
<1>11. g.s = s /\ s \in Sessions /\ sess[s] # NULL /\ f \in Opening(s) /\ g \in Opening(s)
       /\ NoParts(f) /\ NoParts(g) /\ g \in Call
  BY <1>10 DEF Opens
<1>12. PICK R : Moves(t, R, f, g, NoCall)
  BY <1>10 DEF Opens
<1>13. d \in Ctxs /\ ctxs[d] \in Ctx /\ sess[s].ctx = d
  BY <1>6 DEF LoadedFor
<1>14. PICK k : k = [ctxs[d] EXCEPT !.init = FALSE]
  OBVIOUS
<1>15. k \in Ctx /\ k.ta = ctxs[d].ta /\ k.ref = ctxs[d].ref /\ ~k.init
       /\ k.panicked = ctxs[d].panicked /\ k.busy = ctxs[d].busy
  BY <1>13, <1>14 DEF Ctx
<1>16. ctxs'[d] = k /\ ctxs' \in [Ctxs -> Ctx \cup {NULL}] /\ k # NULL
       /\ \A c \in Ctxs \ {d} : ctxs'[c] = ctxs[c]
  <2>1. ctxs' = [ctxs EXCEPT ![d] = k] /\ ctxs \in [Ctxs -> Ctx \cup {NULL}]
    BY <1>1, <1>5, <1>14 DEF Loaded, CInv, CtxTypes
  <2> QED
    BY <1>13, <1>15, <2>1, NullAssumption
<1>17. UNCHANGED <<sess, heads, ctxes, single, fault>> /\ \E W : Wake(W)
  BY DEF Loaded
<1>18. OpenerKeeps(s, d)
  BY <1>6, <1>11, <1>13, <1>16, <1>17 DEF OpenerKeeps, LoadedFor, CInv, CtxsOK
<1>19. CtxOK(d)'
  <2>1. /\ Cnt(stack', Leaving(d)) = Cnt(stack, Leaving(d))
        /\ Cnt(stack', Destroying(d)) = Cnt(stack, Destroying(d))
        /\ Cnt(stack', InsideOf(d)) = Cnt(stack, InsideOf(d))
    BY <1>11, <1>12, <1>13, NoPartsCounts, NoCallParts
  <2>2. SessionsOf(d)' = SessionsOf(d)
    BY <1>17 DEF SessionsOf
  <2> QED
    BY <1>6, <1>15, <1>16, <1>17, <2>1, <2>2 DEF CtxOK, LoadedFor
<1>20. FrameOK(g)'
  <2>1. g.op = "open" /\ g.s = s /\ g.ta = f.ta
    BY <1>4, <1>6, <1>8 DEF Variant
  <2>2. g.ta \in TAs
    BY <1>3, <1>6, <2>1 DEF FrameOK
  <2> QED
    BY <1>8, <1>13, <1>17, <2>1, <2>2, NotNull DEF FrameOK, InCtx
<1>21. TaKept(d)
  BY <1>15, <1>16 DEF TaKept
<1>22. WaitStep(t)
  BY <1>3, <1>17, WaitWoken
<1>23. ~ctxs'[sess'[s].ctx].init
  BY <1>13, <1>15, <1>16, <1>17
<1> QED
  BY <1>10, <1>11, <1>12, <1>13, <1>18, <1>19, <1>20, <1>21, <1>22, <1>23, OpenerMove DEF Opens

\* The context is removed and freed.
LEMMA LoadFailsC ==
    ASSUME SInv, CInv, NEW t \in Threads, LoadFails(t) PROVE CInv'
<1>1. PICK f : f = Top(t)
  OBVIOUS
<1>2. At(t, "loading")
  BY DEF LoadFails
<1>3. f \in Call /\ f.pc = "loading" /\ stack[t] # <<>> /\ wait[t] = NULL /\ FrameOK(f)
  BY <1>1, <1>2, AtTop
<1>4. PICK s : s = f.s
  OBVIOUS
<1>5. PICK d : d = f.c
  OBVIOUS
<1>6. f.op = "open" /\ LoadedFor(s, d)
  BY <1>1, <1>2, <1>4, <1>5, LoadingAlone
<1>7. PICK g : g = [f EXCEPT !.pc = "fail", !.c = NULL]
  OBVIOUS
<1>8. Variant(f, g) /\ g.pc = "fail" /\ g.c = NULL
  BY <1>3, <1>7, Labels DEF Call, Variant
<1>9. stack' = [stack EXCEPT ![t] = <<g>> \o Tail(stack[t])]
  BY <1>1, <1>7 DEF LoadFails, Become
<1>10. Opens(t, f, g, s)
  BY <1>1, <1>3, <1>4, <1>6, <1>8, <1>9, OpenerBecomes
<1>11. g.s = s /\ s \in Sessions /\ sess[s] # NULL /\ f \in Opening(s) /\ g \in Opening(s)
       /\ NoParts(f) /\ NoParts(g) /\ g \in Call
  BY <1>10 DEF Opens
<1>12. PICK R : Moves(t, R, f, g, NoCall)
  BY <1>10 DEF Opens
<1>13. d \in Ctxs /\ ctxs[d] \in Ctx /\ sess[s].ctx = d /\ SessionsOf(d) = {s}
       /\ Cnt(stack, Leaving(d)) = 0 /\ Cnt(stack, Destroying(d)) = 0 /\ d \in Range(ctxes)
       /\ heads[d] = <<>>
  BY <1>6 DEF LoadedFor
<1>14. sess' = [sess EXCEPT ![s].ctx = NULL] /\ ctxes' = Without(ctxes, d)
       /\ ctxs' = [ctxs EXCEPT ![d] = NULL] /\ UNCHANGED <<heads, single, fault>>
       /\ \E W : Wake(W)
  BY <1>1, <1>4, <1>5 DEF LoadFails
<1>15. CtxSet(s, NULL)
  BY <1>11, <1>14, SetsCtx
<1>16. ctxs'[d] = NULL /\ ctxs' \in [Ctxs -> Ctx \cup {NULL}]
       /\ \A c \in Ctxs \ {d} : ctxs'[c] = ctxs[c]
  <2>1. ctxs \in [Ctxs -> Ctx \cup {NULL}]
    BY DEF CInv, CtxTypes
  <2> QED
    BY <1>13, <1>14, <2>1
<1>17. Range(ctxes') = Range(ctxes) \ {d} /\ NoDuplicates(ctxes')
  <2>1. ctxes \in Seq(Ctxs) /\ NoDuplicates(ctxes)
    BY DEF SInv, SessTypes, Data, CInv, CtxsOK
  <2> QED
    BY <1>13, <1>14, <2>1, WithoutElement
<1>18. OpenerKeeps(s, d)
  BY <1>13, <1>14, <1>15, <1>16, <1>17 DEF OpenerKeeps, CtxSet
<1>19. Untied(R, s)
  BY <1>11, <1>12, OpenerAlone
<1>20. ASSUME NEW u \in Threads, NEW e \in Range(stack'[u]) PROVE e \notin InsideOf(d)
  <2>1. \A v \in Threads : \A x \in Range(R[v]) : x \notin InsideOf(d)
    BY <1>12, <1>13, <1>19, NobodyInside
  <2>2. e \in Range(R[u]) \/ e = g
    BY <1>12 DEF Moves
  <2> QED
    BY <1>11, <1>13, <2>1, <2>2 DEF NoParts
<1>21. CtxOK(d)'
  <2>1. Cnt(stack', Leaving(d)) = 0 /\ Cnt(stack', Destroying(d)) = 0
    BY <1>11, <1>12, <1>13, NoPartsCounts, NoCallParts
  <2>2. SessionsOf(d)' = {}
    BY <1>13, <1>15, NotNull DEF CtxSet
  <2>3. IsFiniteSet(SessionsOf(d)')
    BY <2>2, FS_EmptySet
  <2>4. d \notin Range(ctxes') /\ heads'[d] = <<>>
    BY <1>13, <1>14, <1>17
  <2> QED
    BY <1>16, <2>1, <2>2, <2>3, <2>4 DEF CtxOK
<1>22. FrameOK(g)'
  <2>1. g.op = "open" /\ g.s = s /\ g.ta = f.ta
    BY <1>4, <1>6, <1>8 DEF Variant
  <2>2. g.ta \in TAs
    BY <1>3, <1>6, <2>1 DEF FrameOK
  <2>3. sess'[s].ctx = NULL
    BY <1>15 DEF CtxSet
  <2> QED
    BY <1>8, <2>1, <2>2, <2>3 DEF FrameOK, InCtx
<1>23. TaKept(d)
  BY <1>20 DEF TaKept
<1>24. WaitStep(t)
  BY <1>3, <1>14, WaitWoken
<1>25. sess'[s].ctx = NULL
  BY <1>15 DEF CtxSet
<1> QED
  BY <1>10, <1>11, <1>12, <1>13, <1>18, <1>21, <1>22, <1>23, <1>24, <1>25, OpenerMove DEF Opens

\* A context gets a reference with the session s.
Joined(s, d) ==
    /\ ctxs'[d] \in Ctx /\ ctxs'[d] # NULL /\ ctxs' \in [Ctxs -> Ctx \cup {NULL}]
    /\ \A c \in Ctxs \ {d} : ctxs'[c] = ctxs[c]
    /\ ctxs'[d].ta = ctxs[d].ta /\ ctxs'[d].ref = ctxs[d].ref + 1 /\ ~ctxs'[d].init
    /\ ctxs'[d].panicked = ctxs[d].panicked /\ ctxs'[d].busy = ctxs[d].busy
    /\ ~ctxs[d].init

\* The single instance of the TA is in tee_ctxes and initialized.
LEMMA JoinsCtx ==
    ASSUME SInv, CInv, NEW d \in Range(ctxes), ctxs' = [ctxs EXCEPT ![d].ref = @ + 1],
           ~ctxs[d].init, NEW s
    PROVE  Joined(s, d) /\ d \in Ctxs /\ ctxs[d] # NULL /\ CtxOK(d) /\ ctxs[d].ref \in Nat
<1>1. d \in Ctxs
  BY DEF SInv, SessTypes, Data, Range
<1>2. CtxOK(d) /\ ctxs \in [Ctxs -> Ctx \cup {NULL}]
  BY <1>1 DEF CInv, CtxsOK, CtxTypes
<1>3. ctxs[d] # NULL /\ ctxs[d] \in Ctx
  BY <1>1, <1>2 DEF CtxOK
<1>4. ctxs[d].ref \in Nat
  BY <1>3 DEF Ctx
<1>5. PICK k : k = [ctxs[d] EXCEPT !.ref = ctxs[d].ref + 1]
  OBVIOUS
<1>6. k \in Ctx /\ k.ta = ctxs[d].ta /\ k.ref = ctxs[d].ref + 1 /\ k.init = ctxs[d].init
      /\ k.panicked = ctxs[d].panicked /\ k.busy = ctxs[d].busy
  BY <1>3, <1>4, <1>5 DEF Ctx
<1>7. ctxs' = [ctxs EXCEPT ![d] = k]
  BY <1>5
<1> QED
  BY <1>1, <1>2, <1>3, <1>4, <1>6, <1>7, NullAssumption DEF Joined

\* The context with one session more.
LEMMA JoinedOK ==
    ASSUME SInv, NEW t \in Threads, NEW R, NEW f, NEW g, NEW k, Moves(t, R, f, g, k),
           NoParts(f), NoParts(g), NoParts(k), NEW s, NEW d \in Range(ctxes), d \in Ctxs,
           ctxs[d] # NULL, CtxOK(d), ctxs[d].ref \in Nat, Joined(s, d), s \notin SessionsOf(d),
           SessionsOf(d)' = SessionsOf(d) \cup {s}, ctxes' = ctxes
    PROVE  CtxOK(d)'
<1>1. /\ Cnt(stack', Leaving(d)) = Cnt(stack, Leaving(d))
      /\ Cnt(stack', Destroying(d)) = Cnt(stack, Destroying(d))
      /\ Cnt(stack', InsideOf(d)) = Cnt(stack, InsideOf(d))
      /\ Cnt(stack, Leaving(d)) \in Nat
  BY NoPartsCounts
<1>2. /\ IsFiniteSet(SessionsOf(d))
      /\ ctxs[d].ref = Cardinality(SessionsOf(d)) + Cnt(stack, Leaving(d))
      /\ Cnt(stack, Destroying(d)) = 0 /\ ~ctxs[d].panicked
      /\ ctxs[d].ta \notin Concurrent =>
            Cnt(stack, InsideOf(d)) = IF ctxs[d].busy THEN 1 ELSE 0
  BY DEF CtxOK
<1>3. IsFiniteSet(SessionsOf(d)') /\ Cardinality(SessionsOf(d)') = Cardinality(SessionsOf(d)) + 1
  BY <1>2, FS_AddElement
<1>4. ctxs'[d].ref = Cardinality(SessionsOf(d)') + Cnt(stack', Leaving(d))
  <2>1. Cardinality(SessionsOf(d)) \in Nat
    BY <1>2, FS_CardinalityType
  <2> QED
    BY <1>1, <1>2, <1>3, <2>1 DEF Joined
<1> QED
  BY <1>1, <1>2, <1>3, <1>4 DEF CtxOK, Joined

\* The session joins a context that has been initialized in the meantime.
LEMMA OpenRetryJoins ==
    ASSUME SInv, CInv, NEW t \in Threads, At(t, "init"), NEW f, f = Top(t),
           NEW d \in Range(ctxes), InitJoins(t, f, Tail(stack[t]), sess, d),
           UNCHANGED <<heads, ctxes, single, fault>>
    PROVE  CInv'
<1>1. f \in Call /\ f.pc = "init" /\ Shape(f) /\ stack[t] # <<>> /\ wait[t] = NULL /\ FrameOK(f)
      /\ f.op \in {"open", "invoke", "close", "cancel"}
  BY AtTop
<1>2. f.op = "open"
  BY <1>1 DEF Shape
<1>3. PICK g : g = [f EXCEPT !.pc = "opened"]
  OBVIOUS
<1>4. Variant(f, g) /\ g.pc = "opened"
  BY <1>1, <1>3, CallFields, Labels
<1>5. stack' = [stack EXCEPT ![t] = <<g>> \o Tail(stack[t])]
  BY <1>3 DEF InitJoins
<1>6. PICK s : s = f.s
  OBVIOUS
<1>7. Opens(t, f, g, s)
  BY <1>1, <1>2, <1>4, <1>5, <1>6, OpenerBecomes
<1>8. g.s = s /\ s \in Sessions /\ sess[s] # NULL /\ f \in Opening(s) /\ g \in Opening(s)
       /\ NoParts(f) /\ NoParts(g) /\ g \in Call
  BY <1>7 DEF Opens
<1>9. PICK R : Moves(t, R, f, g, NoCall)
  BY <1>7 DEF Opens
<1>10. sess' = [sess EXCEPT ![s].ctx = d] /\ wait' = wait
  BY <1>6 DEF InitJoins
<1>11. Joined(s, d) /\ d \in Ctxs /\ ctxs[d] # NULL /\ CtxOK(d) /\ ctxs[d].ref \in Nat
  BY JoinsCtx DEF InitJoins
<1>12. CtxSet(s, d)
  BY <1>8, <1>10, <1>11, SetsCtx
<1>13. sess[s].ctx = NULL
  BY <1>1, <1>6 DEF FrameOK
<1>14. s \notin SessionsOf(d)
  BY <1>11, <1>13, NotNull DEF SessionsOf
<1>15. CtxOK(d)'
  <2>1. SessionsOf(d)' = SessionsOf(d) \cup {s}
    BY <1>11, <1>12 DEF CtxSet
  <2> QED
    BY <1>8, <1>9, <1>11, <1>14, <2>1, NoCallParts, JoinedOK
<1>16. OpenerKeeps(s, d)
  BY <1>11, <1>12, <1>13 DEF OpenerKeeps, CtxSet, Joined, CInv, CtxsOK
<1>17. FrameOK(g)'
  <2>1. g.op = "open" /\ g.s = s /\ g.ta = f.ta
    BY <1>2, <1>4, <1>6 DEF Variant
  <2>2. g.ta \in TAs
    BY <1>1, <1>2, <2>1 DEF FrameOK
  <2>3. sess'[s].ctx = d
    BY <1>12 DEF CtxSet
  <2> QED
    BY <1>4, <1>11, <2>1, <2>2, <2>3, NotNull DEF FrameOK, InCtx
<1>18. TaKept(d)
  BY <1>11 DEF TaKept, Joined
<1>19. WaitStep(t)
  BY <1>1, <1>10, WaitSame
<1>20. ~ctxs'[sess'[s].ctx].init
  BY <1>11, <1>12 DEF CtxSet, Joined
<1> QED
  BY <1>7, <1>8, <1>9, <1>11, <1>15, <1>16, <1>17, <1>18, <1>19, <1>20, OpenerMove DEF Opens

\* The wait for tee_ta_init_cv is over.
LEMMA OpenRetryC ==
    ASSUME SInv, CInv, NEW t \in Threads, OpenRetry(t) PROVE CInv'
<1>1. PICK f : f = Top(t)
  OBVIOUS
<1>2. At(t, "init") /\ UNCHANGED <<heads, ctxes, single, fault>>
  BY DEF OpenRetry
<1>3. PICK p : p = Tail(stack[t])
  OBVIOUS
<1>4. InitWithContext(t, f, p, sess)
  BY <1>1, <1>3 DEF OpenRetry
<1>5. \/ InitLater(t, f, p, sess)
      \/ \E c \in Range(ctxes) : InitJoins(t, f, p, sess, c)
  BY <1>4, InitSplits DEF SInv, SessTypes, Data
<1>6. CASE InitLater(t, f, p, sess)
  <2>1. InitLater(t, f, Tail(stack[t]), sess)
    BY <1>3, <1>6
  <2> QED
    BY <1>1, <1>2, <2>1, OpenRetryLater
<1>7. CASE \E c \in Range(ctxes) : InitJoins(t, f, p, sess, c)
  <2>1. PICK c \in Range(ctxes) : InitJoins(t, f, p, sess, c)
    BY <1>7
  <2>2. InitJoins(t, f, Tail(stack[t]), sess, c)
    BY <1>3, <2>1
  <2> QED
    BY <1>1, <1>2, <2>2, OpenRetryJoins
<1> QED
  BY <1>5, <1>6, <1>7

-----------------------------------------------------------------------------
(* Sessions are freed.                                                     *)

\* The innermost call is the only one of its kind.
LEMMA OnePlace ==
    ASSUME SInv, NEW t \in Threads, stack[t] # <<>>, NEW f, f = Top(t), NEW F, f \in F,
           Cnt(stack, F) = 1
    PROVE  PlacesOf(stack, F) = {<<t, 1>>}
<1>1. PICK L : L = PlacesOf(stack, F)
  OBVIOUS
<1>2. <<t, 1>> \in L
  <2>1. stack[t] \in Seq(Call)
    BY DEF SInv, SessTypes, Stacks
  <2>2. 1 \in DOMAIN stack[t] /\ stack[t][1] = f
    BY <2>1 DEF Top
  <2>3. <<t, 1>> \in Places(stack)
    BY <2>2 DEF Places
  <2> QED
    BY <1>1, <2>2, <2>3 DEF PlacesOf
<1>3. IsFiniteSet(L)
  <2>1. IsFiniteSet(Places(stack))
    BY DEF SInv, SessTypes, Stacks
  <2>2. L \in SUBSET Places(stack)
    BY <1>1 DEF PlacesOf
  <2> QED
    BY <2>1, <2>2, FS_Subset
<1>4. Cardinality(L) = 1
  BY <1>1 DEF Cnt
<1>5. PICK x : L = {x}
  BY <1>3, <1>4, FS_Singleton
<1> QED
  BY <1>1, <1>2, <1>5

\* A call that goes on to access a session owns or closes it.
LEMMA UsersTied ==
    ASSUME SInv, CInv, NEW u \in Threads, NEW e \in Range(stack[u]), UsedSession(e) # NULL
    PROVE  /\ e \in Call /\ e.s = UsedSession(e)
           /\ e \in Owned(e.s) \/ e \in Closing(e.s)
<1>1. CallOK(u, e) /\ FrameOK(e)
  BY DEF SInv, CallsOK, CInv, FramesOK
<1>2. e \in Call /\ e.op \in {"open", "invoke", "close", "cancel"}
  <2>1. stack[u] \in Seq(Call)
    BY DEF SInv, SessTypes, Stacks
  <2>2. e \in Call
    BY <2>1 DEF Range
  <2> QED
    BY <2>2 DEF Call
<1>3. /\ UsedSession(e) = e.s /\ e.pc \notin {"dead", "origin", "release"}
      /\ ~(e.op = "close" /\ e.pc \in {"clear", "destroy"})
  BY DEF UsedSession
<1>4. Shape(e)
  BY <1>1 DEF CallOK
<1>5. CASE e.op = "open"
  BY <1>2, <1>3, <1>5 DEF Owned, OwnsSession
<1>6. CASE e.op = "invoke"
  BY <1>2, <1>3, <1>4, <1>6 DEF Owned, OwnsSession, Shape
<1>7. CASE e.op = "close"
  BY <1>2, <1>3, <1>7 DEF Closing
<1>8. CASE e.op = "cancel"
  BY <1>2, <1>3, <1>8 DEF Owned, OwnsSession
<1> QED
  BY <1>2, <1>3, <1>5, <1>6, <1>7, <1>8

\* A session whose one reference belongs to the innermost call, which opens or
\* closes it, is used by nobody else.
LEMMA FreeAlone ==
    ASSUME SInv, CInv, NEW t \in Threads, stack[t] # <<>>, NEW f, f = Top(t), NEW s \in Sessions,
           f \in Owned(s), f \in Opening(s) \/ f \in Closing(s), sess[s] # NULL, sess[s].ref = 1
    PROVE  /\ Cnt(stack, Owned(s)) = 1 /\ ~SessionUsed(t, s)
           /\ Cnt(stack, Opening(s)) + Cnt(stack, Closing(s)) = 1
           /\ Cnt(stack, Opening(s)) \in Nat /\ Cnt(stack, Closing(s)) \in Nat
           /\ f \in Opening(s) => Cnt(stack, Closing(s)) = 0
           /\ f \in Closing(s) => Cnt(stack, Opening(s)) = 0
<1>1. SessionOK(s)
  BY DEF CInv, SessionsOK
<1>2. Cnt(stack, Owned(s)) = 1
  BY <1>1 DEF SessionOK
<1>3. f \in Range(stack[t])
  BY TopCall
<1>4. /\ Cnt(stack, Opening(s)) \in Nat /\ Cnt(stack, Closing(s)) \in Nat
      /\ f \in Opening(s) => Cnt(stack, Opening(s)) # 0
      /\ f \in Closing(s) => Cnt(stack, Closing(s)) # 0
  <2>1. stack \in Stacks
    BY DEF SInv, SessTypes
  <2> QED
    BY <1>3, <2>1, CntZero
<1>5. Cnt(stack, Opening(s)) + Cnt(stack, Closing(s)) <= 1
  BY <1>1 DEF SessionOK
<1>6. /\ Cnt(stack, Opening(s)) + Cnt(stack, Closing(s)) = 1
      /\ f \in Opening(s) => Cnt(stack, Closing(s)) = 0
      /\ f \in Closing(s) => Cnt(stack, Opening(s)) = 0 /\ Cnt(stack, Closing(s)) = 1
  BY <1>4, <1>5
<1>7. PlacesOf(stack, Owned(s)) = {<<t, 1>>}
  BY <1>2, OnePlace
<1>8. PlacesOf(stack, Closing(s)) \subseteq {<<t, 1>>}
  <2>1. CASE f \in Closing(s)
    BY <1>6, <2>1, OnePlace
  <2>2. CASE f \in Opening(s)
    <3>1. Cnt(stack, Closing(s)) = 0 /\ stack \in Stacks
      BY <1>6, <2>2 DEF SInv, SessTypes
    <3>2. \A u \in Threads : \A e \in Range(stack[u]) : e \notin Closing(s)
      BY <3>1, CntZero
    <3>3. ASSUME NEW x \in Places(stack) PROVE stack[x[1]][x[2]] \notin Closing(s)
      <4>1. PICK u \in Threads : \E i \in DOMAIN stack[u] : x = <<u, i>>
        BY DEF Places
      <4>2. PICK i \in DOMAIN stack[u] : x = <<u, i>>
        BY <4>1
      <4>3. stack[u][i] \in Range(stack[u])
        BY DEF Range
      <4> QED
        BY <3>2, <4>2, <4>3
    <3> QED
      BY <3>3 DEF PlacesOf
  <2> QED
    BY <2>1, <2>2
<1>9. ASSUME NEW x \in CallsIn, UsedSession(stack[x[1]][x[2]]) = s PROVE x = <<t, 1>>
  <2>1. PICK u \in Threads : \E i \in DOMAIN stack[u] : x = <<u, i>>
    BY DEF CallsIn
  <2>2. PICK i \in DOMAIN stack[u] : x = <<u, i>>
    BY <2>1
  <2>3. PICK e : e = stack[u][i]
    OBVIOUS
  <2>4. e \in Range(stack[u]) /\ x \in Places(stack) /\ UsedSession(e) = s
    BY <1>9, <2>2, <2>3 DEF Range, Places
  <2>5. e \in Owned(s) \/ e \in Closing(s)
    BY <2>4, UsersTied, NotNull
  <2>6. x \in PlacesOf(stack, Owned(s)) \/ x \in PlacesOf(stack, Closing(s))
    BY <2>2, <2>3, <2>4, <2>5 DEF PlacesOf
  <2> QED
    BY <1>7, <1>8, <2>6
<1>10. ~SessionUsed(t, s)
  BY <1>9 DEF SessionUsed, CallsThat
<1> QED
  BY <1>2, <1>4, <1>6, <1>10

\* The session s is freed.
Freed(s, h) ==
    /\ sess'[s] = NULL /\ \A r \in Sessions \ {s} : sess'[r] = sess[r]
    /\ \A g \in Heads : Range(heads[g]) \ {s} \subseteq Range(heads'[g])
    /\ \A c \in Ctxs : heads'[c] # <<>> => heads[c] # <<>>
    /\ \A c \in Ctxs : SessionsOf(c)' = SessionsOf(c) \ {s}

\* It is taken off its list.
LEMMA FreesSession ==
    ASSUME SInv, NEW s \in Sessions, NEW h \in Heads, s \in Range(heads[h]),
           sess' = [sess EXCEPT ![s] = NULL],
           heads' = [heads EXCEPT ![h] = Without(heads[h], s)]
    PROVE  Freed(s, h)
<1>1. sess \in [Sessions -> Session \cup {NULL}] /\ heads \in [Heads -> Seq(Sessions)]
  BY DEF SInv, SessTypes, Data
<1>2. sess'[s] = NULL /\ \A r \in Sessions \ {s} : sess'[r] = sess[r]
  BY <1>1
<1>3. PICK q : q = Without(heads[h], s)
  OBVIOUS
<1>4. heads'[h] = q /\ \A g \in Heads \ {h} : heads'[g] = heads[g]
  BY <1>1, <1>3
<1>5. Range(q) = Range(heads[h]) \ {s}
  <2>1. heads[h] \in Seq(Sessions) /\ NoDuplicates(heads[h])
    BY <1>1 DEF SInv, ListsOK
  <2> QED
    BY <1>3, <2>1, WithoutElement
<1>6. heads[h] # <<>>
  BY DEF Range
<1>7. ASSUME NEW c \in Ctxs PROVE SessionsOf(c)' = SessionsOf(c) \ {s}
  <2>1. SessionsOf(c)' = {r \in Sessions : sess'[r] # NULL /\ sess'[r].ctx = c}
    BY DEF SessionsOf
  <2> QED
    BY <1>2, <2>1 DEF SessionsOf
<1>8. \A c \in Ctxs : heads'[c] # <<>> => heads[c] # <<>>
  BY <1>4, <1>6 DEF Heads
<1>9. \A g \in Heads : Range(heads[g]) \ {s} \subseteq Range(heads'[g])
  BY <1>4, <1>5
<1> QED
  BY <1>2, <1>7, <1>8, <1>9 DEF Freed

\* The call that has freed the session of the context d goes on to give back the
\* reference on d.
GoesOn(f, g, s, d) ==
    \/ d = NULL /\ g = NoCall /\ NoParts(f)
    \/ /\ d \in Ctxs /\ f \in Closing(s)
       /\ f.c = d /\ f \notin Leaving(d) /\ f \notin Destroying(d)
       /\ g \in Call /\ g.s = s /\ g.c = d /\ g.op = "close" /\ g.pc \in {"clear", "release"}
       /\ f \in InsideOf(d) <=> g \in InsideOf(d)

\* A session is freed.
LEMMA FreeMove ==
    ASSUME SInv, CInv, NEW t \in Threads, stack[t] # <<>>, NEW R, NEW f, f = Top(t), NEW g,
           Moves(t, R, f, g, NoCall), BelowOK', NEW s \in Sessions, f.s = s, f \in Owned(s),
           f \in Opening(s) \/ f \in Closing(s), sess[s] # NULL, sess[s].ref = 1,
           NEW h, Freed(s, h), UNCHANGED <<ctxs, ctxes, single, fault>>,
           NEW d, d = sess[s].ctx, GoesOn(f, g, s, d), WaitStep(t)
    PROVE  CInv'
<1>1. /\ Cnt(stack, Owned(s)) = 1 /\ Cnt(stack, Opening(s)) \in Nat /\ Cnt(stack, Closing(s)) \in Nat
      /\ f \in Opening(s) => Cnt(stack, Closing(s)) = 0
      /\ f \in Closing(s) => Cnt(stack, Opening(s)) = 0
      /\ Cnt(stack, Opening(s)) + Cnt(stack, Closing(s)) = 1
  BY FreeAlone
<1>2. f \in Call /\ g \in Call \cup {NoCall}
  BY DEF Moves, Owned
<1>3. ASSUME NEW F \in SUBSET Call
      PROVE  /\ Cnt(R, F) \in Nat /\ Cnt(stack, F) = Cnt(R, F) + Ind(f, F)
             /\ Cnt(stack', F) = Cnt(R, F) + Ind(g, F)
             /\ Ind(f, F) \in 0..1 /\ Ind(g, F) \in 0..1
  <2>1. /\ Cnt(R, F) \in Nat /\ Cnt(stack, F) = Cnt(R, F) + Ind(f, F)
        /\ Cnt(stack', F) = Cnt(R, F) + Ind(g, F) + Ind(NoCall, F)
    BY DEF Moves
  <2>2. Ind(NoCall, F) = 0 /\ Ind(f, F) \in 0..1 /\ Ind(g, F) \in 0..1
    BY NoCallInd DEF Ind
  <2> QED
    BY <2>1, <2>2
<1>4. Cnt(R, Owned(s)) = 0
  <2>1. Owned(s) \in SUBSET Call /\ Ind(f, Owned(s)) = 1
    BY Kinds DEF Ind
  <2> QED
    BY <1>1, <1>3, <2>1
<1>5. Cnt(R, Opening(s)) = 0
  <2>1. Opening(s) \in SUBSET Call /\ (f \in Opening(s) => Ind(f, Opening(s)) = 1)
    BY Kinds DEF Ind
  <2>2. /\ Cnt(R, Opening(s)) \in Nat /\ Ind(f, Opening(s)) \in 0..1
        /\ Cnt(stack, Opening(s)) = Cnt(R, Opening(s)) + Ind(f, Opening(s))
    BY <1>3, <2>1
  <2> QED
    BY <1>1, <2>1, <2>2
<1>6. Cnt(R, Closing(s)) = 0
  <2>1. Closing(s) \in SUBSET Call /\ (f \in Closing(s) => Ind(f, Closing(s)) = 1)
    BY Kinds DEF Ind
  <2>2. /\ Cnt(R, Closing(s)) \in Nat /\ Ind(f, Closing(s)) \in 0..1
        /\ Cnt(stack, Closing(s)) = Cnt(R, Closing(s)) + Ind(f, Closing(s))
    BY <1>3, <2>1
  <2> QED
    BY <1>1, <2>1, <2>2
<1>7. Untied(R, s)
  <2>1. R \in Stacks
    BY DEF Moves
  <2> QED
    BY <1>4, <1>6, <2>1, CntZero DEF Untied
<1>8. g \notin Opening(s) /\ g \notin Closing(s)
  BY NoCallType DEF GoesOn, Opening, Owned, OwnsSession, Closing
<1>9. SessionOK(s)'
  <2>1. Cnt(stack', Opening(s)) = 0 /\ Cnt(stack', Closing(s)) = 0
    <3>1. Ind(g, Opening(s)) = 0 /\ Ind(g, Closing(s)) = 0
      BY <1>8 DEF Ind
    <3> QED
      BY <1>3, <1>5, <1>6, <3>1, Kinds
  <2> QED
    BY <2>1 DEF SessionOK, Freed
<1>10. Tied(f, s, d) /\ Tied(g, s, d) /\ Tied(NoCall, s, d)
  BY <1>2, OwnPart, NoCallParts, NoCallType, NotNull DEF Tied, GoesOn, NoParts
<1>11. StepAt(t, R, s, d, f, g, NoCall)
  <2>1. ASSUME NEW c \in Ctxs \ {d} PROVE sess[s].ctx # c
    OBVIOUS
  <2> QED
    BY <1>10, <2>1 DEF StepAt, Freed
<1>12. RestKept(R, s, d)
  BY <1>7 DEF RestKept
<1>13. g \in Call => FrameOK(g)'
  BY NoCallType DEF GoesOn, FrameOK, InCtx
<1>14. ASSUME d \in Ctxs PROVE CtxOK(d)'
  <2>1. /\ f \in Closing(s) /\ f \notin Leaving(d) /\ f \notin Destroying(d)
        /\ g \in Leaving(d) /\ g \notin Destroying(d) /\ (f \in InsideOf(d) <=> g \in InsideOf(d))
    BY <1>14, NotNull DEF GoesOn, Leaving, Destroying
  <2>2. ctxs[d] # NULL /\ s \in SessionsOf(d) /\ CtxOK(d)
    BY <1>14, LiveCtx
  <2>3. Cnt(stack', Leaving(d)) = Cnt(stack, Leaving(d)) + 1 /\ Cnt(stack, Leaving(d)) \in Nat
    <3>1. Ind(g, Leaving(d)) = 1 /\ Ind(f, Leaving(d)) = 0 /\ Leaving(d) \in SUBSET Call
      BY <2>1, Kinds DEF Ind
    <3> QED
      BY <1>3, <3>1
  <2>4. Cnt(stack', Destroying(d)) = Cnt(stack, Destroying(d))
    <3>1. Ind(g, Destroying(d)) = 0 /\ Ind(f, Destroying(d)) = 0 /\ Destroying(d) \in SUBSET Call
      BY <2>1, Kinds DEF Ind
    <3> QED
      BY <1>3, <3>1
  <2>5. Cnt(stack', InsideOf(d)) = Cnt(stack, InsideOf(d))
    <3>1. Ind(g, InsideOf(d)) = Ind(f, InsideOf(d)) /\ InsideOf(d) \in SUBSET Call
      BY <2>1, Kinds DEF Ind
    <3> QED
      BY <1>3, <3>1
  <2>6. /\ IsFiniteSet(SessionsOf(d)')
        /\ Cardinality(SessionsOf(d)') = Cardinality(SessionsOf(d)) - 1
        /\ Cardinality(SessionsOf(d)) \in Nat
    <3>1. IsFiniteSet(SessionsOf(d))
      BY <2>2 DEF CtxOK
    <3>2. SessionsOf(d)' = SessionsOf(d) \ {s}
      BY <1>14 DEF Freed
    <3> QED
      BY <2>2, <3>1, <3>2, FS_RemoveElement, FS_CardinalityType
  <2>7. ~ctxs[d].init
    <3>1. ctxs[d].init => Cnt(stack, Loading(s)) > 0
      BY <1>14, NotNull DEF CInv, SessionsOK, SessionOK
    <3>2. Cnt(stack, Loading(s)) = 0
      <4>1. stack \in Stacks
        BY DEF SInv, SessTypes
      <4>2. \A u \in Threads : \A e \in Range(stack[u]) : e \notin Opening(s)
        BY <1>1, <2>1, <4>1, CntZero
      <4>3. \A u \in Threads : \A e \in Range(stack[u]) : e \notin Loading(s)
        BY <4>2 DEF Loading
      <4> QED
        BY <4>1, <4>3, CntZero
    <3> QED
      BY <3>1, <3>2
  <2>8. ctxs'[d].ref = Cardinality(SessionsOf(d)') + Cnt(stack', Leaving(d))
    BY <2>2, <2>3, <2>6 DEF CtxOK
  <2> QED
    BY <2>2, <2>4, <2>5, <2>6, <2>7, <2>8 DEF CtxOK
<1>15. SingleOK'
  <2>1. SinglesSame
    BY DEF SinglesSame
  <2>2. Ind(f, InSingle(ctxs)) = Ind(g, InSingle(ctxs)) + Ind(NoCall, InSingle(ctxs))
    <3>1. Ind(NoCall, InSingle(ctxs)) = 0
      BY NoSingles, NoCallParts
    <3>2. Ind(f, InSingle(ctxs)) = Ind(g, InSingle(ctxs))
      <4>1. CASE d = NULL
        <5>1. g = NoCall /\ NoParts(f)
          BY <4>1, NotNull DEF GoesOn
        <5> QED
          BY <3>1, <5>1, NoSingles
      <4>2. CASE d # NULL
        <5>1. f.c = d /\ g.c = d /\ g \in Call /\ (f \in InsideOf(d) <=> g \in InsideOf(d))
          BY <4>2 DEF GoesOn
        <5> QED
          BY <1>2, <5>1 DEF InSingle, Ind
      <4> QED
        BY <4>1, <4>2
    <3>3. Ind(g, InSingle(ctxs)) \in Nat
      BY DEF Ind
    <3> QED
      BY <3>1, <3>2, <3>3
  <2> QED
    BY <2>1, <2>2, SingleStays
<1>16. WaitOK'
  BY WaitsStay DEF Moves
<1>17. CtxTypes' /\ NoDuplicates(ctxes')
  BY DEF CInv, CtxTypes, CtxsOK, WaitStep
<1> QED
  BY <1>9, <1>11, <1>12, <1>13, <1>14, <1>15, <1>16, <1>17, NoCallType, StepCInv

\* tee_ta_init_session() fails.
LEMMA OpenFailsC ==
    ASSUME SInv, CInv, NEW t \in Threads, OpenFails(t) PROVE CInv'
<1>1. PICK f : f = Top(t)
  OBVIOUS
<1>2. At(t, "fail")
  BY DEF OpenFails
<1>3. f \in Call /\ f.pc = "fail" /\ Shape(f) /\ stack[t] # <<>> /\ wait[t] = NULL /\ FrameOK(f)
      /\ f.op \in {"open", "invoke", "close", "cancel"} /\ f.s \in Sessions /\ f.h \in Heads
      /\ f \in Range(stack[t])
  BY <1>1, <1>2, AtTop
<1>4. f.op = "open"
  BY <1>3 DEF Shape
<1>5. PICK s \in Sessions : s = f.s
  BY <1>3
<1>6. PICK h \in Heads : h = f.h
  BY <1>3
<1>7. f \in Opening(s) /\ NoParts(f) /\ f \in Owned(s)
  BY <1>3, <1>4, <1>5, OpenerParts DEF Opening
<1>8. sess[s] # NULL /\ s \in Range(heads[h])
  BY <1>1, <1>2, <1>5, <1>6, <1>7, AtTop
<1>9. sess[s].ref = 1
  <2>1. Cnt(stack, Opening(s)) # 0 /\ Cnt(stack, Opening(s)) \in Nat
    BY <1>3, <1>7, CntZero DEF SInv, SessTypes
  <2>2. Cnt(stack, Opening(s)) > 0
    BY <2>1
  <2> QED
    BY <1>8, <2>2 DEF CInv, SessionsOK, SessionOK
<1>10. ~SessionUsed(t, s)
  BY <1>1, <1>3, <1>7, <1>8, <1>9, FreeAlone
<1>11. /\ heads' = [heads EXCEPT ![h] = Without(heads[h], s)]
       /\ sess' = [sess EXCEPT ![s] = NULL] /\ Return(t)
       /\ UNCHANGED <<ctxs, ctxes, single, wait, fault>>
  BY <1>1, <1>5, <1>6, <1>10 DEF OpenFails
<1>12. Freed(s, h)
  BY <1>8, <1>11, FreesSession
<1>13. BelowOK' /\ \E R : Moves(t, R, f, NoCall, NoCall)
  BY <1>1, <1>3, <1>11, ReturnMoves DEF CInv
<1>14. PICK R : Moves(t, R, f, NoCall, NoCall)
  BY <1>13
<1>15. PICK d : d = sess[s].ctx
  OBVIOUS
<1>16. GoesOn(f, NoCall, s, d)
  BY <1>3, <1>5, <1>7, <1>15 DEF GoesOn, FrameOK
<1>17. WaitStep(t)
  BY <1>3, <1>11, WaitSame
<1> QED
  BY <1>1, <1>3, <1>5, <1>7, <1>8, <1>9, <1>11, <1>12, <1>13, <1>14, <1>15, <1>16, <1>17, FreeMove

\* A close frees the session of which it has the last reference.
LEMMA FreeSessionC ==
    ASSUME SInv, CInv, NEW t \in Threads, NEW l \in {"unlink", "refc"}, At(t, l),
           sess[Top(t).s].ref = 1, FreeSession(t)
    PROVE  CInv'
<1>1. PICK f : f = Top(t)
  OBVIOUS
<1>3. f \in Call /\ f.pc = l /\ Shape(f) /\ stack[t] # <<>> /\ wait[t] = NULL /\ FrameOK(f)
      /\ f.op \in {"open", "invoke", "close", "cancel"} /\ f.s \in Sessions /\ f.h \in Heads
      /\ f.c \in Ctxs \cup {NULL}
  BY <1>1, AtTop
<1>4. f.op = "close"
  BY <1>3 DEF Shape
<1>5. PICK s \in Sessions : s = f.s
  BY <1>3
<1>6. PICK h \in Heads : h = f.h
  BY <1>3
<1>7. f \in Closing(s) /\ f \in Owned(s)
  BY <1>3, <1>4, <1>5 DEF Closing, Owned, OwnsSession
<1>8. sess[s] # NULL /\ s \in Range(heads[h])
  BY <1>1, <1>5, <1>6, <1>7, AtTop
<1>9. sess[s].ref = 1
  BY <1>1, <1>5
<1>10. ~SessionUsed(t, s)
  BY <1>1, <1>3, <1>7, <1>8, <1>9, FreeAlone
<1>11. /\ heads' = [heads EXCEPT ![h] = Without(heads[h], s)]
       /\ sess' = [sess EXCEPT ![s] = NULL]
       /\ UNCHANGED <<ctxs, ctxes, single, fault>>
       /\ \E W : Wake(W)
       /\ IF f.c = NULL THEN Return(t) ELSE Goto(t, IF f.res = "none" THEN "release" ELSE "clear")
  BY <1>1, <1>5, <1>6, <1>10 DEF FreeSession
<1>12. Freed(s, h)
  BY <1>8, <1>11, FreesSession
<1>15. PICK d : d = sess[s].ctx
  OBVIOUS
<1>16. d = f.c
  BY <1>3, <1>5, <1>15 DEF FrameOK
<1>17. WaitStep(t)
  BY <1>3, <1>11, WaitWoken
<1>18. CASE d = NULL
  <2>1. Return(t)
    BY <1>11, <1>16, <1>18
  <2>2. BelowOK' /\ \E R : Moves(t, R, f, NoCall, NoCall)
    BY <1>1, <1>3, <2>1, ReturnMoves DEF CInv
  <2>3. PICK R : Moves(t, R, f, NoCall, NoCall)
    BY <2>2
  <2>4. NoParts(f)
    BY <1>16, <1>18, OwnPart, NotNull DEF NoParts
  <2>5. GoesOn(f, NoCall, s, d)
    BY <1>18, <2>4 DEF GoesOn
  <2> QED
    BY <1>1, <1>3, <1>5, <1>7, <1>8, <1>9, <1>11, <1>12, <2>2, <2>3, <1>15, <2>5, <1>17, FreeMove
<1>19. CASE d # NULL
  <2>1. PICK m \in {"release", "clear"} : m = IF f.res = "none" THEN "release" ELSE "clear"
    OBVIOUS
  <2>2. PICK g : g = [f EXCEPT !.pc = m]
    OBVIOUS
  <2>3. Variant(f, g) /\ g.pc = m /\ g.c = f.c /\ g.res = f.res
    BY <1>3, <2>1, <2>2, CallFields, Labels
  <2>4. stack' = [stack EXCEPT ![t] = <<g>> \o Tail(stack[t])]
    BY <1>1, <1>11, <1>16, <1>19, <2>1, <2>2 DEF Goto, Become
  <2>5. g \in Call /\ g.op = "close" /\ g.s = s /\ g.h = f.h
    BY <1>4, <1>5, <2>3 DEF Variant
  <2>6. BelowOK' /\ \E R : Moves(t, R, f, g, NoCall)
    BY <1>1, <1>3, <2>4, <2>5, BecomeMoves DEF CInv
  <2>7. PICK R : Moves(t, R, f, g, NoCall)
    BY <2>6
  <2>8. f \in InsideOf(d) <=> g \in InsideOf(d)
    BY <1>3, <1>4, <1>16, <2>1, <2>3, <2>5 DEF InsideOf, Inside
  <2>9. f \notin Leaving(d) /\ f \notin Destroying(d) /\ d \in Ctxs
    BY <1>3, <1>16, <1>19 DEF Leaving, Destroying
  <2>10. GoesOn(f, g, s, d)
    BY <1>7, <1>16, <2>1, <2>3, <2>5, <2>8, <2>9 DEF GoesOn
  <2> QED
    BY <1>1, <1>3, <1>5, <1>7, <1>8, <1>9, <1>11, <1>12, <2>6, <2>7, <1>15, <2>10, <1>17, FreeMove
<1> QED
  BY <1>18, <1>19

\* tee_ta_unlink_session(): free the session, or wait.
LEMMA UnlinkC ==
    ASSUME SInv, CInv, NEW t \in Threads, Unlink(t) PROVE CInv'
<1>1. PICK f : f = Top(t)
  OBVIOUS
<1>2. At(t, "unlink")
  BY DEF Unlink
<1>3. CASE sess[f.s].ref < 1 \/ sess[f.s].lock # t \/ sess[f.s].unlink
  <2>1. Stop("assert")
    BY <1>1, <1>3 DEF Unlink
  <2> QED
    BY <2>1, StopStep
<1>4. CASE ~(sess[f.s].ref < 1 \/ sess[f.s].lock # t \/ sess[f.s].unlink) /\ sess[f.s].ref = 1
  <2>1. FreeSession(t) /\ sess[Top(t).s].ref = 1
    BY <1>1, <1>4 DEF Unlink
  <2> QED
    BY <1>2, <2>1, FreeSessionC
<1>5. CASE ~(sess[f.s].ref < 1 \/ sess[f.s].lock # t \/ sess[f.s].unlink) /\ sess[f.s].ref # 1
  <2>1. /\ sess' = [sess EXCEPT ![f.s].unlink = TRUE]
        /\ wait' = [u \in Threads |->
                      IF u = t THEN <<"refc", f.s>>
                      ELSE IF wait[u] = <<"lock", f.s>> THEN NULL ELSE wait[u]]
        /\ Goto(t, "refc") /\ UNCHANGED <<ctxs, heads, ctxes, single, fault>>
    BY <1>1, <1>5 DEF Unlink
  <2> QED
    BY <1>1, <1>2, <2>1, UnlinkWaitsC
<1> QED
  BY <1>3, <1>4, <1>5

\* The wait for refc_cv is over.
LEMMA UnlinkWaitC ==
    ASSUME SInv, CInv, NEW t \in Threads, UnlinkWait(t) PROVE CInv'
<1>1. PICK f : f = Top(t)
  OBVIOUS
<1>2. At(t, "refc")
  BY DEF UnlinkWait
<1>3. CASE sess[Top(t).s].ref = 1
  <2>1. FreeSession(t)
    BY <1>3 DEF UnlinkWait
  <2> QED
    BY <1>2, <1>3, <2>1, FreeSessionC
<1>4. CASE sess[Top(t).s].ref # 1
  <2>1. f.pc = "refc" /\ f.s \in Sessions /\ stack[t] # <<>>
    BY <1>1, <1>2, AtTop
  <2>2. PICK cv : cv = <<"refc", f.s>>
    OBVIOUS
  <2>3. cv \in Condvars /\ Waits(f, cv)
    BY <2>1, <2>2 DEF Condvars, Waits
  <2>4. WaitFor(t, cv) /\ UNCHANGED <<sess, ctxs, heads, ctxes, single, stack, fault>>
    BY <1>1, <1>4, <2>2 DEF UnlinkWait
  <2> QED
    BY <1>1, <2>1, <2>3, <2>4, WaitForOne
<1> QED
  BY <1>3, <1>4

-----------------------------------------------------------------------------
(* Contexts are given back and destroyed.                                  *)

\* A context with a reference less.
RefDropped(d) ==
    /\ ctxs'[d] # NULL /\ ctxs' \in [Ctxs -> Ctx \cup {NULL}]
    /\ \A c \in Ctxs \ {d} : ctxs'[c] = ctxs[c]
    /\ ctxs'[d].ta = ctxs[d].ta /\ ctxs'[d].ref = ctxs[d].ref - 1
    /\ ctxs'[d].init = ctxs[d].init
    /\ ctxs'[d].panicked = ctxs[d].panicked /\ ctxs'[d].busy = ctxs[d].busy

\* What is known of a close that gives back its reference on the context d.
GivesBack(t, f, d) ==
    /\ f \in Call /\ f.op = "close" /\ f.pc = "release" /\ f.c = d /\ f.s \in Sessions
    /\ stack[t] # <<>> /\ wait[t] = NULL
    /\ d \in Ctxs /\ f \in Leaving(d) /\ f \notin InsideOf(d) /\ f \notin Destroying(d)
    /\ ctxs[d] # NULL /\ ctxs[d] \in Ctx /\ CtxOK(d)
    /\ Cnt(stack, Leaving(d)) \in Nat /\ Cnt(stack, Leaving(d)) > 0
    /\ ctxs[d].ref \in Nat /\ ctxs[d].ref > 0 /\ d \in Range(ctxes) /\ ~ctxs[d].init

\* The context has not been destroyed in the meantime.
LEMMA ReleaseCtx ==
    ASSUME SInv, CInv, NEW t \in Threads, At(t, "release"), NEW f, f = Top(t), NEW d, d = f.c
    PROVE  GivesBack(t, f, d)
<1>1. f \in Call /\ f.pc = "release" /\ Shape(f) /\ stack[t] # <<>> /\ wait[t] = NULL
      /\ f.op \in {"open", "invoke", "close", "cancel"} /\ f.s \in Sessions
      /\ f.c \in Ctxs \cup {NULL} /\ f \in Range(stack[t])
  BY AtTop
<1>2. f.op = "close" /\ d \in Ctxs
  BY <1>1 DEF Shape
<1>3. f \in Leaving(d) /\ f \notin InsideOf(d) /\ f \notin Destroying(d)
  BY <1>1, <1>2 DEF Leaving, InsideOf, Inside, Destroying
<1>4. ctxs[d] # NULL /\ ctxs[d] \in Ctx /\ CtxOK(d)
  BY <1>1, <1>2, <1>3, PartCtx
<1>5. Cnt(stack, Leaving(d)) \in Nat /\ Cnt(stack, Leaving(d)) # 0
  BY <1>1, <1>3, CntZero DEF SInv, SessTypes
<1>6. /\ IsFiniteSet(SessionsOf(d))
      /\ ctxs[d].ref = Cardinality(SessionsOf(d)) + Cnt(stack, Leaving(d))
      /\ d \notin Range(ctxes) => ctxs[d].ref = 0
      /\ ctxs[d].init => Cnt(stack, Leaving(d)) = 0
  BY <1>4 DEF CtxOK
<1>7. Cardinality(SessionsOf(d)) \in Nat
  BY <1>6, FS_CardinalityType
<1>8. ctxs[d].ref \in Nat /\ ctxs[d].ref > 0
  BY <1>5, <1>6, <1>7
<1>9. d \in Range(ctxes) /\ ~ctxs[d].init
  BY <1>5, <1>6, <1>8
<1> QED
  BY <1>1, <1>2, <1>3, <1>4, <1>5, <1>8, <1>9 DEF GivesBack

\* A call that owns and closes nothing becomes another one, or returns.
LEMMA BeyondSession ==
    ASSUME SInv, CInv, NEW t \in Threads, NEW R, NEW f \in Call, NEW g,
           Moves(t, R, f, g, NoCall), NEW s \in Sessions, sess' = sess,
           f \notin Owned(s), f \notin Closing(s), g \notin Owned(s), g \notin Closing(s),
           sess[s] # NULL /\ sess[s].ctx # NULL /\ ctxs'[sess[s].ctx].init
              => ctxs[sess[s].ctx].init
    PROVE  SessionOK(s)'
<1>1. /\ f \notin Opening(s) /\ f \notin Loading(s)
      /\ g \notin Opening(s) /\ g \notin Loading(s)
  BY DEF Opening, Loading
<1>2. ASSUME NEW F \in SUBSET Call, f \notin F, g \notin F
      PROVE  Cnt(stack', F) = Cnt(stack, F)
  <2>1. Ind(f, F) = 0 /\ Ind(g, F) = 0 /\ Ind(NoCall, F) = 0
    BY <1>2, NoCallInd DEF Ind
  <2> QED
    BY <2>1, CountSame
<1>3. /\ Cnt(stack', Owned(s)) = Cnt(stack, Owned(s))
      /\ Cnt(stack', Opening(s)) = Cnt(stack, Opening(s))
      /\ Cnt(stack', Closing(s)) = Cnt(stack, Closing(s))
      /\ Cnt(stack', Loading(s)) = Cnt(stack, Loading(s))
  BY <1>1, <1>2, Kinds
<1>4. SessionOK(s)
  BY DEF CInv, SessionsOK
<1> QED
  BY <1>3, <1>4 DEF SessionOK

\* The reference is given back; the call goes on to destroy the context, or ends.
LEMMA ReleaseMove ==
    ASSUME SInv, CInv, NEW t \in Threads, NEW R, NEW f, NEW g, Moves(t, R, f, g, NoCall),
           BelowOK', NEW d, GivesBack(t, f, d), RefDropped(d),
           \/ g = NoCall /\ ctxes' = ctxes
           \/ /\ g \in Call /\ g.op = "close" /\ g.pc = "destroy" /\ g.c = d /\ g.s = f.s
              /\ ctxs[d].ref = 1 /\ NoDuplicates(ctxes')
              /\ Range(ctxes') = Range(ctxes) \ {d},
           UNCHANGED <<sess, heads, single, wait, fault>>
    PROVE  CInv'
<1>1. /\ f \in Call /\ f.op = "close" /\ f.pc = "release" /\ f.c = d /\ f.s \in Sessions
      /\ d \in Ctxs /\ f \in Leaving(d) /\ f \notin InsideOf(d) /\ f \notin Destroying(d)
      /\ ctxs[d] # NULL /\ CtxOK(d) /\ wait[t] = NULL
      /\ ctxs[d].ref \in Nat /\ ctxs[d].ref > 0 /\ d \in Range(ctxes) /\ ~ctxs[d].init
  BY DEF GivesBack
<1>2. PICK s \in Sessions : s = f.s
  BY <1>1
<1>3. /\ f \notin Owned(s) /\ f \notin Closing(s) /\ g \notin Owned(s) /\ g \notin Closing(s)
      /\ g \notin Leaving(d) /\ g \notin InsideOf(d)
  BY <1>1, NoCallType DEF Owned, OwnsSession, Closing, Leaving, InsideOf, Inside
<1>4. \A c \in Ctxs : ctxs'[c].init <=> ctxs[c].init
  BY DEF RefDropped
<1>5. SessionOK(s)'
  <2>1. sess[s] # NULL /\ sess[s].ctx # NULL => sess[s].ctx \in Ctxs
    BY DEF SInv, SessTypes, Data, Session
  <2> QED
    BY <1>1, <1>3, <1>4, <2>1, BeyondSession
<1>6. Tied(f, s, d) /\ Tied(g, s, d) /\ Tied(NoCall, s, d)
  BY <1>1, <1>2, OwnPart, NoCallParts, NoCallType DEF Tied
<1>7. StepAt(t, R, s, d, f, g, NoCall)
  <2>1. \A c \in Ctxs \ {d} : c \in Range(ctxes') <=> c \in Range(ctxes)
    OBVIOUS
  <2> QED
    BY <1>4, <1>6, <2>1 DEF StepAt, RefDropped
<1>8. RestKept(R, s, d)
  BY <1>4 DEF RestKept, SessKept
<1>9. g \in Call => FrameOK(g)'
  BY NoCallType DEF FrameOK, InCtx
<1>10. CtxOK(d)'
  <2>1. Cnt(stack', Leaving(d)) = Cnt(stack, Leaving(d)) - 1 /\ Cnt(stack, Leaving(d)) \in Nat
        /\ Cnt(stack, Leaving(d)) > 0
    <3>1. Ind(f, Leaving(d)) = 1 /\ Ind(g, Leaving(d)) = 0 /\ Ind(NoCall, Leaving(d)) = 0
          /\ Leaving(d) \in SUBSET Call
      BY <1>1, <1>3, NoCallInd, Kinds DEF Ind
    <3>2. /\ Cnt(R, Leaving(d)) \in Nat
          /\ Cnt(stack, Leaving(d)) = Cnt(R, Leaving(d)) + Ind(f, Leaving(d))
          /\ Cnt(stack', Leaving(d)) = Cnt(R, Leaving(d)) + Ind(g, Leaving(d)) + Ind(NoCall, Leaving(d))
      BY <3>1 DEF Moves
    <3> QED
      BY <3>1, <3>2
  <2>2. Cnt(stack', InsideOf(d)) = Cnt(stack, InsideOf(d))
    <3>1. Ind(f, InsideOf(d)) = 0 /\ Ind(g, InsideOf(d)) = 0 /\ Ind(NoCall, InsideOf(d)) = 0
          /\ InsideOf(d) \in SUBSET Call
      BY <1>1, <1>3, NoCallInd, Kinds DEF Ind
    <3> QED
      BY <3>1, CountSame
  <2>3. Cnt(stack', Destroying(d)) = IF d \in Range(ctxes') THEN 0 ELSE 1
    <3>1. Ind(f, Destroying(d)) = 0 /\ Ind(NoCall, Destroying(d)) = 0
          /\ Ind(g, Destroying(d)) = (IF g = NoCall THEN 0 ELSE 1) /\ Destroying(d) \in SUBSET Call
      <4>1. g # NoCall => g \in Destroying(d)
        BY DEF Destroying
      <4>2. g = NoCall => g \notin Destroying(d)
        BY NoCallType DEF Destroying
      <4> QED
        BY <1>1, <4>1, <4>2, NoCallInd, Kinds DEF Ind
    <3>2. /\ Cnt(R, Destroying(d)) \in Nat
          /\ Cnt(stack, Destroying(d)) = Cnt(R, Destroying(d)) + Ind(f, Destroying(d))
          /\ Cnt(stack', Destroying(d)) =
                Cnt(R, Destroying(d)) + Ind(g, Destroying(d)) + Ind(NoCall, Destroying(d))
      BY <3>1 DEF Moves
    <3>3. Cnt(stack, Destroying(d)) = 0
      BY <1>1 DEF CtxOK
    <3>4. Cnt(stack', Destroying(d)) = IF g = NoCall THEN 0 ELSE 1
      BY <3>1, <3>2, <3>3
    <3>5. g = NoCall <=> d \in Range(ctxes')
      BY <1>1, NoCallType
    <3> QED
      BY <3>4, <3>5
  <2>4. SessionsOf(d)' = SessionsOf(d)
    BY DEF SessionsOf
  <2>5. ctxs'[d].ref = Cardinality(SessionsOf(d)') + Cnt(stack', Leaving(d))
    <3>1. /\ IsFiniteSet(SessionsOf(d))
          /\ ctxs[d].ref = Cardinality(SessionsOf(d)) + Cnt(stack, Leaving(d))
      BY <1>1 DEF CtxOK
    <3>2. Cardinality(SessionsOf(d)) \in Nat
      BY <3>1, FS_CardinalityType
    <3>3. ctxs'[d].ref = ctxs[d].ref - 1
      BY DEF RefDropped
    <3> QED
      BY <2>1, <2>4, <3>1, <3>2, <3>3
  <2>6. d \notin Range(ctxes') => ctxs'[d].ref = 0
    BY <1>1 DEF RefDropped
  <2> QED
    BY <1>1, <2>2, <2>3, <2>4, <2>5, <2>6 DEF CtxOK, RefDropped
<1>11. SingleOK'
  <2>1. SinglesSame
    BY SinglesStay DEF RefDropped, TaKept
  <2>2. PICK K : K = ctxs
    OBVIOUS
  <2>3. Ind(f, InSingle(K)) = 0 /\ Ind(g, InSingle(K)) = 0 /\ Ind(NoCall, InSingle(K)) = 0
    <3>1. g \in Call => g.c = d
      BY NoCallType
    <3> QED
      BY <1>1, <1>3, <3>1, NotInSingle, NoCallInd, Kinds
  <2>4. Ind(f, InSingle(ctxs)) = Ind(g, InSingle(ctxs)) + Ind(NoCall, InSingle(ctxs))
    BY <2>2, <2>3
  <2> QED
    BY <2>1, <2>4, SingleStays
<1>12. WaitOK'
  <2>1. WaitStep(t)
    BY <1>1, WaitSame
  <2> QED
    BY <2>1, WaitsStay DEF Moves
<1>13. CtxTypes' /\ NoDuplicates(ctxes')
  BY DEF CInv, CtxTypes, CtxsOK, RefDropped
<1> QED
  BY <1>5, <1>7, <1>8, <1>9, <1>10, <1>11, <1>12, <1>13, NoCallType, StepCInv

\* The end of tee_ta_close_session().
LEMMA ReleaseC ==
    ASSUME SInv, CInv, NEW t \in Threads, Release(t) PROVE CInv'
<1>1. PICK f : f = Top(t)
  OBVIOUS
<1>2. At(t, "release")
  BY DEF Release
<1>3. PICK d : d = f.c
  OBVIOUS
<1>4. GivesBack(t, f, d)
  BY <1>1, <1>2, <1>3, ReleaseCtx
<1>5. /\ f \in Call /\ f.op = "close" /\ stack[t] # <<>> /\ d \in Ctxs /\ ctxs[d] \in Ctx
      /\ ctxs[d].ref \in Nat /\ ctxs[d].ref > 0 /\ d \in Range(ctxes)
  BY <1>4 DEF GivesBack
<1>6. /\ ctxs' = [ctxs EXCEPT ![d].ref = @ - 1] /\ UNCHANGED <<sess, heads, single, wait, fault>>
      /\ IF ctxs[d].ref = 1 /\ ctxs[d].ta \notin KeepAlive \cap Single
         THEN ctxes' = Without(ctxes, d) /\ Goto(t, "destroy")
         ELSE ctxes' = ctxes /\ Return(t)
  BY <1>1, <1>3, <1>5 DEF Release
<1>7. RefDropped(d)
  <2>1. PICK k : k = [ctxs[d] EXCEPT !.ref = ctxs[d].ref - 1]
    OBVIOUS
  <2>2. ctxs[d].ref - 1 \in Nat
    BY <1>5
  <2>3. k \in Ctx /\ k.ta = ctxs[d].ta /\ k.ref = ctxs[d].ref - 1 /\ k.init = ctxs[d].init
        /\ k.panicked = ctxs[d].panicked /\ k.busy = ctxs[d].busy
    BY <1>5, <2>1, <2>2 DEF Ctx
  <2>4. ctxs' = [ctxs EXCEPT ![d] = k] /\ ctxs \in [Ctxs -> Ctx \cup {NULL}]
    BY <1>6, <2>1 DEF CInv, CtxTypes
  <2> QED
    BY <1>5, <2>3, <2>4, NullAssumption DEF RefDropped
<1>8. CASE ctxs[d].ref = 1 /\ ctxs[d].ta \notin KeepAlive \cap Single
  <2>1. ctxes' = Without(ctxes, d) /\ Goto(t, "destroy")
    BY <1>6, <1>8
  <2>2. Range(ctxes') = Range(ctxes) \ {d} /\ NoDuplicates(ctxes')
    <3>1. ctxes \in Seq(Ctxs) /\ NoDuplicates(ctxes)
      BY DEF SInv, SessTypes, Data, CInv, CtxsOK
    <3> QED
      BY <1>5, <2>1, <3>1, WithoutElement
  <2>3. PICK g : g = [f EXCEPT !.pc = "destroy"]
    OBVIOUS
  <2>4. Variant(f, g) /\ g.pc = "destroy" /\ g.c = f.c
    BY <1>5, <2>3, CallFields, Labels
  <2>5. g \in Call /\ g.op = "close" /\ g.s = f.s /\ g.h = f.h /\ g.c = d
    BY <1>3, <1>5, <2>4 DEF Variant
  <2>6. stack' = [stack EXCEPT ![t] = <<g>> \o Tail(stack[t])]
    BY <1>1, <2>1, <2>3 DEF Goto, Become
  <2>7. BelowOK' /\ \E R : Moves(t, R, f, g, NoCall)
    BY <1>1, <1>5, <2>5, <2>6, BecomeMoves DEF CInv
  <2>8. PICK R : Moves(t, R, f, g, NoCall)
    BY <2>7
  <2> QED
    BY <1>4, <1>6, <1>7, <1>8, <2>2, <2>4, <2>5, <2>7, <2>8, ReleaseMove
<1>9. CASE ~(ctxs[d].ref = 1 /\ ctxs[d].ta \notin KeepAlive \cap Single)
  <2>1. ctxes' = ctxes /\ Return(t)
    BY <1>6, <1>9
  <2>2. BelowOK' /\ \E R : Moves(t, R, f, NoCall, NoCall)
    BY <1>1, <1>5, <2>1, ReturnMoves DEF CInv
  <2>3. PICK R : Moves(t, R, f, NoCall, NoCall)
    BY <2>2
  <2> QED
    BY <1>4, <1>6, <1>7, <2>1, <2>2, <2>3, ReleaseMove
<1> QED
  BY <1>8, <1>9
\* A call that works in the context d, after it has found it and before it has
\* freed its session, has a session of d.
LEMMA UsersSessions ==
    ASSUME SInv, CInv, NEW u \in Threads, NEW e \in Range(stack[u]), NEW d \in Ctxs,
           \/ InCtx(e) /\ e.c = d
           \/ e.pc \in {"unlink", "refc"} /\ e.c = d
           \/ e.pc \in {"opened", "begin"} /\ sess[e.s].ctx = d
    PROVE  e.s \in SessionsOf(d)
<1>1. CallOK(u, e) /\ FrameOK(e)
  BY DEF SInv, CallsOK, CInv, FramesOK
<1>2. e \in Call /\ e.op \in {"open", "invoke", "close", "cancel"} /\ e.s \in Sessions
  <2>1. stack[u] \in Seq(Call)
    BY DEF SInv, SessTypes, Stacks
  <2>2. e \in Call
    BY <2>1 DEF Range
  <2> QED
    BY <1>1, <2>2 DEF Call, CallOK
<1>3. e \in Owned(e.s)
  <2>1. CASE e.pc = "begin"
    BY <1>1, <1>2, <2>1 DEF CallOK, Shape, Owned, OwnsSession
  <2>2. CASE e.pc # "begin"
    BY <1>1, <1>2, <2>2, FrameTied
  <2> QED
    BY <2>1, <2>2
<1>4. sess[e.s] # NULL
  BY <1>1, <1>3 DEF CallOK
<1>5. sess[e.s].ctx = d
  BY <1>1 DEF FrameOK
<1> QED
  BY <1>2, <1>4, <1>5 DEF SessionsOf

\* What is known of a context that is destroyed.
Dying(t, f, d) ==
    /\ f \in Call /\ f.op = "close" /\ f.pc = "destroy" /\ f.c = d /\ f.s \in Sessions
    /\ stack[t] # <<>> /\ wait[t] = NULL /\ f \in Range(stack[t])
    /\ d \in Ctxs /\ f \in Destroying(d) /\ f \notin InsideOf(d) /\ f \notin Leaving(d)
    /\ ctxs[d] # NULL /\ ~ctxs[d].init /\ ctxs[d].ref = 0 /\ d \notin Range(ctxes)
    /\ SessionsOf(d) = {} /\ Cnt(stack, Leaving(d)) = 0
    /\ PlacesOf(stack, Destroying(d)) = {<<t, 1>>}

\* Nobody refers to it.
LEMMA DestroyCtx ==
    ASSUME SInv, CInv, NEW t \in Threads, At(t, "destroy"), NEW f, f = Top(t), NEW d, d = f.c
    PROVE  Dying(t, f, d)
<1>1. f \in Call /\ f.pc = "destroy" /\ Shape(f) /\ stack[t] # <<>> /\ wait[t] = NULL /\ FrameOK(f)
      /\ f.op \in {"open", "invoke", "close", "cancel"} /\ f.s \in Sessions
      /\ f.c \in Ctxs \cup {NULL} /\ f \in Range(stack[t])
  BY AtTop
<1>2. f.op = "close" /\ d \in Ctxs
  BY <1>1 DEF Shape, FrameOK
<1>3. f \in Destroying(d) /\ f \notin InsideOf(d) /\ f \notin Leaving(d)
  BY <1>1, <1>2 DEF Leaving, InsideOf, Inside, Destroying
<1>4. ctxs[d] # NULL /\ ctxs[d] \in Ctx /\ CtxOK(d)
  BY <1>1, <1>2, <1>3, PartCtx
<1>5. Cnt(stack, Destroying(d)) # 0
  BY <1>1, <1>3, CntZero DEF SInv, SessTypes
<1>6. d \notin Range(ctxes) /\ Cnt(stack, Destroying(d)) = 1 /\ ctxs[d].ref = 0
  BY <1>4, <1>5 DEF CtxOK
<1>7. /\ IsFiniteSet(SessionsOf(d)) /\ ~ctxs[d].init
      /\ ctxs[d].ref = Cardinality(SessionsOf(d)) + Cnt(stack, Leaving(d))
  BY <1>4, <1>6 DEF CtxOK
<1>8. Cardinality(SessionsOf(d)) \in Nat /\ Cnt(stack, Leaving(d)) \in Nat
  BY <1>7, FS_CardinalityType, CntNat
<1>9. Cardinality(SessionsOf(d)) = 0 /\ Cnt(stack, Leaving(d)) = 0
  BY <1>6, <1>7, <1>8
<1>10. SessionsOf(d) = {}
  BY <1>7, <1>9, FS_EmptySet
<1>11. PlacesOf(stack, Destroying(d)) = {<<t, 1>>}
  BY <1>1, <1>3, <1>6, OnePlace
<1> QED
  BY <1>1, <1>2, <1>3, <1>4, <1>6, <1>7, <1>9, <1>10, <1>11 DEF Dying

\* No thread waits for it to be free.
LEMMA NobodyWaits ==
    ASSUME SInv, CInv, NEW t \in Threads, NEW f, NEW d, Dying(t, f, d)
    PROVE  Waiters(<<"busy", d>>) = {}
<1> SUFFICES ASSUME NEW u \in Threads, wait[u] = <<"busy", d>> PROVE FALSE
  BY DEF Waiters
<1>1. d \in Ctxs /\ SessionsOf(d) = {}
  BY DEF Dying
<1>2. wait[u] # NULL
  <2>1. <<"busy", d>> \in Condvars
    BY <1>1 DEF Condvars
  <2> QED
    BY <2>1, WaitAssumption
<1>3. stack[u] # <<>> /\ Waits(Top(u), <<"busy", d>>)
  BY <1>2 DEF CInv, WaitOK
<1>4. PICK e : e = Top(u)
  OBVIOUS
<1>5. e.pc = "setbusy" /\ e.c = d
  BY <1>3, <1>4 DEF Waits
<1>6. e \in Range(stack[u])
  BY <1>3, <1>4, TopCall
<1>7. e.s \in SessionsOf(d)
  BY <1>1, <1>5, <1>6, UsersSessions DEF InCtx
<1> QED
  BY <1>1, <1>7
\* Nobody opens or closes a session of its list: a call that did would be called
\* by a call that runs or destroys the context.
LEMMA ListFree ==
    ASSUME SInv, CInv, NEW t \in Threads, NEW f, NEW d, Dying(t, f, d),
           NEW r \in Range(heads[d])
    PROVE  Cnt(stack, Opening(r)) = 0 /\ Cnt(stack, Closing(r)) = 0
<1>1. d \in Ctxs /\ SessionsOf(d) = {} /\ PlacesOf(stack, Destroying(d)) = {<<t, 1>>} /\ d \in Heads
  BY DEF Dying, Heads
<1>2. d # NSEC
  BY <1>1, TaManagerAssumption
<1>3. ASSUME NEW u \in Threads, NEW e \in Range(stack[u]), e \in Opening(r) \/ e \in Closing(r)
      PROVE  FALSE
  <2>1. CallOK(u, e) /\ FrameOK(e)
    BY DEF SInv, CallsOK, CInv, FramesOK
  <2>2. e \in Call /\ e.s = r /\ e.h \in Heads
    BY <1>3 DEF Opening, Owned, OwnsSession, Closing, Call
  <2>3. r \in Range(heads[e.h])
    <3>1. CASE e \in Opening(r)
      BY <2>1, <2>2, <3>1 DEF Opening, CallOK
    <3>2. CASE e \in Closing(r) /\ e.pc = "get"
      BY <2>1, <2>2, <3>2 DEF FrameOK
    <3>3. CASE e \in Closing(r) /\ e.pc # "get"
      <4>1. e \in Owned(r)
        BY <2>2, <3>3 DEF Closing, Owned, OwnsSession
      <4> QED
        BY <2>1, <2>2, <4>1 DEF CallOK
    <3> QED
      BY <1>3, <3>1, <3>2, <3>3
  <2>4. e.h = d
    BY <1>1, <2>2, <2>3 DEF SInv, ListsOK
  <2>5. PICK i \in DOMAIN stack[u] : stack[u][i] = e
    BY DEF Range
  <2>6. PICK j \in DOMAIN stack[u] : j > i /\ Hosts(stack[u][j], d)
    BY <1>2, <2>4, <2>5 DEF CInv, BelowOK, Below
  <2>7. PICK x : x = stack[u][j]
    OBVIOUS
  <2>8. x \in Range(stack[u]) /\ x.c = d /\ x.pc \in {"run", "destroy"}
    BY <2>6, <2>7 DEF Range, Hosts
  <2>9. CASE x.pc = "run"
    <3>1. x.s \in SessionsOf(d)
      BY <1>1, <2>8, <2>9, UsersSessions DEF InCtx
    <3> QED
      BY <1>1, <3>1
  <2>10. CASE x.pc = "destroy"
    <3>1. stack[u] \in Seq(Call)
      BY DEF SInv, SessTypes, Stacks
    <3>2. x \in Call /\ i \in Nat /\ i >= 1 /\ j \in Nat
      BY <2>5, <2>6, <2>7, <3>1
    <3>3. x \in Destroying(d)
      BY <2>8, <2>10, <3>2 DEF Destroying
    <3>4. <<u, j>> \in Places(stack)
      BY <2>6 DEF Places
    <3>5. <<u, j>> \in PlacesOf(stack, Destroying(d))
      BY <2>7, <3>3, <3>4 DEF PlacesOf
    <3>6. j = 1
      BY <1>1, <3>5
    <3> QED
      BY <2>6, <3>2, <3>6
  <2> QED
    BY <2>8, <2>9, <2>10
<1>4. stack \in Stacks
  BY DEF SInv, SessTypes
<1> QED
  BY <1>3, <1>4, CntZero

\* Nobody goes on to access it.
LEMMA NobodyUses ==
    ASSUME SInv, CInv, NEW t \in Threads, NEW f, NEW d, Dying(t, f, d), NEW r
    PROVE  ~CtxUsed(t, d, r)
<1>1. d \in Ctxs /\ SessionsOf(d) = {} /\ PlacesOf(stack, Destroying(d)) = {<<t, 1>>}
      /\ Cnt(stack, Leaving(d)) = 0 /\ stack \in Stacks
  BY DEF Dying, SInv, SessTypes
<1>2. ~\E s \in Sessions \ {r} : sess[s] # NULL /\ sess[s].ctx = d
  BY <1>1 DEF SessionsOf
<1>3. ASSUME NEW x \in CallsIn, UsedCtx(stack[x[1]][x[2]]) = d PROVE x = <<t, 1>>
  <2>1. PICK u \in Threads : \E i \in DOMAIN stack[u] : x = <<u, i>>
    BY DEF CallsIn
  <2>2. PICK i \in DOMAIN stack[u] : x = <<u, i>>
    BY <2>1
  <2>3. PICK e : e = stack[u][i]
    OBVIOUS
  <2>4. e \in Range(stack[u]) /\ x \in Places(stack) /\ UsedCtx(e) = d
    BY <1>3, <2>2, <2>3 DEF Range, Places
  <2>5. stack[u] \in Seq(Call)
    BY DEF SInv, SessTypes, Stacks
  <2>6. e \in Call /\ CallOK(u, e) /\ FrameOK(e) /\ d # NULL
    BY <1>1, <2>3, <2>4, <2>5, NotNull DEF SInv, CallsOK, CInv, FramesOK
  <2>7. ~(InCtx(e) /\ e.c = d) /\ ~(e.pc \in {"unlink", "refc"} /\ e.c = d)
        /\ ~(e.pc \in {"opened", "begin"} /\ sess[e.s].ctx = d)
    BY <1>1, <2>4, UsersSessions
  <2>8. e \notin Leaving(d)
    BY <1>1, <2>4, CntZero
  <2>9. e.c = d /\ e.pc \in {"loading", "setbusy", "enter", "run", "clear", "after", "put",
                             "unlink", "refc", "release", "destroyctx", "destroy"}
        /\ (e.pc = "put" => e.op = "open")
    BY <2>4, <2>6, <2>7 DEF UsedCtx
  <2>10. e.pc \in {"clear", "release", "destroy"} /\ (e.pc = "clear" => e.op = "close")
    BY <2>6, <2>7, <2>9 DEF InCtx, FrameOK
  <2>11. e.pc = "release" => e.op = "close"
    BY <2>6 DEF CallOK, Shape, Call
  <2>12. e.pc = "destroy"
    BY <2>6, <2>8, <2>9, <2>10, <2>11 DEF Leaving
  <2>13. e \in Destroying(d)
    BY <2>6, <2>9, <2>12 DEF Destroying
  <2>14. x \in PlacesOf(stack, Destroying(d))
    BY <2>2, <2>3, <2>4, <2>13 DEF PlacesOf
  <2> QED
    BY <1>1, <2>14
<1> QED
  BY <1>2, <1>3 DEF CtxUsed, CallsThat

\* The context is freed.
LEMMA DestroyFrees ==
    ASSUME SInv, CInv, NEW t \in Threads, NEW f, f = Top(t), NEW d, Dying(t, f, d),
           heads[d] = <<>>, ctxs' = [ctxs EXCEPT ![d] = NULL], Return(t),
           UNCHANGED <<sess, heads, ctxes, single, wait, fault>>
    PROVE  CInv'
<1>1. /\ f \in Call /\ f.op = "close" /\ f.pc = "destroy" /\ f.c = d /\ f.s \in Sessions
      /\ stack[t] # <<>> /\ wait[t] = NULL /\ f \notin InsideOf(d) /\ f \notin Leaving(d)
      /\ d \in Ctxs /\ f \in Destroying(d) /\ d \notin Range(ctxes)
      /\ SessionsOf(d) = {} /\ Cnt(stack, Leaving(d)) = 0
      /\ PlacesOf(stack, Destroying(d)) = {<<t, 1>>}
  BY DEF Dying
<1>2. BelowOK' /\ \E R : Moves(t, R, f, NoCall, NoCall)
  BY <1>1, ReturnMoves DEF CInv
<1>3. PICK R : Moves(t, R, f, NoCall, NoCall)
  BY <1>2
<1>4. PICK s \in Sessions : s = f.s
  BY <1>1
<1>5. ctxs'[d] = NULL /\ ctxs' \in [Ctxs -> Ctx \cup {NULL}]
      /\ \A c \in Ctxs \ {d} : ctxs'[c] = ctxs[c]
  <2>1. ctxs \in [Ctxs -> Ctx \cup {NULL}]
    BY DEF CInv, CtxTypes
  <2> QED
    BY <1>1, <2>1
<1>6. /\ f \notin Owned(s) /\ f \notin Closing(s) /\ NoCall \notin Owned(s) /\ NoCall \notin Closing(s)
  BY <1>1, NoCallType DEF Owned, OwnsSession, Closing
<1>7. SessionOK(s)'
  <2>1. sess[s] # NULL /\ sess[s].ctx # NULL => sess[s].ctx \in Ctxs /\ sess[s].ctx # d
    BY <1>1 DEF SInv, SessTypes, Data, Session, SessionsOf
  <2>2. sess[s] # NULL /\ sess[s].ctx # NULL /\ ctxs'[sess[s].ctx].init => ctxs[sess[s].ctx].init
    BY <1>5, <2>1
  <2> QED
    BY <1>1, <1>3, <1>6, <2>2, BeyondSession
<1>8. Tied(f, s, d) /\ Tied(NoCall, s, d)
  BY <1>1, <1>4, OwnPart, NoCallParts DEF Tied
<1>9. StepAt(t, R, s, d, f, NoCall, NoCall)
  BY <1>1, <1>3, <1>5, <1>8 DEF StepAt
<1>10. RestKept(R, s, d)
  BY <1>1 DEF RestKept, SessKept
<1>11. CtxOK(d)'
  <2>1. Cnt(stack', Leaving(d)) = 0
    <3>1. Ind(f, Leaving(d)) = 0 /\ Ind(NoCall, Leaving(d)) = 0 /\ Leaving(d) \in SUBSET Call
      BY <1>1, NoCallInd, Kinds DEF Ind
    <3> QED
      BY <1>1, <1>3, <3>1, CountSame
  <2>2. Cnt(stack', Destroying(d)) = 0
    <3>1. PICK F : F = Destroying(d)
      OBVIOUS
    <3>2. Ind(f, F) = 1 /\ Ind(NoCall, F) = 0 /\ F \in SUBSET Call
      BY <1>1, <3>1, NoCallInd, Kinds DEF Ind
    <3>3. /\ Cnt(R, F) \in Nat /\ Cnt(stack, F) = Cnt(R, F) + Ind(f, F)
          /\ Cnt(stack', F) = Cnt(R, F) + Ind(NoCall, F) + Ind(NoCall, F)
      BY <1>3, <3>2 DEF Moves
    <3>4. Cnt(stack, F) = 1
      <4>1. PICK x : x = <<t, 1>>
        OBVIOUS
      <4>2. PlacesOf(stack, F) = {x}
        BY <1>1, <3>1, <4>1
      <4> QED
        BY <4>2, FS_Singleton DEF Cnt
    <3>5. Cnt(stack', F) = 0
      BY <3>2, <3>3, <3>4
    <3> QED
      BY <3>1, <3>5
  <2>3. SessionsOf(d)' = {}
    BY <1>1 DEF SessionsOf
  <2>4. IsFiniteSet(SessionsOf(d)')
    BY <2>3, FS_EmptySet
  <2> QED
    BY <1>1, <1>5, <2>1, <2>2, <2>3, <2>4 DEF CtxOK
<1>12. SingleOK'
  <2>1. \A u \in Threads : \A e \in Range(R[u]) : e \notin InsideOf(d)
    BY <1>1, <1>3, NobodyInside
  <2>2. \A u \in Threads : \A e \in Range(stack'[u]) : e \notin InsideOf(d)
    BY <1>3, <2>1 DEF Moves
  <2>3. SinglesSame
    BY <1>5, <2>2, SinglesStay DEF TaKept
  <2>4. PICK K : K = ctxs
    OBVIOUS
  <2>5. Ind(f, InSingle(K)) = 0 /\ Ind(NoCall, InSingle(K)) = 0
    BY <1>1, NotInSingle, NoCallInd, Kinds
  <2>6. Ind(f, InSingle(ctxs)) = Ind(NoCall, InSingle(ctxs)) + Ind(NoCall, InSingle(ctxs))
    BY <2>4, <2>5
  <2> QED
    BY <1>3, <2>3, <2>6, SingleStays
<1>13. WaitOK'
  <2>1. WaitStep(t)
    BY <1>1, WaitSame
  <2> QED
    BY <1>3, <2>1, WaitsStay DEF Moves
<1>14. CtxTypes' /\ NoDuplicates(ctxes')
  BY <1>5 DEF CInv, CtxTypes, CtxsOK
<1> QED
  BY <1>2, <1>7, <1>9, <1>10, <1>11, <1>12, <1>13, <1>14, NoCallType, StepCInv

\* A session that the TA has opened is closed.
LEMMA DestroyCloses ==
    ASSUME SInv, CInv, NEW t \in Threads, NEW f, f = Top(t), NEW d, Dying(t, f, d),
           heads[d] # <<>>, Calling(t, f, CloseCall(d, Head(heads[d]))),
           UNCHANGED <<sess, ctxs, heads, ctxes, single, wait, fault>>
    PROVE  CInv'
<1>1. /\ f \in Call /\ f.pc = "destroy" /\ f.c = d /\ d \in Ctxs /\ d \in Heads
      /\ stack[t] # <<>> /\ wait[t] = NULL /\ f \in Range(stack[t])
  BY DEF Dying, Heads
<1>2. PICK r : r = Head(heads[d])
  OBVIOUS
<1>3. r \in Range(heads[d])
  <2>1. heads[d] \in Seq(Sessions)
    BY <1>1 DEF SInv, SessTypes, Data
  <2> QED
    BY <1>2, <2>1 DEF Range
<1>4. r \in Sessions /\ sess[r] # NULL /\ sess[r] \in Session
  BY <1>1, <1>3, Listed
<1>5. PICK g : g = CloseCall(d, r)
  OBVIOUS
<1>6. g \in Call /\ g.op = "close" /\ g.pc = "get" /\ g.h = d /\ g.s = r /\ g.res = "none"
  BY <1>1, <1>4, <1>5, Labels DEF CloseCall, Call
<1>7. stack' = [stack EXCEPT ![t] = <<g>> \o stack[t]]
  BY <1>1, <1>2, <1>5, <1>6, CallsToo
<1>8. Hosted(stack[t], g)
  BY <1>1, <1>6 DEF Hosted, Hosts
<1>9. NoParts(g)
  BY <1>6, ApartNoParts DEF Apart
<1>10. g \notin Owned(r) /\ g \in Closing(r)
  BY <1>6 DEF Owned, OwnsSession, Closing
<1>11. g \notin Opening(r) /\ Ind(g, Owned(r)) = 0 /\ Ind(g, Closing(r)) = 1
  BY <1>10 DEF Opening, Ind
<1>12. Cnt(stack, Opening(r)) = 0 /\ Cnt(stack, Closing(r)) = 0
  BY <1>3, ListFree
<1>13. SessionOnly(r) /\ sess'[r].ref = sess[r].ref /\ (sess'[r].told <=> sess[r].told)
  BY <1>4, SessionsUnchanged
<1>14. sess'[r].ref = sess[r].ref + Ind(g, Owned(r))
  BY <1>4, <1>11, <1>13 DEF Session
<1>15. FrameOK(g)
  BY <1>3, <1>4, <1>6 DEF FrameOK, InCtx
<1>16. WaitStep(t)
  BY <1>1, WaitSame
<1>17. Cnt(stack, Closing(r)) + Ind(g, Closing(r)) <= 1
  BY <1>11, <1>12
<1> QED
  BY <1>4, <1>6, <1>7, <1>8, <1>9, <1>11, <1>12, <1>13, <1>14, <1>15, <1>16, <1>17, RefPush

\* destroy_context().
LEMMA DestroyContextC ==
    ASSUME SInv, CInv, NEW t \in Threads, DestroyContext(t) PROVE CInv'
<1>1. PICK f : f = Top(t)
  OBVIOUS
<1>2. At(t, "destroy")
  BY DEF DestroyContext
<1>3. PICK d : d = f.c
  OBVIOUS
<1>4. Dying(t, f, d)
  BY <1>1, <1>2, <1>3, DestroyCtx
<1>5. Waiters(<<"busy", d>>) = {} /\ ~CtxUsed(t, d, f.s) /\ f.op = "close"
  BY <1>4, NobodyWaits, NobodyUses DEF Dying
<1>6. CASE heads[d] # <<>>
  <2>1. Calling(t, f, CloseCall(d, Head(heads[d])))
        /\ UNCHANGED <<sess, ctxs, heads, ctxes, single, wait, fault>>
    BY <1>1, <1>3, <1>5, <1>6 DEF DestroyContext
  <2> QED
    BY <1>1, <1>4, <1>6, <2>1, DestroyCloses
<1>7. CASE heads[d] = <<>>
  <2>1. ctxs' = [ctxs EXCEPT ![d] = NULL] /\ Return(t)
        /\ UNCHANGED <<sess, heads, ctxes, single, wait, fault>>
    BY <1>1, <1>3, <1>5, <1>7 DEF DestroyContext
  <2> QED
    BY <1>1, <1>4, <1>7, <2>1, DestroyFrees
<1> QED
  BY <1>6, <1>7

\* What only panicked TAs lead to does not happen.
LEMMA NoPanicC ==
    ASSUME SInv, CInv, NEW t \in Threads PROVE ~AfterPanic(t) /\ ~DestroyTaCtx(t)
<1>1. ASSUME AfterPanic(t) PROVE FALSE
  <2>1. PICK f : f = Top(t)
    OBVIOUS
  <2>2. At(t, "after") /\ ctxs[f.c].panicked
    BY <1>1, <2>1 DEF AfterPanic
  <2>3. f.pc = "after" /\ FrameOK(f) /\ f \in Range(stack[t]) /\ f.c \in Ctxs \cup {NULL}
    BY <2>1, <2>2, AtTop
  <2>4. PICK d \in Ctxs : d = f.c
    BY <2>3 DEF FrameOK, InCtx
  <2>5. f.s \in SessionsOf(d)
    BY <2>3, <2>4, UsersSessions DEF InCtx
  <2>6. f.s \in Sessions /\ sess[f.s] # NULL /\ sess[f.s].ctx = d
    BY <2>5 DEF SessionsOf
  <2>7. ~ctxs[d].panicked
    BY <2>6, LiveCtx
  <2> QED
    BY <2>2, <2>4, <2>7
<1>2. ASSUME DestroyTaCtx(t) PROVE FALSE
  <2>1. PICK f : f = Top(t)
    OBVIOUS
  <2>2. At(t, "destroyctx")
    BY <1>2 DEF DestroyTaCtx
  <2>3. f.pc = "destroyctx" /\ FrameOK(f)
    BY <2>1, <2>2, AtTop
  <2> QED
    BY <2>3 DEF FrameOK
<1> QED
  BY <1>1, <1>2

-----------------------------------------------------------------------------
(* A new session.                                                          *)

\* Another call than f, which loads its context, has no reference of s.
LEMMA NotLoading ==
    ASSUME SInv, CInv, NEW t \in Threads, stack[t] # <<>>, NEW f, f = Top(t),
           NEW s \in Sessions, sess[s] # NULL, f \in Owned(s), f.pc # "loading"
    PROVE  Cnt(stack, Loading(s)) = 0
<1>1. stack \in Stacks
  BY DEF SInv, SessTypes
<1>2. ASSUME NEW u \in Threads, NEW e \in Range(stack[u]), e \in Loading(s) PROVE FALSE
  <2>1. e \in Opening(s) /\ e \in Owned(s) /\ e.pc = "loading"
    BY <1>2 DEF Loading, Opening
  <2>2. Cnt(stack, Opening(s)) # 0 /\ Cnt(stack, Opening(s)) \in Nat
    BY <1>1, <2>1, CntZero
  <2>3. Cnt(stack, Owned(s)) = 1
    <3>1. Cnt(stack, Opening(s)) > 0
      BY <2>2
    <3> QED
      BY <3>1 DEF CInv, SessionsOK, SessionOK
  <2>4. PlacesOf(stack, Owned(s)) = {<<t, 1>>}
    BY <2>3, OnePlace
  <2>5. PICK i \in DOMAIN stack[u] : stack[u][i] = e
    BY DEF Range
  <2>6. <<u, i>> \in Places(stack)
    BY DEF Places
  <2>7. <<u, i>> \in PlacesOf(stack, Owned(s))
    BY <2>1, <2>5, <2>6 DEF PlacesOf
  <2>8. u = t /\ i = 1
    BY <2>4, <2>7
  <2>9. e = f
    <3>1. stack[t] \in Seq(Call)
      BY <1>1 DEF Stacks
    <3> QED
      BY <2>5, <2>8, <3>1 DEF Top
  <2> QED
    BY <2>1, <2>9
<1> QED
  BY <1>1, <1>2, CntZero

\* A TA that calls is loaded.
LEMMA CallerLoaded ==
    ASSUME SInv, CInv, NEW t \in Threads, NEW h \in Ctxs, MayCall(t, h)
    PROVE  ctxs[h] # NULL /\ ~ctxs[h].init
<1>1. h # NSEC
  BY TaManagerAssumption
<1>2. stack[t] # <<>> /\ At(t, "run") /\ Top(t).c = h
  BY <1>1 DEF MayCall
<1>3. PICK f : f = Top(t)
  OBVIOUS
<1>4. f.pc = "run" /\ f \in Range(stack[t]) /\ f.c = h /\ f \in Call /\ CallOK(t, f)
      /\ f.s \in Sessions
  BY <1>2, <1>3, AtTop
<1>5. PICK s \in Sessions : s = f.s
  BY <1>4
<1>6. s \in SessionsOf(h)
  BY <1>4, <1>5, UsersSessions DEF InCtx
<1>7. sess[s] # NULL /\ sess[s].ctx = h
  BY <1>6 DEF SessionsOf
<1>8. f \in Owned(s)
  BY <1>4, <1>5, FrameTied DEF InCtx
<1>9. Cnt(stack, Loading(s)) = 0
  BY <1>2, <1>3, <1>4, <1>7, <1>8, NotLoading
<1>10. SessionOK(s)
  BY DEF CInv, SessionsOK
<1>11. ~ctxs[h].init
  BY <1>7, <1>9, <1>10, NotNull DEF SessionOK
<1> QED
  BY <1>7, <1>11, LiveCtx

\* The new session s of the list h, of the context d or of none.
NewIn(s, h, d) ==
    /\ sess[s] = NULL /\ sess'[s] # NULL /\ sess'[s].ref = 1 /\ ~sess'[s].told /\ sess'[s].ctx = d
    /\ \A r \in Sessions \ {s} : sess'[r] = sess[r]
    /\ heads' = [heads EXCEPT ![h] = Append(heads[h], s)]
    /\ h \in Ctxs => ctxs[h] # NULL /\ ~ctxs[h].init
    /\ \A c \in Ctxs \ {d} : ctxs'[c] = ctxs[c]
    /\ ctxs' \in [Ctxs -> Ctx \cup {NULL}]
    /\ d \in Ctxs => ~ctxs'[d].init /\ ~ctxs[d].init /\ ctxs'[d].ta = ctxs[d].ta
    /\ d \in Ctxs \cup {NULL}
    /\ UNCHANGED <<ctxes, single, fault>>

\* A call opens a session.
LEMMA NewMove ==
    ASSUME SInv, CInv, NEW t \in Threads, NEW R, NEW g \in Call, Moves(t, R, NoCall, g, NoCall),
           BelowOK', NEW s \in Sessions, NEW h \in Heads, NEW d, NewIn(s, h, d), g.s = s,
           g \in Opening(s), NoParts(g), FrameOK(g)', d \in Ctxs => CtxOK(d)', WaitStep(t)
    PROVE  CInv'
<1>1. stack \in Stacks /\ SessionOK(s) /\ CountOK(s) /\ sess[s] = NULL
  BY DEF SInv, SessTypes, CInv, SessionsOK, CountsOK, NewIn
<1>2. Cnt(stack, Owned(s)) \in Nat /\ Cnt(stack, Opening(s)) \in Nat /\ Cnt(stack, Closing(s)) \in Nat
  BY <1>1, CntZero
<1>3. Cnt(stack, Owned(s)) = 0 /\ Cnt(stack, Opening(s)) = 0 /\ Cnt(stack, Closing(s)) = 0
  BY <1>1, <1>2 DEF SessionOK, CountOK
<1>4. ASSUME NEW F \in SUBSET Call
      PROVE  Cnt(stack, F) = Cnt(R, F) /\ Cnt(stack', F) = Cnt(R, F) + Ind(g, F) /\ Cnt(R, F) \in Nat
  <2>1. /\ Cnt(R, F) \in Nat /\ Cnt(stack, F) = Cnt(R, F) + Ind(NoCall, F)
        /\ Cnt(stack', F) = Cnt(R, F) + Ind(g, F) + Ind(NoCall, F)
    BY DEF Moves
  <2>2. Ind(NoCall, F) = 0 /\ Ind(g, F) \in Nat
    BY NoCallInd DEF Ind
  <2> QED
    BY <2>1, <2>2
<1>5. Untied(R, s)
  <2>1. R \in Stacks
    BY DEF Moves
  <2>2. Cnt(R, Owned(s)) = 0 /\ Cnt(R, Closing(s)) = 0
    BY <1>3, <1>4, Kinds
  <2> QED
    BY <2>1, <2>2, CntZero DEF Untied
<1>6. Cnt(stack', Owned(s)) = 1 /\ Cnt(stack', Opening(s)) = 1 /\ Cnt(stack', Closing(s)) = 0
  <2>1. Ind(g, Owned(s)) = 1 /\ Ind(g, Opening(s)) = 1 /\ Ind(g, Closing(s)) = 0
    BY DEF Ind, Opening, Closing
  <2>2. Cnt(R, Owned(s)) = 0 /\ Cnt(R, Opening(s)) = 0 /\ Cnt(R, Closing(s)) = 0
    BY <1>3, <1>4, Kinds
  <2> QED
    BY <1>4, <2>1, <2>2, Kinds
<1>7. SessionOK(s)'
  BY <1>6 DEF SessionOK, NewIn
<1>8. Tied(g, s, d) /\ Tied(NoCall, s, d)
  BY NoCallParts DEF Tied, NoParts
<1>9. StepAt(t, R, s, d, NoCall, g, NoCall)
  <2>1. heads \in [Heads -> Seq(Sessions)]
    BY DEF SInv, SessTypes, Data
  <2>2. PICK q : q = Append(heads[h], s)
    OBVIOUS
  <2>3. heads'[h] = q /\ \A i \in Heads \ {h} : heads'[i] = heads[i]
    BY <2>1, <2>2 DEF NewIn
  <2>4. Range(heads[h]) \subseteq Range(q)
    <3>1. heads[h] \in Seq(Sessions)
      BY <2>1
    <3> QED
      BY <2>2, <3>1 DEF Range
  <2>5. \A i \in Heads : Range(heads[i]) \ {s} \subseteq Range(heads'[i])
    BY <2>3, <2>4
  <2>6. \A c \in Ctxs : heads'[c] # <<>> => heads[c] # <<>> \/ (ctxs[c] # NULL /\ ~ctxs[c].init)
    BY <2>3 DEF NewIn, Heads
  <2> QED
    BY <1>8, <2>5, <2>6 DEF StepAt, NewIn
<1>10. RestKept(R, s, d)
  BY <1>5 DEF RestKept, NewIn
<1>11. SingleOK'
  <2>1. SinglesSame
    BY SinglesStay DEF TaKept, NewIn
  <2>2. Ind(g, InSingle(ctxs)) = 0 /\ Ind(NoCall, InSingle(ctxs)) = 0
    BY NoSingles, NoCallParts
  <2>3. Ind(NoCall, InSingle(ctxs)) = Ind(g, InSingle(ctxs)) + Ind(NoCall, InSingle(ctxs))
    BY <2>2
  <2> QED
    BY <2>1, <2>3, SingleStays DEF NewIn
<1>12. WaitOK'
  BY WaitsStay DEF Moves
<1>13. CtxTypes' /\ NoDuplicates(ctxes')
  BY DEF CInv, CtxTypes, CtxsOK, NewIn, WaitStep
<1> QED
  BY <1>7, <1>9, <1>10, <1>11, <1>12, <1>13, NoCallType, StepCInv

\* tee_ta_open_session() is called.
LEMMA OpenC ==
    ASSUME SInv, CInv, NEW t \in Threads, NEW h \in Heads, NEW ta \in TAs, NEW s \in Sessions,
           Open(t, h, ta, s)
    PROVE  CInv'
<1>1. MayCall(t, h) /\ sess[s] = NULL /\ heads' = [heads EXCEPT ![h] = Append(heads[h], s)]
      /\ UNCHANGED <<ctxes, single, fault>>
  BY DEF Open
<1>2. PICK f : f = [op |-> "open", pc |-> "init", h |-> h, ta |-> ta,
                    s |-> s, c |-> NULL, res |-> "none"]
  OBVIOUS
<1>3. f \in Call /\ f.op = "open" /\ f.h = h /\ f.s = s /\ f.ta = ta
  BY <1>2, Labels DEF Call
<1>4. PICK id \in Ids :
         InitWithContext(t, f, stack[t],
            [sess EXCEPT ![s] = [id |-> id, ctx |-> NULL, ref |-> 1, lock |-> NULL,
                                 unlink |-> FALSE, cancel |-> FALSE, told |-> FALSE]])
  BY <1>2 DEF Open
<1>5. PICK k : k = [id |-> id, ctx |-> NULL, ref |-> 1, lock |-> NULL,
                    unlink |-> FALSE, cancel |-> FALSE, told |-> FALSE]
  OBVIOUS
<1>6. k \in Session /\ k # NULL /\ k.ctx = NULL /\ k.ref = 1 /\ ~k.told
  <2>1. k \in Session /\ k.ctx = NULL /\ k.ref = 1 /\ ~k.told
    BY <1>5 DEF Session
  <2> QED
    BY <2>1, NullAssumption
<1>7. PICK S : S = [sess EXCEPT ![s] = k]
  OBVIOUS
<1>8. S[s] = k /\ S \in [Sessions -> Session \cup {NULL}] /\ \A r \in Sessions \ {s} : S[r] = sess[r]
  <2>1. sess \in [Sessions -> Session \cup {NULL}]
    BY DEF SInv, SessTypes, Data
  <2> QED
    BY <1>6, <1>7, <2>1
<1>9. PICK p : p = stack[t]
  OBVIOUS
<1>10. InitWithContext(t, f, p, S)
  BY <1>4, <1>5, <1>7, <1>9
<1>11. \/ InitLater(t, f, p, S) \/ \E c \in Range(ctxes) : InitJoins(t, f, p, S, c)
  BY <1>10, InitSplits DEF SInv, SessTypes, Data
<1>12. h \in Ctxs => ctxs[h] # NULL /\ ~ctxs[h].init
  BY <1>1, CallerLoaded
<1>13. ctxs \in [Ctxs -> Ctx \cup {NULL}] /\ wait \in [Threads -> Condvars \cup {NULL}]
       /\ <<"init", NULL>> \in Condvars /\ stack[t] \in Seq(Call)
  BY DEF CInv, CtxTypes, Condvars, SInv, SessTypes, Stacks
<1>14. ASSUME NEW l \in {"load", "init", "fail", "opened"}, NEW g, g = [f EXCEPT !.pc = l],
              stack' = [stack EXCEPT ![t] = <<g>> \o p]
       PROVE  /\ g \in Call /\ g.pc = l /\ g.op = "open" /\ g.s = s /\ g.ta = ta
              /\ g \in Opening(s) /\ NoParts(g) /\ BelowOK' /\ wait[t] = NULL
              /\ stack'[t] # <<>> /\ Head(stack'[t]) = g
              /\ \E R : Moves(t, R, NoCall, g, NoCall)
  <2>1. l \in PC
    BY Labels
  <2>2. g \in Call /\ g.pc = l /\ g.op = "open" /\ g.s = s /\ g.ta = ta /\ g.h = h
    BY <1>3, <1>14, <2>1 DEF Call
  <2>3. g \in Opening(s) /\ NoParts(g)
    BY <2>2, OpenerParts
  <2>4. Hosted(stack[t], g) /\ wait[t] = NULL
    BY <1>1, <2>2, MayCallHosts
  <2>5. stack' = [stack EXCEPT ![t] = <<g>> \o stack[t]]
    BY <1>9, <1>14
  <2>6. BelowOK' /\ \E R : Moves(t, R, NoCall, g, NoCall)
    BY <2>2, <2>4, <2>5, PushMoves DEF CInv
  <2>7. stack'[t] # <<>> /\ Head(stack'[t]) = g
    BY <1>9, <1>13, <1>14, <2>2, NewTop
  <2> QED
    BY <2>2, <2>3, <2>4, <2>6, <2>7
<1>15. CASE InitLater(t, f, p, S)
  <2>1. PICK l \in {"load", "init", "fail"} :
          /\ stack' = [stack EXCEPT ![t] = <<[f EXCEPT !.pc = l]>> \o p]
          /\ sess' = S /\ ctxs' = ctxs
          /\ wait' = IF l = "init" THEN [wait EXCEPT ![t] = <<"init", NULL>>] ELSE wait
    BY <1>15 DEF InitLater
  <2>2. PICK g : g = [f EXCEPT !.pc = l]
    OBVIOUS
  <2>3. stack' = [stack EXCEPT ![t] = <<g>> \o p]
    BY <2>1, <2>2
  <2>4. /\ g \in Call /\ g.pc = l /\ g.op = "open" /\ g.s = s /\ g.ta = ta
        /\ g \in Opening(s) /\ NoParts(g) /\ BelowOK' /\ wait[t] = NULL
        /\ stack'[t] # <<>> /\ Head(stack'[t]) = g
        /\ \E R : Moves(t, R, NoCall, g, NoCall)
    BY <1>14, <2>2, <2>3
  <2>5. PICK R : Moves(t, R, NoCall, g, NoCall)
    BY <2>4
  <2>6. PICK d : d = NULL
    OBVIOUS
  <2>7. NewIn(s, h, d)
    BY <1>1, <1>6, <1>8, <1>12, <1>13, <2>1, <2>6, NotNull DEF NewIn
  <2>8. FrameOK(g)'
    BY <1>6, <1>8, <2>1, <2>4 DEF FrameOK, InCtx
  <2>9. WaitStep(t)
    BY <1>13, <2>1, <2>4 DEF WaitStep, Waits
  <2> QED
    BY <2>4, <2>5, <2>6, <2>7, <2>8, <2>9, NotNull, NewMove
<1>16. CASE \E c \in Range(ctxes) : InitJoins(t, f, p, S, c)
  <2>1. PICK d \in Range(ctxes) : InitJoins(t, f, p, S, d)
    BY <1>16
  <2>2. PICK g : g = [f EXCEPT !.pc = "opened"]
    OBVIOUS
  <2>3. stack' = [stack EXCEPT ![t] = <<g>> \o p] /\ sess' = [S EXCEPT ![s].ctx = d]
        /\ ctxs' = [ctxs EXCEPT ![d].ref = @ + 1] /\ wait' = wait /\ ~ctxs[d].init
    BY <1>3, <2>1, <2>2 DEF InitJoins
  <2>4. /\ g \in Call /\ g.pc = "opened" /\ g.op = "open" /\ g.s = s /\ g.ta = ta
        /\ g \in Opening(s) /\ NoParts(g) /\ BelowOK' /\ wait[t] = NULL
        /\ stack'[t] # <<>> /\ Head(stack'[t]) = g
        /\ \E R : Moves(t, R, NoCall, g, NoCall)
    BY <1>14, <2>2, <2>3
  <2>5. PICK R : Moves(t, R, NoCall, g, NoCall)
    BY <2>4
  <2>6. Joined(s, d) /\ d \in Ctxs /\ ctxs[d] # NULL /\ CtxOK(d) /\ ctxs[d].ref \in Nat
    BY <2>3, JoinsCtx
  <2>7. PICK m : m = [k EXCEPT !.ctx = d]
    OBVIOUS
  <2>8. m \in Session /\ m # NULL /\ m.ctx = d /\ m.ref = 1 /\ ~m.told
    <3>1. m \in Session /\ m.ctx = d /\ m.ref = 1 /\ ~m.told
      BY <1>6, <2>6, <2>7 DEF Session
    <3> QED
      BY <3>1, NullAssumption
  <2>9. sess'[s] = m /\ \A r \in Sessions \ {s} : sess'[r] = sess[r]
    BY <1>8, <2>3, <2>7
  <2>10. NewIn(s, h, d)
    BY <1>1, <1>12, <2>3, <2>6, <2>8, <2>9 DEF NewIn, Joined
  <2>11. FrameOK(g)'
    BY <2>4, <2>6, <2>8, <2>9, NotNull DEF FrameOK, InCtx
  <2>12. CtxOK(d)'
    <3>1. s \notin SessionsOf(d)
      BY <1>1 DEF SessionsOf
    <3>2. SessionsOf(d)' = SessionsOf(d) \cup {s}
      <4>1. SessionsOf(d)' = {r \in Sessions : sess'[r] # NULL /\ sess'[r].ctx = d}
        BY DEF SessionsOf
      <4>2. ASSUME NEW r PROVE r \in SessionsOf(d)' <=> r \in SessionsOf(d) \cup {s}
        BY <1>1, <2>8, <2>9, <4>1 DEF SessionsOf
      <4> QED
        BY <4>2
    <3> QED
      BY <1>1, <2>4, <2>5, <2>6, <3>1, <3>2, NoCallParts, JoinedOK
  <2>13. WaitStep(t)
    BY <2>3, <2>4, WaitSame
  <2> QED
    BY <2>4, <2>5, <2>10, <2>11, <2>12, <2>13, NewMove
<1> QED
  BY <1>11, <1>15, <1>16

-----------------------------------------------------------------------------
(* The invariant.                                                          *)

\* It holds at first.
LEMMA InitCInv == Init => CInv
<1> SUFFICES ASSUME Init PROVE CInv
  OBVIOUS
<1>1. /\ sess = [s \in Sessions |-> NULL] /\ ctxs = [c \in Ctxs |-> NULL]
      /\ heads = [h \in Heads |-> <<>>] /\ ctxes = <<>>
      /\ single = [owner |-> NULL, count |-> 0] /\ stack = [t \in Threads |-> <<>>]
      /\ wait = [t \in Threads |-> NULL] /\ fault = "none"
  BY DEF Init
<1>2. stack \in Stacks
  BY InitSInv DEF SInv, SessTypes
<1>3. \A u \in Threads : stack[u] = <<>> /\ Range(stack[u]) = {} /\ DOMAIN stack[u] = {}
  BY <1>1 DEF Range
<1>4. \A F : Cnt(stack, F) = 0
  BY <1>2, <1>3, CntZero
<1>5. CtxTypes
  BY <1>1 DEF CtxTypes
<1>6. FramesOK /\ BelowOK /\ WaitOK
  BY <1>1, <1>3 DEF FramesOK, BelowOK, Below, WaitOK
<1>7. SessionsOK
  BY <1>1, <1>4 DEF SessionsOK, SessionOK
<1>8. CtxsOK
  <2>1. NoDuplicates(ctxes) /\ Range(ctxes) = {}
    BY <1>1 DEF NoDuplicates, Range
  <2>2. ASSUME NEW c \in Ctxs PROVE CtxOK(c)
    <3>1. SessionsOf(c) = {}
      BY <1>1 DEF SessionsOf
    <3>2. IsFiniteSet(SessionsOf(c))
      BY <3>1, FS_EmptySet
    <3>3. ctxs[c] = NULL /\ heads[c] = <<>>
      BY <1>1 DEF Heads
    <3> QED
      BY <1>4, <2>1, <3>1, <3>2, <3>3 DEF CtxOK
  <2> QED
    BY <2>1, <2>2 DEF CtxsOK
<1>9. SingleOK
  <2>1. single.count = 0 /\ single.owner = NULL
    BY <1>1
  <2> QED
    BY <1>3, <1>4, <2>1 DEF SingleOK
<1> QED
  BY <1>5, <1>6, <1>7, <1>8, <1>9 DEF CInv

\* No call has locked a session whose context is being loaded.
LEMMA BeginLoadingC ==
    ASSUME SInv, CInv, NEW t \in Threads PROVE ~BeginLoading(t)
<1> SUFFICES ASSUME BeginLoading(t) PROVE FALSE
  OBVIOUS
<1>1. PICK f : f = Top(t)
  OBVIOUS
<1>2. At(t, "begin") /\ LoadingCtx(f.s)
  BY <1>1 DEF BeginLoading
<1>3. f \in Call /\ f.pc = "begin" /\ f.s \in Sessions /\ Shape(f) /\ stack[t] # <<>>
      /\ f.op \in {"open", "invoke", "close", "cancel"}
  BY <1>1, <1>2, AtTop
<1>4. f.op \in {"invoke", "close"}
  BY <1>3 DEF Shape
<1>5. PICK s \in Sessions : s = f.s
  BY <1>3
<1>6. f \in Owned(s)
  BY <1>3, <1>4, <1>5 DEF Owned, OwnsSession
<1>7. sess[s] # NULL
  BY <1>1, <1>2, <1>5, <1>6, AtTop
<1>8. Cnt(stack, Loading(s)) = 0
  BY <1>1, <1>3, <1>6, <1>7, NotLoading
<1>9. Cnt(stack, Loading(s)) > 0
  BY <1>2, <1>5, <1>7 DEF LoadingCtx, CInv, SessionsOK, SessionOK
<1> QED
  BY <1>8, <1>9

\* Requests.
LEMMA RequestC ==
    ASSUME ~AnyId, SInv, CInv, NEW t \in Threads, Request(t) PROVE CInv'
<1>1. CASE \E h \in Heads, ta \in TAs, s \in Sessions : Open(t, h, ta, s)
  BY <1>1, OpenC
<1>2. CASE \E h \in Heads, s \in Sessions : Invoke(t, h, s) \/ InvokeAgain(t, h, s) \/ Close(t, h, s)
  BY <1>2, InvokeC, InvokeAgainC, CloseC
<1>3. CASE \E s \in Sessions : CancelGet(t, s)
  BY <1>3, CancelGetC
<1> QED
  BY <1>1, <1>2, <1>3 DEF Request

\* The steps of a call in the core.
LEMMA ProgressC ==
    ASSUME SInv, CInv, NEW t \in Threads, Progress(t) PROVE CInv'
<1>1. CASE OpenRetry(t) \/ (\E c \in Ctxs : LoadStart(t, c)) \/ LoadNone(t)
  BY <1>1, OpenRetryC, LoadStartC, LoadNoneC
<1>2. CASE Loaded(t) \/ LoadFails(t) \/ OpenFails(t)
  BY <1>2, LoadedC, LoadFailsC, OpenFailsC
<1>3. CASE Opened(t) \/ OpenPut(t) \/ OpenEnd(t)
  BY <1>3, OpenedC, OpenPutC, OpenEndC
<1>4. CASE CloseGet(t) \/ Lock(t) \/ Cancel(t)
  BY <1>4, CloseGetC, LockC, CancelC
<1>5. CASE SetBusyConcurrent(t) \/ WaitBusy(t) \/ SetBusy(t)
  BY <1>5, SetBusyConcurrentC, WaitBusyC, SetBusyC
<1>6. CASE BusyRefused(t) \/ ClearBusy(t) \/ Begin(t)
  BY <1>6, BusyRefusedC, ClearBusyC, BeginC
<1>7. CASE Enter(t) \/ EnterTooDeep(t) \/ InvokeEnd(t)
  BY <1>7, EnterC, EnterTooDeepC, InvokeEndC
<1>8. CASE Unlink(t) \/ UnlinkWait(t) \/ Release(t)
  BY <1>8, UnlinkC, UnlinkWaitC, ReleaseC
<1>9. CASE AfterPanic(t) \/ DestroyTaCtx(t) \/ DestroyContext(t)
  BY <1>9, NoPanicC, DestroyContextC
<1>10. CASE Refused(t) \/ BeginLoading(t)
  BY <1>10, RefusedC, BeginLoadingC
<1> QED
  BY <1>1, <1>2, <1>3, <1>4, <1>5, <1>6, <1>7, <1>8, <1>9, <1>10 DEF Progress

\* Every step keeps it, if TAs do not panic and clients use the ids they were told.
LEMMA NextCInv ==
    ASSUME ~TaMayPanic, ~AnyId PROVE SInv /\ CInv /\ [Next]_vars => CInv'
<1> SUFFICES ASSUME SInv, CInv, [Next]_vars PROVE CInv'
  OBVIOUS
<1>1. CASE Next
  <2>1. PICK t \in Threads : Request(t) \/ Progress(t) \/ TaDone(t)
    BY <1>1 DEF Next
  <2>2. CASE TaDone(t)
    BY <2>2, TaReturnsC DEF TaDone, TaPanics
  <2> QED
    BY <2>1, <2>2, RequestC, ProgressC
<1>2. CASE UNCHANGED vars
  <2>1. UNCHANGED <<sess, ctxs, heads, ctxes, single, stack, wait, fault>>
    BY <1>2 DEF vars
  <2>2. CtxTypes' /\ FramesOK' /\ BelowOK' /\ WaitOK'
    BY <2>1 DEF CInv, CtxTypes, FramesOK, FrameOK, BelowOK, WaitOK, Top
  <2>3. SessionsOK' /\ SingleOK'
    BY <2>1 DEF CInv, SessionsOK, SessionOK, SingleOK
  <2>4. CtxsOK'
    BY <2>1 DEF CInv, CtxsOK, CtxOK, SessionsOf
  <2> QED
    BY <2>2, <2>3, <2>4 DEF CInv
<1> QED
  BY <1>1, <1>2

\* The invariant of contexts always holds then.
LEMMA AlwaysCInv == ASSUME ~TaMayPanic, ~AnyId PROVE Spec => [](SInv /\ CInv)
<1>1. Init => SInv /\ CInv
  BY InitSInv, InitCInv
<1>2. SInv /\ CInv /\ [Next]_vars => (SInv /\ CInv)'
  BY NextSInv, NextCInv
<1> QED
  BY <1>1, <1>2, PTL DEF Spec

-----------------------------------------------------------------------------
(* What the invariant of contexts means.                                   *)

\* The calls that have left a session of c and not given back its reference, and
\* those inside c.
LEMMA CtxCallsOf ==
    ASSUME SInv, NEW c \in Ctxs
    PROVE  /\ CallsThat(LAMBDA f : f.op = "close" /\ f.c = c
                                   /\ f.pc \in {"clear", "release"})
                = PlacesOf(stack, Leaving(c))
           /\ CallsThat(LAMBDA f : Inside(f, c)) = PlacesOf(stack, InsideOf(c))
<1>1. stack \in [Threads -> Seq(Call)]
  BY DEF SInv, SessTypes, Stacks
<1>2. CallsIn = Places(stack)
  BY DEF CallsIn, Places
<1>3. \A x \in Places(stack) : stack[x[1]][x[2]] \in Call
  BY <1>1 DEF Places
<1>4. \A x \in Places(stack) :
         /\ /\ stack[x[1]][x[2]].op = "close" /\ stack[x[1]][x[2]].c = c
            /\ stack[x[1]][x[2]].pc \in {"clear", "release"}
            <=> stack[x[1]][x[2]] \in Leaving(c)
         /\ Inside(stack[x[1]][x[2]], c) <=> stack[x[1]][x[2]] \in InsideOf(c)
  BY <1>3 DEF Leaving, InsideOf
<1> QED
  BY <1>2, <1>4 DEF CallsThat, PlacesOf

\* The calls inside single instance TAs.
LEMMA SingleCallsOf ==
    ASSUME SInv
    PROVE  CallsThat(LAMBDA f : \E c \in Ctxs :
                         Inside(f, c) /\ ctxs[c].ta \in Single \ Concurrent)
              = PlacesOf(stack, InSingle(ctxs))
<1>1. stack \in [Threads -> Seq(Call)]
  BY DEF SInv, SessTypes, Stacks
<1>2. CallsIn = Places(stack)
  BY DEF CallsIn, Places
<1>3. \A x \in Places(stack) : stack[x[1]][x[2]] \in Call
  BY <1>1 DEF Places
<1>4. ASSUME NEW f \in Call
      PROVE  (\E c \in Ctxs : Inside(f, c) /\ ctxs[c].ta \in Single \ Concurrent)
                <=> f \in InSingle(ctxs)
  BY DEF InSingle, InsideOf, Inside
<1> QED
  BY <1>2, <1>3, <1>4 DEF CallsThat, PlacesOf

\* The invariant implies that the reference counters are exact.
LEMMA CInvCounters == SInv /\ CInv => CountersExact
<1> SUFFICES ASSUME SInv, CInv PROVE CountersExact
  OBVIOUS
<1>1. TypeOK
  BY DEF SInv, SessTypes, Data, Stacks, CInv, CtxTypes, TypeOK
<1>2. ASSUME NEW s \in Sessions, sess[s] # NULL
      PROVE  sess[s].ref = Cardinality(CallsThat(LAMBDA f : OwnsSession(f, s)))
  <2>1. sess[s].ref = Cardinality(PlacesOf(stack, Owned(s)))
    BY <1>2 DEF CInv, SessionsOK, SessionOK, Cnt
  <2>2. PICK L : L = PlacesOf(stack, Owned(s))
    OBVIOUS
  <2>3. CallsThat(LAMBDA f : OwnsSession(f, s)) = L
    BY <2>2, CallsOf
  <2> QED
    BY <2>1, <2>2, <2>3
<1>3. ASSUME NEW c \in Range(ctxes)
      PROVE  ctxs[c].ref =
               Cardinality({s \in Sessions : sess[s] # NULL /\ sess[s].ctx = c})
               + Cardinality(CallsThat(LAMBDA f : f.op = "close" /\ f.c = c
                                                  /\ f.pc \in {"clear", "release"}))
  <2>1. c \in Ctxs
    <3>1. ctxes \in Seq(Ctxs)
      BY DEF SInv, SessTypes, Data
    <3> QED
      BY <3>1 DEF Range
  <2>2. CtxOK(c) /\ ctxs[c] # NULL
    BY <2>1 DEF CInv, CtxsOK, CtxOK
  <2>3. ctxs[c].ref = Cardinality(SessionsOf(c)) + Cardinality(PlacesOf(stack, Leaving(c)))
    BY <2>2 DEF CtxOK, Cnt
  <2>4. PICK L : L = PlacesOf(stack, Leaving(c))
    OBVIOUS
  <2>5. CallsThat(LAMBDA f : f.op = "close" /\ f.c = c
                             /\ f.pc \in {"clear", "release"}) = L
    BY <2>1, <2>4, CtxCallsOf
  <2>6. PICK S : S = {s \in Sessions : sess[s] # NULL /\ sess[s].ctx = c}
    OBVIOUS
  <2>7. SessionsOf(c) = S
    BY <2>6 DEF SessionsOf
  <2> QED
    BY <2>3, <2>4, <2>5, <2>6, <2>7
<1> QED
  BY <1>1, <1>2, <1>3 DEF CountersExact, SessionRefExact, CtxRefExact

\* A list without duplicates is not longer than the number of its elements.
LEMMA ListFits ==
    ASSUME NEW T, IsFiniteSet(T), NEW q \in Seq(T), NoDuplicates(q)
    PROVE  Cardinality(T) \in Nat /\ DOMAIN q \subseteq 1..Cardinality(T)
<1>1. /\ Len(q) \in Nat /\ DOMAIN q = 1..Len(q)
      /\ IsFiniteSet(1..Len(q)) /\ Cardinality(1..Len(q)) = Len(q)
  <2>1. Len(q) \in Nat /\ DOMAIN q = 1..Len(q)
    OBVIOUS
  <2>2. Cardinality(1..Len(q)) = IF 1 > Len(q) THEN 0 ELSE Len(q) - 1 + 1
    BY <2>1, FS_Interval, 1 \in Int, Len(q) \in Int
  <2> QED
    BY <2>1, <2>2, FS_Interval, 1 \in Int, Len(q) \in Int
<1>2. q \in Injection(1..Len(q), T)
  <2>1. q \in [1..Len(q) -> T]
    BY <1>1
  <2>2. \A i, j \in 1..Len(q) : q[i] = q[j] => i = j
    BY <1>1 DEF NoDuplicates
  <2> QED
    BY <2>1, <2>2 DEF Injection, IsInjective
<1>3. Cardinality(1..Len(q)) <= Cardinality(T)
  BY <1>1, <1>2, FS_Injection
<1>4. Cardinality(T) \in Nat
  BY FS_CardinalityType
<1> QED
  BY <1>1, <1>3, <1>4

\* A call that frees its session is the only one that uses it.
LEMMA FreesUnused ==
    ASSUME SInv, CInv, NEW t \in Threads, FreesItsSession(t)
    PROVE  ~SessionUsed(t, Top(t).s)
<1>1. PICK f : f = Top(t)
  OBVIOUS
<1>2. PICK l : l = f.pc
  OBVIOUS
<1>3. At(t, l) /\ l \in {"fail", "unlink", "refc"} /\ (l # "fail" => sess[f.s].ref = 1)
  BY <1>1, <1>2 DEF FreesItsSession, At
<1>4. f \in Call /\ f.pc = l /\ Shape(f) /\ stack[t] # <<>> /\ f \in Range(stack[t])
      /\ f.op \in {"open", "invoke", "close", "cancel"} /\ f.s \in Sessions
  BY <1>1, <1>3, AtTop
<1>5. PICK s \in Sessions : s = f.s
  BY <1>4
<1>6. CASE l = "fail"
  <2>1. f.op = "open"
    BY <1>4, <1>6 DEF Shape
  <2>2. f \in Opening(s) /\ f \in Owned(s)
    BY <1>4, <1>5, <1>6, <2>1 DEF Opening, Owned, OwnsSession
  <2>3. sess[s] # NULL
    BY <1>1, <1>3, <1>5, <2>2, AtTop
  <2>4. Cnt(stack, Opening(s)) # 0 /\ Cnt(stack, Opening(s)) \in Nat
    BY <1>4, <2>2, CntZero DEF SInv, SessTypes
  <2>5. Cnt(stack, Opening(s)) > 0
    BY <2>4
  <2>6. sess[s].ref = 1
    BY <2>3, <2>5 DEF CInv, SessionsOK, SessionOK
  <2> QED
    BY <1>1, <1>4, <1>5, <2>2, <2>3, <2>6, FreeAlone
<1>7. CASE l # "fail"
  <2>1. f.op = "close"
    BY <1>3, <1>4, <1>7 DEF Shape
  <2>2. f \in Closing(s) /\ f \in Owned(s)
    BY <1>3, <1>4, <1>5, <1>7, <2>1 DEF Closing, Owned, OwnsSession
  <2>3. sess[s] # NULL
    BY <1>1, <1>3, <1>5, <2>2, AtTop
  <2> QED
    BY <1>1, <1>3, <1>4, <1>5, <1>7, <2>2, <2>3, FreeAlone
<1> QED
  BY <1>6, <1>7

\* The invariant implies that nothing is freed while it is used.
LEMMA CInvKept == ASSUME IsFiniteSet(Sessions) PROVE SInv /\ CInv => NoUseAfterFree
<1> SUFFICES ASSUME SInv, CInv PROVE NoUseAfterFree
  OBVIOUS
<1>1. fault # "freed"
  BY DEF CInv, CtxTypes
<1>2. heads \in [Heads -> Seq(Sessions)] /\ sess \in [Sessions -> Session \cup {NULL}]
  BY DEF SInv, SessTypes, Data
<1>3. ASSUME NEW s \in Sessions, sess[s] # NULL, sess[s].ctx # NULL
      PROVE  ctxs[sess[s].ctx] # NULL
  <2>1. sess[s].ctx \in Ctxs
    BY <1>2, <1>3 DEF Session
  <2> QED
    BY <1>3, <2>1, LiveCtx
<1>4. ASSUME NEW s \in Sessions, sess[s] # NULL
      PROVE  Cardinality({x \in Heads \X (1..Cardinality(Sessions)) :
                x[2] \in DOMAIN heads[x[1]] /\ heads[x[1]][x[2]] = s}) = 1
  <2>1. PICK h \in Heads : s \in Range(heads[h])
    BY <1>4 DEF SInv, ListsOK
  <2>2. PICK i \in DOMAIN heads[h] : heads[h][i] = s
    BY <2>1 DEF Range
  <2>3. DOMAIN heads[h] \subseteq 1..Cardinality(Sessions)
    <3>1. NoDuplicates(heads[h]) /\ heads[h] \in Seq(Sessions)
      BY <1>2 DEF SInv, ListsOK
    <3> QED
      BY <3>1, ListFits
  <2>4. ASSUME NEW g \in Heads, NEW j \in DOMAIN heads[g], heads[g][j] = s
        PROVE  g = h /\ j = i
    BY <2>2, <2>4, SInvKept, <1>4 DEF SessionsKept
  <2>5. PICK p : p = <<h, i>>
    OBVIOUS
  <2>6. {x \in Heads \X (1..Cardinality(Sessions)) :
            x[2] \in DOMAIN heads[x[1]] /\ heads[x[1]][x[2]] = s} = {p}
    BY <2>2, <2>3, <2>4, <2>5
  <2>7. Cardinality({p}) = 1
    BY FS_Singleton
  <2> QED
    BY <2>6, <2>7
<1>5. ASSUME NEW h \in Heads, heads[h] # <<>>
      PROVE  /\ \A s \in Range(heads[h]) : sess[s] # NULL
             /\ h # NSEC => ctxs[h] # NULL
  <2>1. ASSUME NEW s \in Range(heads[h]) PROVE sess[s] # NULL
    <3>1. s \in Sessions
      BY <1>2 DEF Range
    <3> QED
      BY <3>1 DEF SInv, ListsOK
  <2>2. ASSUME h # NSEC PROVE ctxs[h] # NULL
    <3>1. h \in Ctxs
      BY <2>2 DEF Heads
    <3> QED
      BY <3>1, <1>5 DEF CInv, CtxsOK, CtxOK
  <2> QED
    BY <2>1, <2>2
<1>6. ListsExact
  BY <1>3, <1>4, <1>5 DEF ListsExact
<1>7. ASSUME NEW t \in Threads, FreesItsSession(t) PROVE ~SessionUsed(t, Top(t).s)
  BY <1>7, FreesUnused
<1>8. ASSUME NEW t \in Threads, FreesItsCtx(t)
      PROVE  ~CtxUsed(t, Top(t).c, Top(t).s)
  <2>1. PICK f : f = Top(t)
    OBVIOUS
  <2>2. PICK d : d = f.c
    OBVIOUS
  <2>3. Dying(t, f, d)
    BY <1>8, <2>1, <2>2, DestroyCtx DEF FreesItsCtx
  <2> QED
    BY <2>1, <2>2, <2>3, NobodyUses
<1> QED
  BY <1>1, <1>6, <1>7, <1>8, ClosesAlone DEF NoUseAfterFree

\* The invariant implies that TAs are entered one call at a time.
LEMMA CInvBusy == SInv /\ CInv => BusyExcludes
<1> SUFFICES ASSUME SInv, CInv, NEW c \in Ctxs, ctxs[c] # NULL, ctxs[c].ta \notin Concurrent
             PROVE  Cardinality(CallsThat(LAMBDA f : Inside(f, c)))
                       = IF ctxs[c].busy THEN 1 ELSE 0
  BY DEF BusyExcludes
<1>1. Cardinality(PlacesOf(stack, InsideOf(c))) = IF ctxs[c].busy THEN 1 ELSE 0
  BY DEF CInv, CtxsOK, CtxOK, Cnt
<1>2. PICK L : L = PlacesOf(stack, InsideOf(c))
  OBVIOUS
<1>3. CallsThat(LAMBDA f : Inside(f, c)) = L
  BY <1>2, CtxCallsOf
<1> QED
  BY <1>1, <1>2, <1>3

\* The invariant implies that the single instance lock is exact.
LEMMA CInvSingle == SInv /\ CInv => SingleLockExact
<1> SUFFICES ASSUME SInv, CInv PROVE SingleLockExact
  OBVIOUS
<1>1. PICK L : L = PlacesOf(stack, InSingle(ctxs))
  OBVIOUS
<1>2. CallsThat(LAMBDA f : \E c \in Ctxs :
                    Inside(f, c) /\ ctxs[c].ta \in Single \ Concurrent) = L
  BY <1>1, SingleCallsOf
<1>3. single.count = Cardinality(L)
  BY <1>1 DEF CInv, SingleOK, Cnt
<1>4. IsFiniteSet(L)
  <2>1. IsFiniteSet(Places(stack))
    BY DEF SInv, SessTypes, Stacks
  <2>2. L \in SUBSET Places(stack)
    BY <1>1 DEF PlacesOf
  <2> QED
    BY <2>1, <2>2, FS_Subset
<1>5. ASSUME NEW x \in L PROVE x[1] = single.owner /\ x[1] \in Threads
  <2>1. PICK u \in Threads : \E i \in DOMAIN stack[u] : x = <<u, i>>
    BY <1>1 DEF PlacesOf, Places
  <2>2. PICK i \in DOMAIN stack[u] : x = <<u, i>>
    BY <2>1
  <2>3. PICK f : f = stack[u][i]
    OBVIOUS
  <2>4. f \in InSingle(ctxs) /\ f \in Range(stack[u])
    BY <1>1, <2>2, <2>3 DEF PlacesOf, Range
  <2> QED
    BY <2>2, <2>4 DEF CInv, SingleOK
<1>6. {x[1] : x \in L} = {single.owner} \ {NULL}
  <2>1. single.owner = NULL <=> single.count = 0
    BY DEF CInv, SingleOK
  <2>2. single.owner = NULL <=> L = {}
    BY <2>1, <1>3, <1>4, FS_EmptySet
  <2>3. CASE single.owner = NULL
    BY <2>2, <2>3
  <2>4. CASE single.owner # NULL
    <3>1. L # {}
      BY <2>2, <2>4
    <3> QED
      BY <2>4, <3>1, <1>5
  <2> QED
    BY <2>3, <2>4
<1> QED
  BY <1>2, <1>3, <1>6 DEF SingleLockExact

\* As long as no TA panics and clients use only ids that they were told of,
\* ref_count of a session is the number of calls that use it (tee_ta_get_session(), dec_session_ref_count()), and ref_count of a
\* context the number of its sessions and of the closes between destroy_session()
\* and the decrement at the end of tee_ta_close_session(): no reference is lost
\* or given back twice, however many threads open, invoke, cancel and close, and
\* although TAs call each other.
THEOREM CountersAreExact == ASSUME ~TaMayPanic, ~AnyId PROVE Spec => []CountersExact
<1> QED
  BY AlwaysCInv, CInvCounters, PTL

\* As long as no TA panics and clients use only ids that they were told of, neither
\* destroy_session(), nor destroy_context(), nor tee_ta_init_session() frees what a
\* call goes on to access or a session refers to: the context of a
\* session exists, and so does the TA that owns a list with sessions.
THEOREM NothingFreedInUse ==
    ASSUME ~TaMayPanic, ~AnyId, IsFiniteSet(Sessions)
    PROVE  Spec => [](NoUseAfterFree /\ NothingFreed)
<1>1. SInv /\ CInv => NoUseAfterFree /\ NothingFreed
  BY CInvKept DEF CInv, CtxTypes, NothingFreed
<1> QED
  BY <1>1, AlwaysCInv, PTL

\* As long as no TA panics and clients use only ids that they were told of,
\* tee_ta_try_set_busy() lets one call at a time into a
\* TA that is not concurrent and ctx->busy says whether there is one; and the
\* single instance lock belongs to the thread whose calls are in such TAs and
\* counts them (lock_single_instance(), unlock_single_instance()), also when a
\* TA calls another one and comes back to its own thread.
THEOREM LocksAreExact ==
    ASSUME ~TaMayPanic, ~AnyId PROVE Spec => [](BusyExcludes /\ SingleLockExact)
<1>1. SInv /\ CInv => BusyExcludes /\ SingleLockExact
  BY CInvBusy, CInvSingle
<1> QED
  BY <1>1, AlwaysCInv, PTL

\* As long as no TA panics and clients use only ids that they were told of,
\* condvar_destroy() in destroy_context() meets no thread
\* that waits for the context to be free: whoever waits has a session of it, and
\* the context outlives its sessions.
THEOREM NobodyWaitsForTheDead ==
    ASSUME ~TaMayPanic, ~AnyId PROVE Spec => [](fault # "condvar")
<1>1. CInv => fault # "condvar"
  BY DEF CInv, CtxTypes
<1> QED
  BY <1>1, AlwaysCInv, PTL
=============================================================================
