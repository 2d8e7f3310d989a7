----------------------------- MODULE ListLemmas -----------------------------
(***************************************************************************)
(* What the list macros of sys/queue.h do to the elements of a list that   *)
(* is modelled as a sequence, and that a search for the least of some      *)
(* numbers finds one.                                                      *)
(***************************************************************************)
EXTENDS Integers, SequencesExt, SequenceTheorems, WellFoundedInduction, TLAPS

NoDuplicates(s) == \A i, j \in DOMAIN s : s[i] = s[j] => i = j

\* slist_add_tail() adds one element and no duplicate of a new one.
LEMMA AppendElement ==
    ASSUME NEW T, NEW s \in Seq(T), NEW t \in T
    PROVE  /\ Append(s, t) \in Seq(T)
           /\ Range(Append(s, t)) = Range(s) \cup {t}
           /\ NoDuplicates(s) /\ t \notin Range(s)
                => NoDuplicates(Append(s, t))
<1>1. /\ Append(s, t) \in Seq(T)
      /\ DOMAIN Append(s, t) = 1..(Len(s) + 1)
      /\ DOMAIN s = 1..Len(s)
      /\ Len(s) \in Nat
      /\ \A i \in 1..Len(s) : Append(s, t)[i] = s[i]
      /\ Append(s, t)[Len(s) + 1] = t
  OBVIOUS
<1>2. Range(Append(s, t)) = Range(s) \cup {t}
  BY <1>1 DEF Range
<1>3. ASSUME NoDuplicates(s), t \notin Range(s)
      PROVE  NoDuplicates(Append(s, t))
  BY <1>1, <1>3 DEF NoDuplicates, Range
<1> QED
  BY <1>1, <1>2, <1>3

\* SLIST_INSERT_HEAD() adds one element and no duplicate of a new one.
LEMMA PrependElement ==
    ASSUME NEW T, NEW s \in Seq(T), NEW t \in T
    PROVE  /\ <<t>> \o s \in Seq(T)
           /\ Range(<<t>> \o s) = Range(s) \cup {t}
           /\ NoDuplicates(s) /\ t \notin Range(s)
                => NoDuplicates(<<t>> \o s)
<1> DEFINE r == <<t>> \o s
<1>1. /\ r \in Seq(T)
      /\ Len(s) \in Nat
      /\ DOMAIN r = 1..(Len(s) + 1)
      /\ DOMAIN s = 1..Len(s)
      /\ r[1] = t
  OBVIOUS
<1>2. \A i \in 1..Len(s) : r[i + 1] = s[i]
  OBVIOUS
<1> HIDE DEF r
<1>3. \A i \in 2..(Len(s) + 1) : i - 1 \in 1..Len(s) /\ r[i] = s[i - 1]
  <2> TAKE i \in 2..(Len(s) + 1)
  <2>1. i - 1 \in 1..Len(s) /\ (i - 1) + 1 = i
    BY <1>1
  <2> QED
    BY <1>2, <2>1
<1>4. Range(r) = Range(s) \cup {t}
  <2>1. \A i \in 1..Len(s) : i + 1 \in DOMAIN r /\ r[i + 1] = s[i]
    BY <1>1, <1>2
  <2>2. \A i \in DOMAIN r : i = 1 \/ i \in 2..(Len(s) + 1)
    BY <1>1
  <2>3. 1 \in DOMAIN r
    BY <1>1
  <2>4. \A x : x \in Range(r) => x \in Range(s) \cup {t}
    <3>1. \A i \in DOMAIN r : r[i] \in Range(s) \cup {t}
      <4> TAKE i \in DOMAIN r
      <4>1. CASE i = 1
        BY <1>1, <4>1
      <4>2. CASE i \in 2..(Len(s) + 1)
        BY <1>1, <1>3, <4>2 DEF Range
      <4> QED
        BY <2>2, <4>1, <4>2
    <3> QED
      BY <3>1 DEF Range
  <2>5. Range(s) \subseteq Range(r)
    BY <1>1, <2>1 DEF Range
  <2>6. t \in Range(r)
    BY <1>1, <2>3 DEF Range
  <2> QED
    BY <2>4, <2>5, <2>6
<1>5. ASSUME NoDuplicates(s), t \notin Range(s)
      PROVE  NoDuplicates(r)
  <2>1. \A i \in 2..(Len(s) + 1) : r[i] # t
    BY <1>1, <1>3, <1>5 DEF Range
  <2>2. \A i, j \in 2..(Len(s) + 1) : r[i] = r[j] => i = j
    <3> TAKE i, j \in 2..(Len(s) + 1)
    <3>1. r[i] = r[j] => i - 1 = j - 1
      BY <1>1, <1>3, <1>5 DEF NoDuplicates
    <3> QED
      BY <1>1, <3>1
  <2>3. \A i \in DOMAIN r : i = 1 \/ i \in 2..(Len(s) + 1)
    BY <1>1
  <2> QED
    BY <1>1, <2>1, <2>2, <2>3 DEF NoDuplicates
<1> QED
  BY <1>1, <1>4, <1>5 DEF r

\* SLIST_REMOVE() of the element at position i.
LEMMA RemoveElement ==
    ASSUME NEW T, NEW s \in Seq(T), NEW i \in DOMAIN s, NoDuplicates(s)
    PROVE  /\ RemoveAt(s, i) \in Seq(T)
           /\ Range(RemoveAt(s, i)) = Range(s) \ {s[i]}
           /\ NoDuplicates(RemoveAt(s, i))
<1> DEFINE a == SubSeq(s, 1, i - 1)
           b == SubSeq(s, i + 1, Len(s))
           r == RemoveAt(s, i)
<1>1. DOMAIN s = 1..Len(s) /\ Len(s) \in Nat /\ i \in 1..Len(s)
  OBVIOUS
<1>2. /\ a \in Seq(T)
      /\ Len(a) = i - 1
      /\ \A j \in 1..(i - 1) : a[j] = s[j]
  BY <1>1
<1>3. /\ b \in Seq(T)
      /\ Len(b) = Len(s) - i
      /\ \A j \in 1..(Len(s) - i) : b[j] = s[j + i]
  BY <1>1
<1>4. r = a \o b
  BY DEF RemoveAt
<1> HIDE DEF a, b, r
<1>5. /\ r \in Seq(T)
      /\ Len(r) = Len(s) - 1
      /\ DOMAIN r = 1..(Len(s) - 1)
  <2>1. r \in Seq(T) /\ Len(r) = Len(a) + Len(b)
    BY <1>2, <1>3, <1>4, ConcatProperties
  <2>2. Len(a) + Len(b) = Len(s) - 1
    BY <1>1, <1>2, <1>3
  <2> QED
    BY <2>1, <2>2
<1>6. \A j \in 1..(i - 1) : r[j] = s[j]
  BY <1>1, <1>2, <1>3, <1>4
<1>7. \A j \in i..(Len(s) - 1) : r[j] = s[j + 1]
  <2> TAKE j \in i..(Len(s) - 1)
  <2>1. r[j] = b[j - (i - 1)]
    BY <1>1, <1>2, <1>3, <1>4
  <2>2. b[j - (i - 1)] = s[(j - (i - 1)) + i]
    BY <1>1, <1>3
  <2>3. (j - (i - 1)) + i = j + 1
    BY <1>1
  <2> QED
    BY <2>1, <2>2, <2>3
<1>8. NoDuplicates(r)
  <2> DEFINE k(j) == IF j < i THEN j ELSE j + 1
  <2>1. \A j \in DOMAIN r : k(j) \in DOMAIN s /\ r[j] = s[k(j)]
    BY <1>1, <1>5, <1>6, <1>7
  <2>2. \A j, l \in DOMAIN r : k(j) = k(l) => j = l
    BY <1>1, <1>5
  <2> HIDE DEF k
  <2> QED
    BY <2>1, <2>2 DEF NoDuplicates
<1>9. Range(r) = Range(s) \ {s[i]}
  <2>1. \A x \in Range(r) : x \in Range(s) \ {s[i]}
    BY <1>1, <1>5, <1>6, <1>7 DEF NoDuplicates, Range
  <2>2. ASSUME NEW k \in 1..Len(s), s[k] # s[i]
        PROVE  s[k] \in Range(r)
    <3>1. CASE k < i
      BY <1>1, <1>5, <1>6, <3>1 DEF Range
    <3>2. CASE k > i
      <4>1. k - 1 \in i..(Len(s) - 1) /\ (k - 1) + 1 = k /\ k - 1 \in DOMAIN r
        BY <1>1, <1>5, <3>2
      <4>2. r[k - 1] = s[k]
        BY <1>7, <4>1
      <4> QED
        BY <4>1, <4>2 DEF Range
    <3> QED
      BY <1>1, <2>2, <3>1, <3>2
  <2> QED
    BY <1>1, <2>1, <2>2 DEF Range
<1> QED
  BY <1>5, <1>8, <1>9 DEF r

\* A set of numbers that is not empty has a least one.
LEMMA LeastNumber ==
    ASSUME NEW S \in SUBSET Nat, S # {}
    PROVE  \E b \in S : \A a \in S : b <= a
<1>1. \E b \in S : \A a \in S : ~(<<a, b>> \in OpToRel(<, Nat))
  BY NatLessThanWellFounded, WFMin
<1>2. \A a, b \in S : <<a, b>> \in OpToRel(<, Nat) <=> a < b
  BY DEF OpToRel
<1>3. PICK b \in S : \A a \in S : ~(<<a, b>> \in OpToRel(<, Nat))
  BY <1>1
<1>4. \A a \in S : ~(a < b) /\ a \in Nat /\ b \in Nat
  BY <1>2, <1>3
<1>5. \A a \in S : b <= a
  BY <1>4
<1> QED
  BY <1>5
=============================================================================
