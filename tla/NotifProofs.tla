---------------------------- MODULE NotifProofs -----------------------------
(***************************************************************************)
(* Proofs about Notif and NotifDrivers, for every number of values and     *)
(* interrupts and every set of threads and drivers.                        *)
(***************************************************************************)
EXTENDS MCNotif, ListLemmas, FiniteSetTheorems, TLAPS

-----------------------------------------------------------------------------
(* Values and interrupts.                                                  *)

\* The inductive invariant: the highest interrupt number, which it_get_value()
\* never finds, is not among the numbers that the drivers send.
ValuesInv == NothingLost /\ pend \subseteq ItNumbers

\* bit_ffs() finds a bit if one of the first n is set and none above, and the
\* bit that it finds is set.
LEMMA FirstFound ==
    ASSUME NEW n \in Nat, NEW S \in SUBSET (0..(n - 1))
    PROVE  /\ First(S, n) \subseteq S
           /\ \A b, c \in First(S, n) : b = c
           /\ S # {} => First(S, n) # {}
<1>1. First(S, n) \subseteq S
  BY DEF First
<1>2. \A b, c \in First(S, n) : b = c
  <2> TAKE b, c \in First(S, n)
  <2>1. b <= c /\ c <= b /\ b \in Nat /\ c \in Nat
    BY DEF First
  <2> QED
    BY <2>1
<1>3. ASSUME S # {} PROVE First(S, n) # {}
  <2>1. PICK b \in S : \A a \in S : b <= a
    BY <1>3, LeastNumber
  <2>2. b \in First(S, n)
    BY <2>1 DEF First
  <2> QED
    BY <2>2
<1> QED
  BY <1>1, <1>2, <1>3

\* The initial states satisfy the invariant.
LEMMA ValuesInit == Init => ValuesInv
<1> SUFFICES ASSUME Init PROVE ValuesInv
  OBVIOUS
<1>1. nw \in [pc : {"idle", "value", "it"}, more : BOOLEAN]
  BY DEF Init
<1>2. masked \subseteq Its
  BY DEF Init
<1> QED
  BY <1>1, <1>2 DEF Init, ValuesInv, NothingLost, TypeOK, NoLostValue, NoLostIt

\* Sending and masking.
LEMMA SendKeeps ==
    ASSUME ValuesInv, Send
    PROVE  ValuesInv'
<1>1. DoIt \in Values /\ DoBottomHalf \in Values
  BY NotifAssumption DEF DoIt, DoBottomHalf, Values
<1>2. ASSUME NEW v \in Values, SendAsync(v) PROVE ValuesInv'
  BY <1>1, <1>2
     DEF SendAsync, RaiseAsync, ValuesInv, NothingLost, TypeOK, NoLostValue, NoLostIt
<1>3. ASSUME NEW n \in ItNumbers, SendIt(n) PROVE ValuesInv'
  BY <1>1, <1>3, NotifAssumption
     DEF SendIt, RaiseAsync, ValuesInv, NothingLost, TypeOK, NoLostValue, NoLostIt
<1>4. ASSUME NEW n \in Its, NEW m \in BOOLEAN, ItSetMask(n, m) PROVE ValuesInv'
  <2>1. CASE n >= ItMax
    BY <1>1, <1>4, <2>1, NotifAssumption
       DEF ItSetMask, RaiseAsync, ValuesInv, NothingLost, TypeOK, NoLostValue,
           NoLostIt, Its
  <2>2. CASE n < ItMax /\ m
    BY <1>1, <1>4, <2>2, NotifAssumption
       DEF ItSetMask, RaiseAsync, ValuesInv, NothingLost, TypeOK, NoLostValue,
           NoLostIt, Its
  <2>3. CASE n < ItMax /\ ~m
    BY <1>1, <1>4, <2>3, NotifAssumption
       DEF ItSetMask, RaiseAsync, ValuesInv, NothingLost, TypeOK, NoLostValue,
           NoLostIt, Its
  <2> QED
    BY <1>4, <2>1, <2>2, <2>3, NotifAssumption DEF Its
<1> QED
  BY <1>2, <1>3, <1>4 DEF Send

\* The allocation of values touches no record.
LEMMA AllocKeeps ==
    ASSUME ValuesInv, NEW v \in Values, AllocValue(v) \/ FreeValue(v)
    PROVE  ValuesInv'
<1>1. DoBottomHalf \in Values
  BY NotifAssumption DEF DoBottomHalf, Values
<1>2. UNCHANGED <<values, pend, masked, irq, nw, told>>
  BY DEF AllocValue, FreeValue
<1>3. alloc' \subseteq Values /\ owned' \subseteq Values /\ fault' \in BOOLEAN
  BY <1>1 DEF AllocValue, FreeValue, ValuesInv, NothingLost, TypeOK
<1> QED
  BY <1>2, <1>3 DEF ValuesInv, NothingLost, TypeOK, NoLostValue, NoLostIt

\* notif_get_value(): what is left is asked for again.
LEMMA GetValueKeeps ==
    ASSUME ValuesInv, GetValue
    PROVE  ValuesInv'
<1> DEFINE first == First(values, AsyncMax + 1)
           pending == First(values \ first, AsyncMax + 1) # {}
<1>1. values \in SUBSET (0..((AsyncMax + 1) - 1)) /\ AsyncMax + 1 \in Nat
  BY NotifAssumption DEF ValuesInv, NothingLost, TypeOK, Values
<1>2. values \ first # {} => pending
  BY <1>1, FirstFound
<1>3. /\ nw.pc = "value"
      /\ values' = values \ first
      /\ first = {DoIt} => nw' = [pc |-> "it", more |-> pending]
      /\ first # {DoIt} =>
            nw' = [pc |-> IF pending THEN "value" ELSE "idle", more |-> FALSE]
      /\ UNCHANGED <<alloc, owned, pend, masked, irq, told, fault>>
  BY DEF GetValue
<1>4. DoIt \in first => first = {DoIt}
  BY <1>1, FirstFound
<1>5. pending \in BOOLEAN
  OBVIOUS
<1> HIDE DEF first, pending
<1>6. TypeOK'
  <2>1. nw' \in [pc : {"idle", "value", "it"}, more : BOOLEAN]
    <3>1. CASE first = {DoIt}
      BY <1>3, <1>5, <3>1
    <3>2. CASE first # {DoIt} /\ pending
      <4>1. nw' = [pc |-> "value", more |-> FALSE]
        BY <1>3, <3>2, Zenon
      <4> QED
        BY <4>1
    <3>3. CASE first # {DoIt} /\ ~pending
      <4>1. nw' = [pc |-> "idle", more |-> FALSE]
        BY <1>3, <3>3, Zenon
      <4> QED
        BY <4>1
    <3> QED
      BY <3>1, <3>2, <3>3
  <2> QED
    BY <1>3, <2>1 DEF ValuesInv, NothingLost, TypeOK
<1>7. NoLostValue'
  BY <1>2, <1>3 DEF NoLostValue
<1>8. NoLostIt'
  BY <1>3, <1>4 DEF ValuesInv, NothingLost, NoLostIt
<1> QED
  BY <1>3, <1>6, <1>7, <1>8 DEF ValuesInv, NothingLost

\* it_get_value(): the handler asks until no interrupt is left, and then for the
\* values it knows of.
LEMMA ItGetValueKeeps ==
    ASSUME ItMax \notin ItNumbers, ValuesInv, ItGetValue
    PROVE  ValuesInv'
<1> DEFINE first == First(pend, ItMax)
           pending == First(pend \ first, ItMax) # {}
<1>1. pend \in SUBSET (0..(ItMax - 1)) /\ ItMax \in Nat
  BY NotifAssumption DEF ValuesInv, Its
<1>2. pend \ first # {} => pending
  BY <1>1, FirstFound
<1>3. first \subseteq Its
  <2>1. first \subseteq pend
    BY <1>1, FirstFound
  <2> QED
    BY <2>1, NotifAssumption DEF ValuesInv
<1>4. /\ nw.pc = "it"
      /\ pend' = pend \ first
      /\ told' = first
      /\ pending => nw' = nw
      /\ ~pending =>
            nw' = [pc |-> IF nw.more THEN "value" ELSE "idle", more |-> FALSE]
      /\ UNCHANGED <<alloc, owned, values, masked, irq, fault>>
  BY DEF ItGetValue
<1> HIDE DEF first, pending
<1>5. TypeOK'
  <2>1. nw' \in [pc : {"idle", "value", "it"}, more : BOOLEAN]
    <3>1. CASE pending
      BY <1>4, <3>1 DEF ValuesInv, NothingLost, TypeOK
    <3>2. CASE ~pending /\ nw.more
      <4>1. nw' = [pc |-> "value", more |-> FALSE]
        BY <1>4, <3>2, Zenon
      <4> QED
        BY <4>1
    <3>3. CASE ~pending /\ ~nw.more
      <4>1. nw' = [pc |-> "idle", more |-> FALSE]
        BY <1>4, <3>3, Zenon
      <4> QED
        BY <4>1
    <3> QED
      BY <3>1, <3>2, <3>3
  <2> QED
    BY <1>3, <1>4, <2>1 DEF ValuesInv, NothingLost, TypeOK
<1>6. NoLostValue'
  BY <1>4 DEF ValuesInv, NothingLost, NoLostValue
<1>7. NoLostIt'
  BY <1>2, <1>4 DEF NoLostIt
<1> QED
  BY <1>4, <1>5, <1>6, <1>7 DEF ValuesInv, NothingLost

\* Every step keeps the invariant.
LEMMA ValuesNext ==
    ASSUME ItMax \notin ItNumbers
    PROVE  ValuesInv /\ [Next]_vars => ValuesInv'
<1> SUFFICES ASSUME ValuesInv, [Next]_vars PROVE ValuesInv'
  OBVIOUS
<1>1. CASE UNCHANGED vars
  BY <1>1 DEF vars, ValuesInv, NothingLost, TypeOK, NoLostValue, NoLostIt
<1>2. CASE NwInterrupt
  BY <1>2
     DEF NwInterrupt, ValuesInv, NothingLost, TypeOK, NoLostValue, NoLostIt
<1> QED
  BY <1>1, <1>2, SendKeeps, AllocKeeps, GetValueKeeps, ItGetValueKeeps DEF Next

\* No value and no interrupt that is not masked is recorded without normal world
\* being told or about to ask, provided that no driver sends the highest number,
\* which it_get_value() does not look at (notif.c:123).
THEOREM NothingLostHolds ==
    ASSUME ItMax \notin ItNumbers
    PROVE  Spec => []NothingLost
<1>1. ValuesInv => NothingLost
  BY DEF ValuesInv
<1> QED
  BY <1>1, ValuesInit, ValuesNext, PTL DEF Spec

-----------------------------------------------------------------------------
(* Events and drivers.                                                     *)

\* A walk in progress has notif_mutex, and its next driver is another one than the
\* one it visits.
Walking(t) == walk[t].pc \in {"callback", "next"}

WalkOK ==
    \A t \in Threads :
        /\ Walking(t) => /\ owner = t
                         /\ walk[t].nd \in Drivers
                         /\ walk[t].tmp # walk[t].nd
        /\ walk[t].pc # "idle" => walk[t].ev \in {"bottom_half", "stopped"}

\* The drivers of the list have been told of notifications that are started, which
\* a walk with the bottom half relies on; a walk with a stop that was overtaken by a
\* start finds no driver with STOPPED as the last word when it makes its last call.
RunOK ==
    /\ started => \A d \in Range(list) : last[d] # NULL
    /\ \A t \in Threads : Walking(t) /\ walk[t].ev = "bottom_half" => started
    /\ \A t \in Threads :
          started /\ walk[t].pc = "callback" /\ walk[t].ev = "stopped"
             => \A d \in Range(list) : last[d] # "stopped"

EventsInv ==
    /\ Events!TypeOK /\ NoDuplicates(list)
    /\ Events!WalksTheList /\ Events!LastWord /\ WalkOK /\ RunOK

\* The initial states satisfy the invariant.
LEMMA EventsInit == Events!Init => EventsInv
<1> SUFFICES ASSUME Events!Init PROVE EventsInv
  OBVIOUS
<1>1. Events!Cardinality(Drivers) \in Nat
  <2>1. Events!Cardinality(Drivers) = Cardinality(Drivers)
    BY Zenon DEF Events!Cardinality, Cardinality
  <2> QED
    BY <2>1, EventsAssumption, FS_CardinalityType
<1>2. list \in Seq(Drivers) /\ NoDuplicates(list)
  BY <1>1 DEF Events!Init, Events!SetToSeqs, NoDuplicates
<1>3. \A t \in Threads : walk[t] = Events!NoWalk
  BY DEF Events!Init
<1>4. Events!TypeOK
  BY <1>2 DEF Events!Init, Events!TypeOK, Events!NoWalk, Events!Events
<1>5. Events!WalksTheList /\ Events!LastWord /\ WalkOK /\ RunOK
  BY <1>3
     DEF Events!Init, Events!WalksTheList, Events!LastWord, WalkOK, RunOK, Walking,
         Events!NoWalk
<1> QED
  BY <1>2, <1>4, <1>5 DEF EventsInv

\* The next driver of a walk is another one of the list.
LEMMA AfterOther ==
    ASSUME EventsInv, NEW nd \in Range(list)
    PROVE  /\ Events!After(nd) \in Range(list) \cup {NULL}
           /\ Events!After(nd) # nd
<1> DEFINE i == CHOOSE j \in DOMAIN list : list[j] = nd
<1>1. list \in Seq(Drivers) /\ NoDuplicates(list)
  BY DEF EventsInv, Events!TypeOK
<1>2. i \in DOMAIN list /\ list[i] = nd
  BY DEF Range
<1>3. Events!After(nd) = IF i < Len(list) THEN list[i + 1] ELSE NULL
  BY DEF Events!After
<1> HIDE DEF i
<1>4. i \in 1..Len(list) /\ Len(list) \in Nat /\ nd \in Drivers
  BY <1>1, <1>2
<1>5. CASE i < Len(list)
  <2>1. i + 1 \in DOMAIN list /\ i + 1 # i
    BY <1>1, <1>4, <1>5
  <2>2. list[i + 1] # nd
    BY <1>1, <1>2, <2>1 DEF NoDuplicates
  <2> QED
    BY <1>3, <1>5, <2>1, <2>2 DEF Range
<1>6. CASE ~(i < Len(list))
  BY <1>3, <1>4, <1>6, EventsAssumption
<1> QED
  BY <1>5, <1>6

\* A walk goes on: with a bottom half while notifications are started, with a stop
\* while they are stopped.
LEMMA VisitKeeps ==
    ASSUME EventsInv,
           NEW t \in Threads, owner \in {NULL, t},
           walk[t].ev \in {"bottom_half", "stopped"},
           NEW nd \in Range(list) \cup {NULL},
           Events!Visit(t, nd),
           UNCHANGED <<list, bh, itr, work, last>>,
           started' \in BOOLEAN, started' => started,
           walk[t].ev = "bottom_half" => started' = started,
           nd # NULL /\ walk[t].ev = "bottom_half" => started,
           nd # NULL /\ walk[t].ev = "stopped" => ~started'
    PROVE  EventsInv'
<1>1. \A u \in Threads : Walking(u) => u = t
  BY EventsAssumption DEF EventsInv, WalkOK
<1>2. \A d \in Range(list) : d \in Drivers
  BY DEF EventsInv, Events!TypeOK, Range
<1>3. Events!LastWord'
  BY DEF EventsInv, Events!LastWord, Events!Range
<1>4. CASE nd = NULL
  <2>1. walk' = [walk EXCEPT ![t] = Events!NoWalk] /\ owner' = NULL
    BY <1>4 DEF Events!Visit
  <2>2. Events!TypeOK'
    BY <2>1 DEF EventsInv, Events!TypeOK, Events!NoWalk
  <2>3. Events!WalksTheList' /\ WalkOK'
    BY <1>1, <2>1
       DEF EventsInv, Events!TypeOK, Events!WalksTheList, WalkOK, Walking,
           Events!NoWalk, Events!Range
  <2>4. RunOK'
    BY <1>1, <2>1
       DEF EventsInv, Events!TypeOK, RunOK, Walking, Events!NoWalk, Range
  <2> QED
    BY <1>3, <2>2, <2>3, <2>4 DEF EventsInv, NoDuplicates
<1>5. CASE nd # NULL
  <2>1. nd \in Range(list) /\ nd \in Drivers
    BY <1>2, <1>5
  <2>2. PICK next : next = Events!After(nd)
    OBVIOUS
  <2>3. next \in Range(list) \cup {NULL} /\ next # nd
    BY <2>1, <2>2, AfterOther
  <2>4. /\ walk' = [walk EXCEPT ![t].pc = "callback", ![t].nd = nd, ![t].tmp = next]
        /\ owner' = t
    BY <1>5, <2>2 DEF Events!Visit
  <2>5. /\ walk'[t].pc = "callback" /\ walk'[t].nd = nd
        /\ walk'[t].tmp = next /\ walk'[t].ev = walk[t].ev
        /\ \A u \in Threads \ {t} : walk'[u] = walk[u]
    BY <2>4 DEF EventsInv, Events!TypeOK
  <2>6. Events!TypeOK'
    <3>1. next \in Drivers \cup {NULL}
      BY <1>2, <2>3
    <3>2. walk' \in [Threads -> [pc : {"idle", "lock", "callback", "next"},
                                 ev : {"bottom_half", "stopped", NULL},
                                 nd : Drivers \cup {NULL},
                                 tmp : Drivers \cup {NULL}]]
      <4> DEFINE W == [pc : {"idle", "lock", "callback", "next"},
                       ev : {"bottom_half", "stopped", NULL},
                       nd : Drivers \cup {NULL}, tmp : Drivers \cup {NULL}]
                 w == [walk[t] EXCEPT !.pc = "callback", !.nd = nd, !.tmp = next]
      <4>1. walk \in [Threads -> W]
        BY DEF EventsInv, Events!TypeOK
      <4>2. w \in W
        BY <2>1, <3>1, <4>1
      <4>3. walk' = [walk EXCEPT ![t] = w]
        BY <2>4, <4>1
      <4> HIDE DEF W, w
      <4>4. walk' \in [Threads -> W]
        BY <4>1, <4>2, <4>3
      <4> QED
        BY <4>4 DEF W
    <3> QED
      BY <2>4, <3>2 DEF EventsInv, Events!TypeOK
  <2>7. Events!WalksTheList' /\ WalkOK'
    <3>1. Events!Range(list)' = Range(list)
      BY DEF Events!Range, Range
    <3>2. \A u \in Threads \ {t} : ~Walking(u)'
      BY <1>1, <2>5 DEF Walking
    <3>3. Events!WalksTheList'
      BY <2>1, <2>3, <2>5, <3>1, <3>2 DEF Events!WalksTheList, Walking
    <3>4. WalkOK'
      BY <2>1, <2>3, <2>4, <2>5, <3>2 DEF EventsInv, WalkOK
    <3> QED
      BY <3>3, <3>4
  <2>8. RunOK'
    <3>1. \A u \in Threads \ {t} : ~Walking(u)'
      BY <1>1, <2>5 DEF Walking
    <3>2. Range(list)' = Range(list)
      BY DEF Range
    <3> QED
      BY <1>5, <2>5, <3>1, <3>2 DEF EventsInv, RunOK, Walking
  <2> QED
    BY <1>3, <2>6, <2>7, <2>8 DEF EventsInv, NoDuplicates
<1> QED
  BY <1>4, <1>5

\* The first section of a walk: notif_mutex was free, so no walk is under way.
LEMMA WalkStartKeeps ==
    ASSUME EventsInv, NEW t \in Threads, Events!WalkStart(t)
    PROVE  EventsInv'
<1>1. PICK nd : /\ nd = IF started /\ list # <<>> THEN Head(list) ELSE NULL
                /\ Events!Visit(t, nd)
  BY DEF Events!WalkStart
<1>2. list \in Seq(Drivers) /\ walk[t].ev \in {"bottom_half", "stopped"}
  BY DEF Events!WalkStart, EventsInv, Events!TypeOK, WalkOK
<1>3. nd # NULL => started /\ nd \in Range(list)
  BY <1>1, <1>2 DEF Range
<1>4. /\ owner \in {NULL, t}
      /\ UNCHANGED <<list, bh, itr, work, last>>
      /\ started' = (started /\ walk[t].ev # "stopped")
  BY DEF Events!WalkStart
<1>5. /\ started \in BOOLEAN /\ started' \in BOOLEAN /\ (started' => started)
      /\ walk[t].ev = "bottom_half" => started' = started
      /\ walk[t].ev = "stopped" => ~started'
  BY <1>4 DEF EventsInv, Events!TypeOK
<1>6. /\ nd \in Range(list) \cup {NULL}
      /\ nd # NULL /\ walk[t].ev = "bottom_half" => started
  BY <1>3
<1> QED
  BY <1>1, <1>2, <1>4, <1>5, <1>6, VisitKeeps

\* A later section: a stop goes on only if notifications are still stopped.
LEMMA WalkNextKeeps ==
    ASSUME EventsInv, NEW t \in Threads, Events!WalkNext(t)
    PROVE  EventsInv'
<1>1. PICK nd : /\ nd = IF walk[t].ev = "stopped" /\ started THEN NULL ELSE walk[t].tmp
                /\ Events!Visit(t, nd)
  BY DEF Events!WalkNext
<1>2. Walking(t) /\ UNCHANGED <<list, started, bh, itr, work, last>>
  BY DEF Events!WalkNext, Walking
<1>3. owner = t /\ walk[t].ev \in {"bottom_half", "stopped"}
  BY <1>2 DEF EventsInv, WalkOK, Walking
<1>4. nd \in Range(list) \cup {NULL}
  BY <1>1, <1>2 DEF EventsInv, Events!WalksTheList, Events!Range, Range, Walking
<1>5. nd # NULL /\ walk[t].ev = "bottom_half" => started
  BY <1>2 DEF EventsInv, RunOK
<1>6. nd # NULL /\ walk[t].ev = "stopped" => ~started'
  BY <1>1, <1>2
<1>7. started' \in BOOLEAN /\ (started' => started)
  BY <1>2 DEF EventsInv, Events!TypeOK
<1> QED
  BY <1>1, <1>2, <1>3, <1>4, <1>5, <1>6, <1>7, VisitKeeps

\* A driver leaves the list in its callback: the walk has the next one already.
LEMMA UnregisterKeeps ==
    ASSUME EventsInv, NEW t \in Threads, Events!Unregister(t)
    PROVE  EventsInv'
<1>1. PICK i \in DOMAIN list : list[i] = walk[t].nd /\ list' = Events!RemoveAt(list, i)
  BY DEF Events!Unregister
<1>2. walk[t].pc = "next" /\ UNCHANGED <<started, owner, walk, bh, itr, work, last>>
  BY DEF Events!Unregister
<1>3. /\ list' \in Seq(Drivers)
      /\ Range(list') = Range(list) \ {walk[t].nd}
      /\ NoDuplicates(list')
  <2>1. list' = RemoveAt(list, i)
    BY <1>1 DEF Events!RemoveAt, RemoveAt
  <2> QED
    BY <1>1, <2>1, RemoveElement DEF EventsInv, Events!TypeOK
<1>4. \A u \in Threads : Walking(u) => u = t
  BY <1>2 DEF EventsInv, WalkOK, Walking
<1>5. Events!TypeOK'
  BY <1>2, <1>3 DEF EventsInv, Events!TypeOK
<1>6. Events!WalksTheList'
  <2>1. Events!Range(list)' = Range(list') /\ Events!Range(list) = Range(list)
    BY DEF Events!Range, Range
  <2>2. walk[t].tmp # walk[t].nd
    BY <1>2 DEF EventsInv, WalkOK, Walking
  <2> QED
    BY <1>2, <1>3, <1>4, <2>1, <2>2
       DEF EventsInv, Events!WalksTheList, Walking
<1>7. WalkOK'
  BY <1>2 DEF EventsInv, WalkOK, Walking
<1>8. RunOK'
  BY <1>2, <1>3 DEF EventsInv, RunOK, Walking
<1>9. Events!LastWord'
  BY <1>2, <1>3 DEF EventsInv, Events!LastWord, Events!Range, Range
<1> QED
  BY <1>3, <1>5, <1>6, <1>7, <1>8, <1>9 DEF EventsInv

\* The steps that leave list, walks and last words alone.
LEMMA OthersKeep ==
    ASSUME EventsInv,
           UNCHANGED <<list, owner, walk, last>>,
           started' = started,
           bh' \in BOOLEAN,
           itr' \in [Drivers -> {"idle", "send"}],
           work' \in [Drivers -> BOOLEAN]
    PROVE  EventsInv'
<1>1. Events!TypeOK'
  BY DEF EventsInv, Events!TypeOK
<1>2. /\ WalkOK' /\ RunOK' /\ NoDuplicates(list)'
      /\ Events!WalksTheList' /\ Events!LastWord'
  BY DEF EventsInv, WalkOK, RunOK, Walking, Range, Events!WalksTheList,
         Events!LastWord, Events!Range, NoDuplicates
<1> QED
  BY <1>1, <1>2 DEF EventsInv

\* notif_deliver_atomic_event() tells every driver of the list.
LEMMA StartKeeps ==
    ASSUME EventsInv, Events!Start
    PROVE  EventsInv'
<1>1. UNCHANGED <<list, owner, walk, bh, itr, work>> /\ started' = TRUE
  BY DEF Events!Start
<1>2. \A d \in Drivers :
         last'[d] = IF ~started /\ d \in Range(list) THEN "started" ELSE last[d]
  <2>1. Events!Range(list) = Range(list)
    BY DEF Events!Range, Range
  <2> QED
    BY <2>1 DEF Events!Start, EventsInv, Events!TypeOK
<1>3. Events!TypeOK'
  <2>1. last' \in [Drivers -> Events!Events \cup {NULL}]
    BY DEF Events!Start, EventsInv, Events!TypeOK, Events!Events
  <2> QED
    BY <1>1, <2>1 DEF EventsInv, Events!TypeOK
<1>4. \A d \in Range(list) : d \in Drivers
  BY DEF EventsInv, Events!TypeOK, Range
<1>5. CASE started
  BY <1>1, <1>2, <1>3, <1>4, <1>5, OthersKeep
     DEF Events!Start, EventsInv, Events!TypeOK
<1>6. CASE ~started
  <2>1. \A d \in Range(list) : last'[d] = "started"
    BY <1>2, <1>4, <1>6
  <2>2. RunOK'
    BY <1>1, <2>1, EventsAssumption DEF EventsInv, RunOK, Range, Walking
  <2>3. Events!LastWord'
    BY <1>1, <2>1 DEF Events!LastWord, Events!Range, Range
  <2>4. WalkOK' /\ Events!WalksTheList' /\ NoDuplicates(list)'
    BY <1>1 DEF EventsInv, WalkOK, Walking, Events!WalksTheList, Events!Range,
                NoDuplicates
  <2> QED
    BY <1>3, <2>2, <2>3, <2>4 DEF EventsInv
<1> QED
  BY <1>5, <1>6

\* notif_deliver_event() is entered, or a driver's callback runs.
LEMMA WalkerKeeps ==
    ASSUME EventsInv, NEW t \in Threads,
           \/ \E ev \in {"bottom_half", "stopped"} : Events!Deliver(t, ev)
           \/ Events!Callback(t)
    PROVE  EventsInv'
<1>1. ASSUME NEW ev \in {"bottom_half", "stopped"}, Events!Deliver(t, ev)
      PROVE  EventsInv'
  <2>1. /\ walk[t] = Events!NoWalk
        /\ walk' = [walk EXCEPT ![t] = [Events!NoWalk EXCEPT !.pc = "lock", !.ev = ev]]
        /\ UNCHANGED <<list, started, owner, itr, work, last>>
        /\ bh' \in BOOLEAN
    BY <1>1 DEF Events!Deliver
  <2>2. /\ walk'[t].pc = "lock" /\ walk'[t].ev = ev
        /\ \A u \in Threads \ {t} : walk'[u] = walk[u]
    BY <2>1 DEF EventsInv, Events!TypeOK, Events!NoWalk
  <2>3. Events!TypeOK'
    BY <2>1 DEF EventsInv, Events!TypeOK, Events!NoWalk
  <2>4. /\ WalkOK' /\ RunOK' /\ NoDuplicates(list)'
        /\ Events!WalksTheList' /\ Events!LastWord'
    BY <2>1, <2>2
       DEF EventsInv, Events!WalksTheList, Events!LastWord, WalkOK, RunOK, Walking,
           Events!Range, Range, NoDuplicates
  <2> QED
    BY <2>3, <2>4 DEF EventsInv
<1>2. ASSUME Events!Callback(t)
      PROVE  EventsInv'
  <2>1. /\ walk[t].pc = "callback"
        /\ walk' = [walk EXCEPT ![t].pc = "next"]
        /\ last' = [last EXCEPT ![walk[t].nd] = walk[t].ev]
        /\ UNCHANGED <<list, started, owner, bh, itr>>
    BY <1>2 DEF Events!Callback
  <2>2. /\ walk'[t].pc = "next" /\ walk'[t].ev = walk[t].ev
        /\ walk'[t].nd = walk[t].nd /\ walk'[t].tmp = walk[t].tmp
        /\ \A u \in Threads \ {t} : walk'[u] = walk[u]
    BY <2>1 DEF EventsInv, Events!TypeOK
  <2>3. work' \in [Drivers -> BOOLEAN]
    BY <1>2 DEF Events!Callback, EventsInv, Events!TypeOK
  <2>4. PICK nd, ev : nd = walk[t].nd /\ ev = walk[t].ev
    OBVIOUS
  <2>5. nd \in Range(list) /\ nd \in Drivers /\ ev \in {"bottom_half", "stopped"}
    BY <2>1, <2>4
       DEF EventsInv, WalkOK, Walking, Events!WalksTheList, Events!Range, Range
  <2>6. \A d \in Drivers : last'[d] = IF d = nd THEN ev ELSE last[d]
    BY <2>1, <2>4, <2>5 DEF EventsInv, Events!TypeOK
  <2>7. Events!TypeOK'
    <3>1. last' \in [Drivers -> Events!Events \cup {NULL}]
      BY <2>1, <2>4, <2>5 DEF EventsInv, Events!TypeOK, Events!Events
    <3> QED
      BY <2>1, <2>3, <3>1 DEF EventsInv, Events!TypeOK
  <2>8. Events!WalksTheList' /\ WalkOK' /\ NoDuplicates(list)'
    BY <2>1, <2>2
       DEF EventsInv, Events!WalksTheList, WalkOK, Walking, Events!Range, NoDuplicates
  <2>9. \A d \in Range(list) : d \in Drivers
    BY DEF EventsInv, Events!TypeOK, Range
  <2>10. Events!LastWord'
    <3>1. Events!Range(list)' = Range(list) /\ Events!Range(list) = Range(list)
      BY <2>1 DEF Events!Range, Range
    <3>2. CASE ev = "bottom_half"
      BY <2>1, <2>6, <2>9, <3>1, <3>2 DEF EventsInv, Events!LastWord
    <3>3. CASE ev = "stopped"
      <4>1. started => \A d \in Range(list) : last[d] # "stopped"
        BY <2>1, <2>4, <3>3 DEF EventsInv, RunOK
      <4> QED
        BY <2>1, <2>6, <2>9, <3>1, <4>1 DEF Events!LastWord
    <3> QED
      BY <2>5, <3>2, <3>3
  <2>11. RunOK'
    <3>1. Range(list)' = Range(list)
      BY <2>1 DEF Range
    <3>2. \A u \in Threads \ {t} : ~Walking(u)'
      BY <2>1, <2>2 DEF EventsInv, WalkOK, Walking
    <3>3. NULL # ev
      BY <2>5, EventsAssumption
    <3> QED
      BY <2>1, <2>2, <2>6, <2>9, <3>1, <3>2, <3>3 DEF EventsInv, RunOK, Walking
  <2> QED
    BY <2>7, <2>8, <2>10, <2>11 DEF EventsInv
<1> QED
  BY <1>1, <1>2

\* Every step keeps the invariant.
LEMMA EventsNext ==
    EventsInv /\ [Events!Next]_eventVars => EventsInv'
<1> SUFFICES ASSUME EventsInv, [Events!Next]_eventVars
             PROVE  EventsInv'
  OBVIOUS
<1>1. CASE UNCHANGED eventVars
  BY <1>1, OthersKeep DEF eventVars, EventsInv, Events!TypeOK
<1>2. ASSUME NEW d \in Drivers, Events!ItrCheck(d) \/ Events!ItrSend(d)
      PROVE  EventsInv'
  <2>1. UNCHANGED <<list, started, owner, walk, last>>
    BY <1>2 DEF Events!ItrCheck, Events!ItrSend
  <2>2. bh' \in BOOLEAN /\ itr' \in [Drivers -> {"idle", "send"}]
    BY <1>2 DEF Events!ItrCheck, Events!ItrSend, EventsInv, Events!TypeOK
  <2>3. work' \in [Drivers -> BOOLEAN]
    BY <1>2 DEF Events!ItrCheck, Events!ItrSend, EventsInv, Events!TypeOK
  <2> QED
    BY <2>1, <2>2, <2>3, OthersKeep
<1> QED
  BY <1>1, <1>2, StartKeeps, WalkerKeeps, WalkStartKeeps, WalkNextKeeps,
     UnregisterKeeps DEF Events!Next

\* The invariant holds in every behaviour.
LEMMA EventsInvariance == Events!Spec => []EventsInv
<1>1. EventsInv /\ [Events!Next]_Events!vars => EventsInv'
  BY EventsNext DEF Events!vars, eventVars
<1> QED
  BY EventsInit, <1>1, PTL DEF Events!Spec

\* notif_deliver_event() calls drivers of its list only, although the lock is
\* released while it calls them and drivers leave the list; and a stop overtaken
\* by a start ends with at most one driver that has STOPPED as the last word.
THEOREM DriversToldRightHolds == Events!Spec => []DriversToldRight
<1>1. EventsInv => DriversToldRight
  BY DEF EventsInv, DriversToldRight
<1> QED
  BY EventsInvariance, <1>1, PTL

\* A driver is called for the bottom half only while notifications are started and
\* after it was told so, although its callback runs without notif_lock while stops
\* and starts are asked for.
THEOREM BottomHalfWhenStartedHolds == Events!Spec => BottomHalfWhenStarted
<1>1. EventsInv /\ [Events!Next]_Events!vars =>
         [\A t \in Threads :
            walk[t].pc = "callback" /\ walk[t].ev = "bottom_half" /\ walk'[t].pc = "next"
                => started /\ last[walk[t].nd] # NULL]_Events!vars
  BY DEF EventsInv, RunOK, Walking, Events!WalksTheList, Events!Range, Range
<1> QED
  BY EventsInvariance, <1>1, PTL
     DEF Events!Spec, BottomHalfWhenStarted, Events!BottomHalfWhenStarted
=============================================================================
