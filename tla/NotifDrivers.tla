---------------------------- MODULE NotifDrivers ----------------------------
(***************************************************************************)
(* Delivery of notification events to drivers (kernel/notif.c) and the     *)
(* bottom half of a driver (plat-stm32mp1/drivers/stm32mp1_pwr_irq.c).     *)
(*                                                                         *)
(* Normal world starts notifications with a fast call, and stops them or   *)
(* asks for the bottom half with a standard call that walks the list of    *)
(* drivers.  notif_mutex makes the walks follow each other; notif_lock is  *)
(* released while a driver's callback runs.  An interrupt handler looks    *)
(* whether notifications are started and then leaves its work to the       *)
(* bottom half; the look and the request are two sections.                 *)
(***************************************************************************)
EXTENDS Integers, SequencesExt

CONSTANTS
    Threads,    \* threads that normal world calls with
    Drivers,    \* the drivers
    MayStop,    \* normal world may stop notifications
    NULL

VARIABLES
    list,      \* notif_driver_head
    started,   \* notif_started
    owner,     \* the thread that has locked notif_mutex
    walk,      \* what each thread does in notif_deliver_event()
    bh,        \* DO_BOTTOM_HALF is recorded or normal world knows of it
    itr,       \* where a driver's interrupt handler is
    work,      \* the driver has work for its bottom half
    last       \* the event a driver was called with last: no state of the code

vars == <<list, started, owner, walk, bh, itr, work, last>>

Events == {"started", "bottom_half", "stopped"}

NoWalk == [pc |-> "idle", ev |-> NULL, nd |-> NULL, tmp |-> NULL]

TypeOK ==
    /\ list \in Seq(Drivers)
    /\ started \in BOOLEAN
    /\ owner \in Threads \cup {NULL}
    /\ walk \in [Threads -> [pc : {"idle", "lock", "callback", "next"},
                             ev : {"bottom_half", "stopped", NULL},
                             nd : Drivers \cup {NULL}, tmp : Drivers \cup {NULL}]]
    /\ bh \in BOOLEAN
    /\ itr \in [Drivers -> {"idle", "send"}]
    /\ work \in [Drivers -> BOOLEAN]
    /\ last \in [Drivers -> Events \cup {NULL}]

\* The drivers have registered at boot, the last one is the first in the list.
Init ==
    /\ list \in SetToSeqs(Drivers)
    /\ started = FALSE
    /\ owner = NULL
    /\ walk = [t \in Threads |-> NoWalk]
    /\ bh = FALSE
    /\ itr = [d \in Drivers |-> "idle"]
    /\ work = [d \in Drivers |-> FALSE]
    /\ last = [d \in Drivers |-> NULL]

-----------------------------------------------------------------------------
(* Interrupt handlers.                                                     *)

\* notif_async_is_started(): without notifications the handler does the work
\* itself.
ItrCheck(d) ==
    /\ itr[d] = "idle" /\ d \in Range(list)
    /\ started
    /\ itr' = [itr EXCEPT ![d] = "send"]
    /\ UNCHANGED <<list, started, owner, walk, bh, work, last>>

\* Mutant: the work is recorded and nobody is asked to do it.
ItrSendNothing(d) ==
    /\ itr[d] = "send"
    /\ bh' = bh
    /\ work' = [work EXCEPT ![d] = TRUE]
    /\ itr' = [itr EXCEPT ![d] = "idle"]
    /\ UNCHANGED <<list, started, owner, walk, last>>

\* Record the work and notif_send_async().
ItrSend(d) ==
    /\ itr[d] = "send"
    /\ work' = [work EXCEPT ![d] = TRUE]
    /\ bh' = TRUE
    /\ itr' = [itr EXCEPT ![d] = "idle"]
    /\ UNCHANGED <<list, started, owner, walk, last>>

-----------------------------------------------------------------------------
(* Events.                                                                 *)

\* notif_deliver_atomic_event().
Start ==
    /\ started' = TRUE
    /\ last' = IF started THEN last
               ELSE [d \in Drivers |-> IF d \in Range(list) THEN "started" ELSE last[d]]
    /\ UNCHANGED <<list, owner, walk, bh, itr, work>>

\* notif_deliver_event() is called; normal world calls for the bottom half when
\* it was told to.
Deliver(t, ev) ==
    /\ walk[t] = NoWalk
    /\ IF ev = "stopped" THEN MayStop ELSE bh
    /\ walk' = [walk EXCEPT ![t] = [NoWalk EXCEPT !.pc = "lock", !.ev = ev]]
    /\ bh' = (bh /\ ev = "stopped")
    /\ UNCHANGED <<list, started, owner, itr, work, last>>

\* The driver after nd in the list.
After(nd) ==
    LET i == CHOOSE j \in DOMAIN list : list[j] = nd
    IN  IF i < Len(list) THEN list[i + 1] ELSE NULL

\* The walk of t goes on with the driver nd, or ends and unlocks the mutex.  The
\* driver is picked under notif_lock, which is released before it is called.
Visit(t, nd) ==
    IF nd = NULL
    THEN walk' = [walk EXCEPT ![t] = NoWalk] /\ owner' = NULL
    ELSE /\ walk' = [walk EXCEPT ![t].pc = "callback", ![t].nd = nd, ![t].tmp = After(nd)]
         /\ owner' = t

\* Mutant: walks are not serialized.
WalkStartShared(t) ==
    /\ walk[t].pc = "lock"
    /\ Visit(t, IF started /\ list # <<>> THEN Head(list) ELSE NULL)
    /\ started' = (started /\ walk[t].ev # "stopped")
    /\ UNCHANGED <<list, bh, itr, work, last>>

\* The mutex is locked, and the first section.
WalkStart(t) ==
    /\ walk[t].pc = "lock" /\ owner = NULL
    /\ Visit(t, IF started /\ list # <<>> THEN Head(list) ELSE NULL)
    /\ started' = (started /\ walk[t].ev # "stopped")
    /\ UNCHANGED <<list, bh, itr, work, last>>

\* yielding_cb of the driver, without notif_lock: STARTED may have been delivered
\* since the driver was picked.  The bottom half does the work.
Callback(t) ==
    /\ walk[t].pc = "callback"
    /\ last' = [last EXCEPT ![walk[t].nd] = walk[t].ev]
    /\ work' = [work EXCEPT ![walk[t].nd] = @ /\ walk[t].ev = "stopped"]
    /\ walk' = [walk EXCEPT ![t].pc = "next"]
    /\ UNCHANGED <<list, started, owner, bh, itr>>

\* Mutant: a callback unregisters the next driver as well.
UnregisterTwo(t) ==
    /\ walk[t].pc = "next"
    /\ walk[t].nd \in Range(list)
    /\ list' = SelectSeq(list, LAMBDA d : d \notin {walk[t].nd, walk[t].tmp})
    /\ UNCHANGED <<started, owner, walk, bh, itr, work, last>>

\* notif_unregister_driver(): a driver leaves the list in its own callback.
Unregister(t) ==
    /\ walk[t].pc = "next"
    /\ itr[walk[t].nd] = "idle" /\ ~work[walk[t].nd]
    /\ \E i \in DOMAIN list : list[i] = walk[t].nd /\ list' = RemoveAt(list, i)
    /\ UNCHANGED <<started, owner, walk, bh, itr, work, last>>

\* Mutant: a walk that stops goes on although notifications are started again.
WalkNextStops(t) ==
    /\ walk[t].pc = "next"
    /\ Visit(t, walk[t].tmp)
    /\ UNCHANGED <<list, started, bh, itr, work, last>>

\* The section after the callback: "Started again while stopping" ends the walk.
WalkNext(t) ==
    /\ walk[t].pc = "next"
    /\ Visit(t, IF walk[t].ev = "stopped" /\ started THEN NULL ELSE walk[t].tmp)
    /\ UNCHANGED <<list, started, bh, itr, work, last>>

Next ==
    \/ Start
    \/ \E d \in Drivers : ItrCheck(d) \/ ItrSend(d)
    \/ \E t \in Threads :
          \/ \E ev \in {"bottom_half", "stopped"} : Deliver(t, ev)
          \/ WalkStart(t) \/ Callback(t) \/ Unregister(t) \/ WalkNext(t)

Spec == Init /\ [][Next]_vars

\* Threads run, normal world handles its interrupt and then calls for the bottom
\* half.
Fairness ==
    /\ \A t \in Threads : WF_vars(WalkStart(t)) /\ WF_vars(Callback(t)) /\ WF_vars(WalkNext(t))
    /\ SF_vars(\E t \in Threads : Deliver(t, "bottom_half"))
    /\ \A d \in Drivers : WF_vars(ItrSend(d))

FairSpec == Spec /\ Fairness

-----------------------------------------------------------------------------
\* A driver is called for the bottom half only while notifications are started and
\* after it was told so, although it is called without notif_lock and a stop may be
\* asked for at any time.
BottomHalfWhenStarted ==
    [][\A t \in Threads :
          walk[t].pc = "callback" /\ walk[t].ev = "bottom_half" /\ walk'[t].pc = "next"
              => started /\ last[walk[t].nd] # NULL]_vars

\* notif.h:60, "In case a STOPPED is received there will be no more DO_BOTTOM_HALF
\* events delivered, until STARTED has been delivered again".  Not so of the calls:
\* STARTED may be delivered between the pick of a driver and its call with STOPPED,
\* and bottom halves follow.
NoBottomHalfAfterStopped ==
    [][\A d \in Drivers :
          last'[d] = "bottom_half" => last[d] \in {"started", "bottom_half"}]_last

\* A walk is about to call drivers of the list only, although the lock is
\* released while drivers are called, and drivers leave the list.
WalksTheList ==
    \A t \in Threads :
        /\ walk[t].pc = "callback" => walk[t].nd \in Range(list)
        /\ walk[t].pc \in {"callback", "next"} =>
              walk[t].tmp \in Range(list) \cup {NULL}

\* A stop that is overtaken by a start ends: of all drivers only the one that was
\* being called when STARTED came may be left with STOPPED as the last word.
LastWord ==
    started =>
        \A d, e \in Range(list) : last[d] = "stopped" /\ last[e] = "stopped" => d = e

\* The work that a driver has left to its bottom half is done, if normal world
\* does not stop notifications.
WorkDone == \A d \in Drivers : work[d] ~> ~work[d]

\* plat-vexpress/main.c:120, "Asynchronous notifications are enabled, lets read
\* from uart in the bottom half instead": they are when the bottom half is asked
\* for.
EnabledWhenSent ==
    [][\A d \in Drivers : itr[d] = "send" /\ itr'[d] = "idle" => started]_vars
=============================================================================
