------------------------------ MODULE MCNotif -------------------------------
(* The two halves of kernel/notif.c, values and events, each checked alone: *)
(* the part that is not checked stays in its initial state.  Events with    *)
(* and without normal world stopping notifications are parts of their own.  *)
EXTENDS Notif

CONSTANTS Threads, Drivers, NULL

ASSUME EventsAssumption ==
    /\ IsFiniteSet(Drivers) /\ NULL \notin Drivers /\ NULL \notin Threads
    /\ NULL \notin {"started", "bottom_half", "stopped"}

VARIABLES part, list, started, owner, walk, bh, itr, work, last

eventVars == <<list, started, owner, walk, bh, itr, work, last>>

Events == INSTANCE NotifDrivers WITH MayStop <- TRUE
NoStop == INSTANCE NotifDrivers WITH MayStop <- FALSE

PartInit == part \in {"values", "events", "nostop"} /\ Init /\ Events!Init

PartNext ==
    /\ UNCHANGED part
    /\ \/ part = "values" /\ Next /\ UNCHANGED eventVars
       \/ part = "events" /\ Events!Next /\ UNCHANGED vars
       \/ part = "nostop" /\ NoStop!Next /\ UNCHANGED vars

\* The fairness of a part asks for nothing in its initial state.
PartSpec ==
    /\ PartInit /\ [][PartNext]_<<part, vars, eventVars>>
    /\ Fairness /\ Events!Fairness

\* notif_send_async(), notif_send_it(), it_get_value(): no value and no interrupt
\* that is not masked is recorded without normal world being told of it or about to
\* ask, whatever is sent, masked and retrieved in between.
NothingLost == TypeOK /\ NoLostValue /\ NoLostIt

\* notif_deliver_event() calls drivers that are in its list only, although the
\* lock is released while it calls them and drivers leave the list; and a walk
\* with STOPPED, overtaken by notif_deliver_atomic_event() with STARTED, ends: at
\* most the driver that was being called is left with STOPPED as the last word.
DriversToldRight == Events!TypeOK /\ Events!WalksTheList /\ Events!LastWord

\* notif_deliver_event() calls a driver with DO_BOTTOM_HALF only while notif_started
\* is set and after the driver was called with STARTED, although yielding_cb runs
\* without notif_lock and STOPPED may be asked for at the same time.
BottomHalfWhenStarted == Events!BottomHalfWhenStarted

\* The work that an interrupt handler leaves to the bottom half of its driver is
\* done, if normal world does not stop notifications.
WorkDone == part = "nostop" => Events!WorkDone
=============================================================================
