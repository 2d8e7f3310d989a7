------------------------------- MODULE Notif -------------------------------
(***************************************************************************)
(* Asynchronous notification values and interrupt notifications:           *)
(* kernel/notif.c.  Secure world records values and interrupt numbers in   *)
(* bit strings and raises one interrupt; the handler of normal world takes *)
(* the values out with fast calls.  A step is one section under notif_lock *)
(* or it_lock, with the nested section where there is one.                 *)
(***************************************************************************)
EXTENDS Integers, FiniteSets

CONSTANTS
    AsyncMax,    \* NOTIF_ASYNC_VALUE_MAX
    ItMax,       \* NOTIF_IT_VALUE_MAX
    ItNumbers    \* the interrupts that the drivers send

DoBottomHalf == 0   \* NOTIF_VALUE_DO_BOTTOM_HALF
DoIt == 1           \* NOTIF_VALUE_DO_IT

Values == 0..AsyncMax
Its == 0..ItMax

ASSUME NotifAssumption ==
    /\ AsyncMax \in Nat \ {0} /\ ItMax \in Nat
    /\ ItNumbers \subseteq Its

VARIABLES
    alloc,     \* notif_alloc_values
    owned,     \* the values that were allocated and not freed
    values,    \* notif_values
    pend,      \* it_pending
    masked,    \* it_masked
    irq,       \* the interrupt of normal world is pending
    nw,        \* where normal world's handler is
    told,      \* the interrupt that it_get_value() has returned last
    fault      \* an assertion has failed

vars == <<alloc, owned, values, pend, masked, irq, nw, told, fault>>

TypeOK ==
    /\ alloc \subseteq Values /\ owned \subseteq Values
    /\ values \subseteq Values
    /\ pend \subseteq Its /\ masked \subseteq Its
    /\ irq \in BOOLEAN
    /\ nw \in [pc : {"idle", "value", "it"}, more : BOOLEAN]
    /\ told \subseteq Its
    /\ fault \in BOOLEAN

\* notif_register_driver() masks all interrupts at boot if there is a driver.
Init ==
    /\ alloc = {} /\ owned = {} /\ values = {} /\ pend = {}
    /\ masked \in {{}, Its}
    /\ irq = FALSE
    /\ nw = [pc |-> "idle", more |-> FALSE]
    /\ told = {}
    /\ fault = FALSE

\* bit_ffs() and bit_ffc() on the first n bits.
First(S, n) == {b \in S : b < n /\ \A a \in S : b <= a}
FirstClear(S, n) == First((0..(n - 1)) \ S, n)

\* notif_alloc_async_value(): the first free value; the first call sets the
\* value of the bottom half aside.
AllocValue(v) ==
    LET inited == alloc \cup {DoBottomHalf}
    IN  /\ v \in FirstClear(inited, AsyncMax + 1)
        /\ alloc' = inited \cup {v}
        /\ owned' = owned \cup {v}
        /\ UNCHANGED <<values, pend, masked, irq, nw, told, fault>>

\* notif_free_async_value() of a value that was allocated.
FreeValue(v) ==
    /\ v \in owned
    /\ IF v < AsyncMax /\ v \in alloc
       THEN /\ alloc' = alloc \ {v} /\ owned' = owned \ {v}
            /\ UNCHANGED fault
       ELSE fault' = TRUE /\ UNCHANGED <<alloc, owned>>
    /\ UNCHANGED <<values, pend, masked, irq, nw, told>>

\* notif_send_async() for the values V, at most one: record and raise.
RaiseAsync(V) ==
    /\ values' = values \cup V
    /\ irq' = (irq \/ V # {})

\* A driver asks for a bottom half, or the owner of a value sends it.
SendAsync(v) ==
    /\ v \in {DoBottomHalf} \cup owned
    /\ RaiseAsync({v})
    /\ UNCHANGED <<alloc, owned, pend, masked, nw, told, fault>>

\* notif_send_it(): record, and raise unless masked.
SendIt(n) ==
    /\ pend' = pend \cup {n}
    /\ RaiseAsync(IF n \in masked THEN {} ELSE {DoIt})
    /\ UNCHANGED <<alloc, owned, masked, nw, told, fault>>

\* Mutant: unmasking does not look for a pending interrupt.
ItSetMaskSilent(n, m) ==
    /\ masked' = IF n >= ItMax THEN masked
                 ELSE IF m THEN masked \cup {n} ELSE masked \ {n}
    /\ UNCHANGED <<alloc, owned, values, pend, irq, nw, told, fault>>

\* it_set_mask(): unmasking raises an interrupt that is pending.
ItSetMask(n, m) ==
    /\ masked' = IF n >= ItMax THEN masked
                 ELSE IF m THEN masked \cup {n} ELSE masked \ {n}
    /\ RaiseAsync(IF n < ItMax /\ ~m /\ n \in pend THEN {DoIt} ELSE {})
    /\ UNCHANGED <<alloc, owned, pend, nw, told, fault>>

-----------------------------------------------------------------------------
(* The handler of normal world (external): take values until none is       *)
(* pending, and for DoIt the interrupts until none is pending.             *)

NwInterrupt ==
    /\ irq /\ nw.pc = "idle"
    /\ irq' = FALSE
    /\ nw' = [pc |-> "value", more |-> FALSE]
    /\ UNCHANGED <<alloc, owned, values, pend, masked, told, fault>>

\* Mutant: value_pending is never set.
GetValueLast ==
    /\ nw.pc = "value"
    /\ \E v \in First(values, AsyncMax + 1) :
          /\ values' = values \ {v}
          /\ nw' = [pc |-> IF v = DoIt THEN "it" ELSE "idle", more |-> FALSE]
    /\ UNCHANGED <<alloc, owned, pend, masked, irq, told, fault>>

\* notif_get_value(): value_valid and value_pending steer the handler.
GetValue ==
    /\ nw.pc = "value"
    /\ LET first == First(values, AsyncMax + 1)
           pending == First(values \ first, AsyncMax + 1) # {}
       IN  /\ values' = values \ first
           /\ nw' = IF first = {DoIt} THEN [pc |-> "it", more |-> pending]
                    ELSE [pc |-> IF pending THEN "value" ELSE "idle", more |-> FALSE]
    /\ UNCHANGED <<alloc, owned, pend, masked, irq, told, fault>>

\* Mutant: an interrupt is returned and not cleared from the record.
ItGetValueKeep ==
    /\ nw.pc = "it"
    /\ told' = First(pend, ItMax)
    /\ nw' = [pc |-> IF nw.more THEN "value" ELSE "idle", more |-> FALSE]
    /\ UNCHANGED <<alloc, owned, values, pend, masked, irq, fault>>

\* it_get_value(): the scan stops before the highest number.
ItGetValue ==
    /\ nw.pc = "it"
    /\ LET first == First(pend, ItMax)
           pending == First(pend \ first, ItMax) # {}
       IN  /\ pend' = pend \ first
           /\ told' = first
           /\ nw' = IF pending THEN nw
                    ELSE [pc |-> IF nw.more THEN "value" ELSE "idle", more |-> FALSE]
    /\ UNCHANGED <<alloc, owned, values, masked, irq, fault>>

Send ==
    \/ \E v \in Values : SendAsync(v)
    \/ \E n \in ItNumbers : SendIt(n)
    \/ \E n \in Its, m \in BOOLEAN : ItSetMask(n, m)

Next ==
    /\ ~fault
    /\ \/ Send
       \/ \E v \in Values : AllocValue(v) \/ FreeValue(v)
       \/ NwInterrupt \/ GetValue \/ ItGetValue

Spec == Init /\ [][Next]_vars

\* Normal world handles its interrupts.
Fairness == WF_vars(~fault /\ (NwInterrupt \/ GetValue \/ ItGetValue))

FairSpec == Spec /\ Fairness

-----------------------------------------------------------------------------
\* A recorded value is on its way: the interrupt is pending, or the handler
\* will ask again.  Values sent while the handler runs are not forgotten.
NoLostValue == values # {} => irq \/ nw.pc = "value" \/ nw.more

\* An interrupt that is pending and not masked is on its way: the value DoIt is
\* recorded or the handler is asking for interrupts.  This holds across masking,
\* unmasking and the scans of the handler.
NoLostIt == pend \ masked # {} => DoIt \in values \/ nw.pc = "it"

\* If the senders stop, everything that was sent is taken out, the interrupts
\* that stay masked excepted.  (A failed assertion stops the core.)
EverythingRetrieved ==
    <>[][~Send]_vars => <>[](fault \/ (values = {} /\ pend \subseteq masked))

\* notif.c:171, assert(it_number <= NOTIF_IT_VALUE_MAX): all these numbers may
\* be sent.  notif_send_it() of the highest one is retrieved as well.
EveryItRetrieved == NoLostIt

\* optee_smc.h:580, "Mask or unmask an interrupt notification event": normal
\* world is not told of an interrupt that it has masked.
MaskedNotTold == [][told' # told => told' \cap masked = {}]_vars

\* notif.h:20, values from 1 are "Free for signalling in PTAs and should be
\* allocated": a value that the core sends itself is not allocated.
CoreValuesReserved == DoIt \notin owned

\* notif.c:66, assert(val < NOTIF_ASYNC_VALUE_MAX): the values that were
\* allocated can be freed.
FreeSucceeds == ~fault
=============================================================================
