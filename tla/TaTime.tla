------------------------------ MODULE TaTime -------------------------------
(***************************************************************************)
(* The persistent time of a TA: tee/tee_time_generic.c.  The core keeps    *)
(* for each TA the difference between the time that the TA has set and the *)
(* system time, and its sign.  Times are seconds and milliseconds, in 32   *)
(* bit unsigned arithmetic (macros of utee_defines.h); Base stands for the *)
(* 1000 milliseconds of a second and SecMod for 2^32.                      *)
(***************************************************************************)
EXTENDS Integers

CONSTANTS
    TAs,      \* the TAs
    Base,     \* TEE_TIME_MILLIS_BASE
    SecMod    \* the number of values of a 32 bit unsigned integer

ASSUME TaTimeAssumption == Base \in Nat \ {0} /\ SecMod \in Nat \ {0}

VARIABLES
    now,    \* milliseconds since boot
    offs,   \* tee_time_offs: the offset of each TA that has set its time
    set,    \* no state of the code: what was set last, and when
    got     \* no state of the code: the answer to a TA, if the last step gave one

vars == <<now, offs, set, got>>

Span == SecMod * Base
Secs == 0..(SecMod - 1)

\* A time and what it means.
Time == [s : Secs, ms : 0..(Base - 1)]
Millis(t) == t.s * Base + t.ms

\* tee_time_get_sys_time() from the system counter.
SysTime == [s |-> now \div Base, ms |-> now % Base]

\* TEE_TIME_LT and TEE_TIME_LE.
TimeLt(t, u) == IF t.s = u.s THEN t.ms < u.ms ELSE t.s < u.s
TimeLe(t, u) == IF t.s = u.s THEN t.ms <= u.ms ELSE t.s <= u.s

\* TEE_TIME_ADD and TEE_TIME_SUB.
TimeAdd(t, u) ==
    LET ms == t.ms + u.ms
        carry == IF ms >= Base THEN 1 ELSE 0
    IN  [s |-> (t.s + u.s + carry) % SecMod, ms |-> ms - carry * Base]

TimeSub(t, u) ==
    LET borrow == IF t.ms < u.ms THEN 1 ELSE 0
    IN  [s |-> (t.s - u.s - borrow) % SecMod, ms |-> t.ms + borrow * Base - u.ms]

TypeOK ==
    /\ now \in 0..(Span - 1)
    /\ DOMAIN offs \subseteq TAs
    /\ \A a \in DOMAIN offs : offs[a] \in [offs : Time, positive : BOOLEAN]
    /\ DOMAIN set = DOMAIN offs
    /\ \A a \in DOMAIN set : set[a] \in [time : Time, at : 0..(Span - 1)]
    /\ \A g \in got : g \in [ta : TAs, at : 0..(Span - 1), time : Time,
                           res : {"success", "overflow"}]

Init ==
    /\ now \in 0..(Span - 1)
    /\ offs = <<>>
    /\ set = <<>>
    /\ got = {}

\* The system counter; it does not wrap in the life of a device.
Tick ==
    /\ now < Span - 1
    /\ now' = now + 1
    /\ got' = {}
    /\ UNCHANGED <<offs, set>>

\* The function f with the value v for a, which may be new to it.
Put(f, a, v) == [b \in DOMAIN f \cup {a} |-> IF b = a THEN v ELSE f[b]]

\* tee_time_ta_set_offs(): the first offset of a TA, or a new one.
SetOffs(a, o) == Put(offs, a, o)

\* Mutant: the offset is taken in one direction only.
SetTaTimePositive(a, t) ==
    /\ offs' = SetOffs(a, [offs |-> TimeSub(t, SysTime), positive |-> TimeLe(SysTime, t)])
    /\ set' = Put(set, a, [time |-> t, at |-> now])
    /\ got' = {}
    /\ UNCHANGED now

\* tee_time_set_ta_time(): a time that is not normalized is refused.
SetTaTime(a, t) ==
    /\ offs' = SetOffs(a, IF TimeLt(SysTime, t)
                          THEN [offs |-> TimeSub(t, SysTime), positive |-> TRUE]
                          ELSE [offs |-> TimeSub(SysTime, t), positive |-> FALSE])
    /\ set' = Put(set, a, [time |-> t, at |-> now])
    /\ got' = {}
    /\ UNCHANGED now

\* Mutant: wrapping is not detected.
WrappedNever(t, o, t2) == FALSE

\* The tests after which tee_time_get_ta_time() reports TEE_ERROR_OVERFLOW.
Wrapped(t, o, t2) == IF o.positive THEN TimeLt(t2, t) ELSE TimeLe(t, t2)

\* tee_time_get_ta_time() of a TA that has set its time.
GetTaTime(a) ==
    /\ a \in DOMAIN offs
    /\ LET o == offs[a]
           t2 == IF o.positive THEN TimeAdd(SysTime, o.offs)
                 ELSE TimeSub(SysTime, o.offs)
       IN  got' = {[ta |-> a, at |-> now, time |-> t2,
                    res |-> IF Wrapped(SysTime, o, t2) THEN "overflow" ELSE "success"]}
    /\ UNCHANGED <<now, offs, set>>

Next ==
    \/ Tick
    \/ \E a \in TAs : GetTaTime(a) \/ \E t \in Time : SetTaTime(a, t)

Spec == Init /\ [][Next]_vars

-----------------------------------------------------------------------------
\* What the clock of the TA must show: the time that it set and the time that
\* has passed since.
Shown(g) == Millis(set[g.ta].time) + g.at - set[g.ta].at

\* The persistent time runs at the pace of the system time from where it was
\* set, for either sign of the offset and across carries.
KeepsPace == \A g \in got : Millis(g.time) = Shown(g) % Span

\* A time that has wrapped is never reported as a success.
WrapIsReported == \A g \in got : Shown(g) >= Span => g.res = "overflow"

\* tee_time_generic.c:84 and :90, "Detect wrapping, the wrapped time should be
\* returned": TEE_ERROR_OVERFLOW is reported for times that have wrapped.
OverflowMeansWrapped == \A g \in got : g.res = "overflow" => Shown(g) >= Span
=============================================================================
