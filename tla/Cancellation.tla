---------------------------- MODULE Cancellation ----------------------------
(***************************************************************************)
(* Cancelling an operation of a TA: the timeout of the operation           *)
(* (set_invoke_timeout() and tee_ta_session_is_cancelled() of              *)
(* kernel/tee_ta_manager.c), the cancellation mask, and TEE_Wait(), which  *)
(* sleeps in normal world and can be cancelled (tee/tee_svc.c).            *)
(*                                                                         *)
(* Base stands for the 1000 milliseconds of a second and SecMax for        *)
(* UINT32_MAX; the clock runs up to Horizon, less than UINT32_MAX ms.      *)
(***************************************************************************)
EXTENDS Integers

CONSTANTS
    Base,       \* milliseconds per second
    SecMax,     \* UINT32_MAX
    Timeouts,   \* the timeouts in milliseconds that are asked for
    Infinite,   \* TEE_TIMEOUT_INFINITE
    Horizon     \* the last millisecond of the clock, at most SecMax

VARIABLES
    now,      \* milliseconds since boot
    cancel,   \* sess->cancel
    mask,     \* sess->cancel_mask
    time,     \* sess->cancel_time
    op,       \* the operation that runs, and whether a cancellation was asked for
              \* since the TA returned last: no state of the code
    wait      \* syscall_wait(): its base time, and when it started

vars == <<now, cancel, mask, time, op, wait>>

Secs == 0..SecMax

TypeOK ==
    /\ now \in 0..Horizon
    /\ cancel \in BOOLEAN /\ mask \in BOOLEAN
    /\ time \in [s : Secs, ms : Nat]
    /\ op \in [on : BOOLEAN, asked : BOOLEAN,
               start : 0..Horizon, to : Timeouts \cup {Infinite}]
    /\ wait \in [pc : {"none", "check", "asleep", "done", "cancelled"},
                 base : 0..Horizon, to : Timeouts]

\* cancel_time that is never reached.
Never == [s |-> SecMax, ms |-> SecMax]

Init ==
    /\ now \in 0..Horizon
    /\ cancel = FALSE /\ mask = TRUE
    /\ time = Never
    /\ op = [on |-> FALSE, asked |-> FALSE, start |-> 0, to |-> Infinite]
    /\ wait = [pc |-> "none", base |-> 0, to |-> CHOOSE t \in Timeouts : TRUE]

\* tee_time_get_sys_time().
SysTime == [s |-> now \div Base, ms |-> now % Base]

\* set_invoke_timeout(): an addition that overflows means no timeout.
CancelTime(to) ==
    LET s == SysTime.s + (to \div Base)
        ms == SysTime.ms + (to % Base)
    IN  CASE to = Infinite -> Never
          [] to # Infinite /\ s > SecMax -> Never
          [] to # Infinite /\ s <= SecMax /\ ms <= Base -> [s |-> s, ms |-> ms]
          [] to # Infinite /\ s <= SecMax /\ ms > Base ->
                IF SysTime.s + 1 > SecMax THEN Never
                ELSE [s |-> (SysTime.s + 2) % (SecMax + 1), ms |-> ms - Base]

\* Mutant: the mask is ignored.
IsCancelledUnmasked ==
    \/ cancel
    \/ /\ time.s # SecMax
       /\ \/ SysTime.s > time.s
          \/ SysTime.s = time.s /\ SysTime.ms >= time.ms

\* tee_ta_session_is_cancelled().
IsCancelled ==
    /\ ~mask
    /\ \/ cancel
       \/ /\ time.s # SecMax
          /\ \/ SysTime.s > time.s
             \/ SysTime.s = time.s /\ SysTime.ms >= time.ms

-----------------------------------------------------------------------------
\* The system counter.
Tick ==
    /\ now < Horizon
    /\ now' = now + 1
    /\ UNCHANGED <<cancel, mask, time, op, wait>>

\* tee_ta_open_session() and tee_ta_invoke_command() enter the TA.
Enter(to) ==
    /\ ~op.on
    /\ time' = CancelTime(to)
    /\ op' = [op EXCEPT !.on = TRUE, !.start = now, !.to = to]
    /\ UNCHANGED <<now, cancel, mask, wait>>

\* Mutant: the flag outlives the operation.
LeaveCancelled ==
    /\ op.on /\ wait.pc \in {"none", "done", "cancelled"}
    /\ op' = [op EXCEPT !.on = FALSE, !.asked = FALSE]
    /\ wait' = [wait EXCEPT !.pc = "none"]
    /\ UNCHANGED <<now, cancel, mask, time>>

\* The TA returns: user_ta_enter() clears the cancellation.
Leave ==
    /\ op.on /\ wait.pc \in {"none", "done", "cancelled"}
    /\ cancel' = FALSE
    /\ op' = [op EXCEPT !.on = FALSE, !.asked = FALSE]
    /\ wait' = [wait EXCEPT !.pc = "none"]
    /\ UNCHANGED <<now, mask, time>>

\* tee_ta_cancel_command(), whether or not an operation runs.
CancelCommand ==
    /\ cancel' = TRUE
    /\ op' = [op EXCEPT !.asked = TRUE]
    /\ UNCHANGED <<now, mask, time, wait>>

\* syscall_mask_cancellation() and syscall_unmask_cancellation().
SetMask(m) ==
    /\ op.on /\ wait.pc \in {"none", "done", "cancelled"}
    /\ mask' = m
    /\ UNCHANGED <<now, cancel, time, op, wait>>

\* syscall_wait(): read the base time ...
Wait(to) ==
    /\ op.on /\ wait.pc \in {"none", "done", "cancelled"}
    /\ wait' = [pc |-> "check", base |-> now, to |-> to]
    /\ UNCHANGED <<now, cancel, mask, time, op>>

\* Mutant: only whole seconds are counted.
ElapsedSeconds(base) == (SysTime.s - (base \div Base)) * Base + Base

\* mytime, in unsigned 32 bit arithmetic.
Elapsed(base) ==
    ((SysTime.s - (base \div Base)) * Base + SysTime.ms - (base % Base)) % (SecMax + 1)

\* Mutant: the clock is not looked at.
WaitCheckNever ==
    /\ wait.pc = "check"
    /\ wait' = [wait EXCEPT !.pc = "asleep"]
    /\ UNCHANGED <<now, cancel, mask, time, op>>

\* ... look at the clock: cancelled, long enough, or sleep for the rest ...
WaitCheck ==
    /\ wait.pc = "check"
    /\ wait' = [wait EXCEPT !.pc =
                  IF IsCancelled THEN "cancelled"
                  ELSE IF Elapsed(wait.base) >= wait.to THEN "done" ELSE "asleep"]
    /\ UNCHANGED <<now, cancel, mask, time, op>>

\* ... and normal world returns from the RPC, early or late.
WaitReturn ==
    /\ wait.pc = "asleep"
    /\ wait' = [wait EXCEPT !.pc = "check"]
    /\ UNCHANGED <<now, cancel, mask, time, op>>

Next ==
    \/ Tick \/ Leave \/ CancelCommand \/ WaitCheck \/ WaitReturn
    \/ \E to \in Timeouts \cup {Infinite} : Enter(to)
    \/ \E to \in Timeouts : Wait(to)
    \/ \E m \in BOOLEAN : SetMask(m)

Spec == Init /\ [][Next]_vars

\* Time passes, and normal world resumes a thread that it was asked to suspend
\* for a while.
Fairness == WF_vars(Tick) /\ WF_vars(WaitCheck) /\ WF_vars(WaitReturn)

FairSpec == Spec /\ Fairness

-----------------------------------------------------------------------------
\* TEE_Wait() is successful only after the time that was asked for, however often
\* normal world returns early.  It is interrupted only where the TA has unmasked
\* cancellation, and only if a cancellation was asked for since the TA returned last
\* or the operation has a timeout.  The one asked for may have been meant for the
\* operation before, which had returned when it came.
WaitsUntilDue ==
    [][wait'.pc # wait.pc =>
          /\ wait'.pc = "done" => now - wait.base >= wait.to
          /\ wait'.pc = "cancelled" => ~mask /\ (op.asked \/ op.to # Infinite)]_vars

\* TEE_Wait() returns, unless it ends after the end of the clock.
WaitReturns ==
    wait.pc \in {"check", "asleep"}
        ~> (wait.pc \in {"done", "cancelled"} \/ wait.base + wait.to > Horizon)

\* tee_ta_manager.h:88, "Time when to cancel the TA invocation": the session
\* counts as cancelled by its timeout when that time has passed since the
\* operation started, and not before.
CancelsOnTime ==
    (op.on /\ op.to # Infinite /\ ~mask /\ ~cancel) =>
        (IsCancelled <=> now - op.start >= op.to)
=============================================================================
