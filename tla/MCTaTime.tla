------------------------------ MODULE MCTaTime ------------------------------
(* What the core computes from the system time, each part checked alone: the *)
(* persistent time of TAs and the timeouts of operations and of TEE_Wait().  *)
EXTENDS TaTime

CONSTANTS SecMax, Timeouts, Infinite, Horizon

ASSUME MCTaTimeAssumption ==
    /\ SecMax \in Nat \ {0} /\ Horizon \in 0..SecMax
    /\ Timeouts \subseteq Nat /\ Timeouts # {} /\ Infinite \notin Timeouts

VARIABLES part, cancel, mask, time, op, wait

C == INSTANCE Cancellation

timeVars == <<offs, set, got>>
cancelVars == <<cancel, mask, time, op, wait>>

PartInit ==
    \/ part = "time" /\ Init /\ C!Init
    \/ part = "cancellation" /\ C!Init /\ offs = <<>> /\ set = <<>> /\ got = {}

PartNext ==
    /\ UNCHANGED part
    /\ \/ part = "time" /\ Next /\ UNCHANGED cancelVars
       \/ part = "cancellation" /\ C!Next /\ UNCHANGED timeVars

PartSpec ==
    /\ PartInit /\ [][PartNext]_<<part, now, timeVars, cancelVars>>
    /\ part = "cancellation" => C!Fairness

\* tee_time_get_ta_time(): the persistent time runs at the pace of the system time
\* from where it was set, for either sign of the offset and across carries, and a
\* time that has wrapped is never reported as a success.
TimeIsRight ==
    IF part = "time" THEN TypeOK /\ KeepsPace /\ WrapIsReported ELSE C!TypeOK

\* syscall_wait() is successful only after the time that was asked for, however
\* often normal world returns early.  It is cancelled only if the TA has unmasked
\* cancellation, and tee_ta_cancel_command() was called since the TA returned last, as
\* user_ta_enter() clears the flag then, or the operation has a timeout.
WaitsUntilDue == C!WaitsUntilDue

\* syscall_wait() returns, unless it ends after the end of the clock.
WaitReturns == C!WaitReturns
=============================================================================
