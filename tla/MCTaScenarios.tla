--------------------------- MODULE MCTaScenarios ---------------------------
(* Trusted applications of different kinds, each a scenario of its own. *)
EXTENDS MCTaManager

VARIABLE scenario

\* Normal world and the TA A use the single instance TA B.
Nested == INSTANCE TaManager WITH
    Single <- {B}, MultiSession <- {B}, Concurrent <- {}, Clients <- {A, B},
    TaMayPanic <- FALSE, IdMax <- 2

\* TAs that call each other, and themselves, to a depth that is not allowed.
Reentry == INSTANCE TaManager WITH
    Single <- {A, B}, MultiSession <- {A, B}, Concurrent <- {},
    Calls <- CyclicCalls, TaMayPanic <- FALSE, MaxRecursion <- 1,
    IdMax <- 2

\* A panics while several sessions share its context.
Shared == INSTANCE TaManager WITH
    Single <- {A}, MultiSession <- {A}, Concurrent <- {}, Calls <- NoCalls,
    IdMax <- 2

\* Clients, normal world and the concurrent TA A, use ids that they were not told
\* of and close sessions twice.
Guessed == INSTANCE TaManager WITH
    Single <- {A}, MultiSession <- {A}, Concurrent <- {A}, TaMayPanic <- FALSE,
    AnyId <- TRUE

ScenarioInit ==
    /\ scenario \in {"panic", "nested", "reentry", "shared", "guessed"}
    /\ Init

ScenarioNext ==
    /\ UNCHANGED scenario
    /\ \/ scenario = "panic" /\ Next
       \/ scenario = "nested" /\ Nested!Next
       \/ scenario = "reentry" /\ Reentry!Next
       \/ scenario = "shared" /\ Shared!Next
       \/ scenario = "guessed" /\ Guessed!Next

ScenarioSpec == ScenarioInit /\ [][ScenarioNext]_<<vars, scenario>>


\* tee_ta_try_set_busy(), lock_single_instance(): in each scenario a TA that is not
\* concurrent is entered by one call at a time, and is busy exactly then; the lock
\* of the single instance TAs is held by the thread that is in one, as often as it
\* is, also when TAs call each other.
LocksExactEach ==
    /\ scenario = "panic" => BusyExcludes
    /\ scenario = "nested" => Nested!BusyExcludes /\ Nested!SingleLockExact
    /\ scenario = "reentry" => Reentry!BusyExcludes /\ Reentry!SingleLockExact
    /\ scenario = "shared" => Shared!BusyExcludes /\ Shared!SingleLockExact
    /\ scenario = "guessed" => Guessed!BusyExcludes /\ Guessed!SingleLockExact

\* No assertion fails and no panic() is called.  Left out are the scenarios in which
\* TAs call themselves (a TA which closes a session that it is called in makes the
\* core panic), a context panics under its other users, or ids are guessed.
NoFaultEach == scenario \in {"panic", "nested"} => NoFault
=============================================================================
