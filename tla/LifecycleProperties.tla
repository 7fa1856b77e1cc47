------------------------- MODULE LifecycleProperties -------------------------
(****************************************************************************)
(* What Lifecycle is to satisfy.                                            *)
(****************************************************************************)
EXTENDS Lifecycle

(* Every variable keeps its type.                                           *)
TypeOK ==
    /\ main \in MainLabels
    /\ signalled \in BOOLEAN
    /\ teardown \in [TeardownFuncs -> TeardownLabels]
    /\ stopped \subseteq Schedulers
    /\ run \in [Schedulers -> Runs]

(* A call starts over with each access to the database, and its delay is a  *)
(* function of the attempt: a broken tenant holds up the others for a known *)
(* time.  (ExecuteWithRetry)                                                *)
BackoffSchedule ==
    \A s \in Schedulers : InSweep(s) =>
        LET c == Config(run[s].tenant)
            exact == c.initialDelay * BackoffFactor ^ run[s].call.attempt
        IN  /\ run[s].call.attempt <= c.maxRetries
            /\ run[s].call.delay = IF exact > c.maxDelay THEN c.maxDelay ELSE exact

(* When the process ends, no teardown function that was counted is cut off, *)
(* and no sweep either if the one that stops the schedulers was counted.    *)
(* (Manager.Wait, Stop "gracefully stops the scheduler")                    *)
CountedTeardownsFinish ==
    main = "exited" =>
        /\ \A f \in TeardownFuncs : teardown[f] \in {"spawned", "finished"}
        /\ teardown["stopSchedulers"] = "finished" =>
              \A s \in Schedulers : run[s].pc = "done"

(* Fair.  A signal that main has received ends the process, whatever the    *)
(* schedulers are at and however the database fails.                        *)
ShutdownCompletes == (main = "cancel") ~> (main = "exited")

(* Fair.  A tenant that has been found is taken up, although the ones       *)
(* before it keep failing, unless the process is being taken down.          *)
FoundTenantsAreSwept ==
    \A s \in Schedulers, t \in Tenants :
        t \in run[s].todo ~> (run[s].tenant = t \/ Cancelled)

(* Fair.  While the process serves, every scheduler starts a sweep again    *)
(* and again, whatever has failed before.                                   *)
SweepsGoOn ==
    <>[](main = "wait") => \A s \in Schedulers : []<>(InSweep(s) /\ run[s].tenant = NoTenant)
=============================================================================
