------------------------------ MODULE Lifecycle ------------------------------
(****************************************************************************)
(* The life of one replica: main starts the two schedulers, registers what  *)
(* is to be done at the end, waits for a signal and takes everything down;  *)
(* meanwhile each scheduler sweeps the tenants, one after the other, with   *)
(* every access to the database under ExecuteWithRetry.                     *)
(*                                                                          *)
(* What a sweep does to the tables is the business of Proposals and         *)
(* Ceremonies; here it succeeds or fails.  The Kafka consumers and the HTTP *)
(* server, which join the same wait group from libraries, are left out.     *)
(****************************************************************************)
EXTENDS Retry, Sequences, FiniteSets

CONSTANTS
    Schedulers,
    StopOrder,                 \* the order in which main starts and stops them
    Tenants,
    Broken,                    \* tenants whose sweep never succeeds
    NoTenant,                  \* placeholder: the tenants are being listed
    ListRetry, SweepRetry      \* how the two accesses to the database are retried

ASSUME EachSchedulerIsStoppedOnce ==
    /\ StopOrder \in Seq(Schedulers)
    /\ \A s \in Schedulers : \E k \in DOMAIN StopOrder : StopOrder[k] = s
    /\ \A k, n \in DOMAIN StopOrder : StopOrder[k] = StopOrder[n] => k = n
ASSUME NoTenantIsNoTenant == NoTenant \notin Tenants
ASSUME RetriesAreConfigured ==
    /\ {ListRetry, SweepRetry} \subseteq RetryConfig
    /\ ListRetry.initialDelay <= ListRetry.maxDelay
    /\ SweepRetry.initialDelay <= SweepRetry.maxDelay

VARIABLES
    main,        \* where main is
    signalled,   \* whether the process has been sent a signal
    teardown,    \* the goroutine of each teardown function
    stopped,     \* schedulers whose stop channel is closed
    run          \* the goroutine of each scheduler

vars == <<main, signalled, teardown, stopped, run>>

----------------------------------------------------------------------------
(* The teardown manager.                                                    *)

MainLabels ==
    { "connect", "start", "registerStop", "registerTracing", "wait",
      "cancel", "drain", "exited", "fatal" }

TeardownFuncs == {"stopSchedulers", "tracing"}
TeardownLabels == {"none", "spawned", "counted", "running", "finished"}

(* Mutant: doneChan gets a value instead of being closed. *)
DoneClosed_Mutant == main = "cancel"

(* Wait closes doneChan as soon as it has received a signal, and cancels    *)
(* the context afterwards.                                                  *)
DoneClosed == main \in {"cancel", "drain"}
Cancelled == main \in {"drain", "exited"}

Alive == main \notin {"exited", "fatal"}

(* What the wait group counts.                                              *)
Counted == {f \in TeardownFuncs : teardown[f] \in {"counted", "running"}}

----------------------------------------------------------------------------
(* The schedulers.                                                          *)

RunLabels == {"none", "select", "check", "begin", "operate", "backoff", "done"}

Config(tenant) == IF tenant = NoTenant THEN ListRetry ELSE SweepRetry

Runs ==
    [ pc : RunLabels, tenant : Tenants \cup {NoTenant}, todo : SUBSET Tenants,
      call : Calls(ListRetry) \cup Calls(SweepRetry) ]

AtRest(label) ==
    [pc |-> label, tenant |-> NoTenant, todo |-> {}, call |-> FirstCall(ListRetry)]

Calling(tenant, todo) ==
    [pc |-> "check", tenant |-> tenant, todo |-> todo, call |-> FirstCall(Config(tenant))]

Listing == Calling(NoTenant, {})

InSweep(s) == run[s].pc \in {"check", "begin", "operate", "backoff"}

----------------------------------------------------------------------------
Init ==
    /\ main = "connect"
    /\ signalled = FALSE
    /\ teardown = [f \in TeardownFuncs |-> "none"]
    /\ stopped = {}
    /\ run = [s \in Schedulers |-> AtRest("none")]

Advance(from, to) == main = from /\ main' = to

(* The connection is tried ten times, a second apart; then the process ends *)
(* with a fatal error.                                                      *)
Connect ==
    /\ Advance("connect", "start") \/ Advance("connect", "fatal")
    /\ UNCHANGED <<signalled, teardown, stopped, run>>

NotStarted == {k \in DOMAIN StopOrder : run[StopOrder[k]].pc = "none"}

(* The first sweep begins with the start.                                   *)
Start ==
    /\ main = "start"
    /\ \E k \in NotStarted :
          /\ \A n \in NotStarted : k <= n
          /\ run' = [run EXCEPT ![StopOrder[k]] = Listing]
    /\ UNCHANGED <<main, signalled, teardown, stopped>>

Started ==
    /\ NotStarted = {}
    /\ Advance("start", "registerStop")
    /\ UNCHANGED <<signalled, teardown, stopped, run>>

(* TeardownFunc starts a goroutine, which is not counted yet.               *)
TeardownFunc(f, from, to) ==
    /\ Advance(from, to)
    /\ teardown' = [teardown EXCEPT ![f] = "spawned"]
    /\ UNCHANGED <<signalled, stopped, run>>

Register ==
    \/ TeardownFunc("stopSchedulers", "registerStop", "registerTracing")
    \/ TeardownFunc("tracing", "registerTracing", "wait")

(* The channel signals are notified on has no buffer: a signal that arrives *)
(* while main is not receiving is dropped.                                  *)
Signal ==
    /\ Alive
    /\ ~signalled \/ main = "wait"
    /\ signalled' = TRUE
    /\ main' = IF main = "wait" THEN "cancel" ELSE main
    /\ UNCHANGED <<teardown, stopped, run>>

Cancel ==
    /\ Advance("cancel", "drain")
    /\ UNCHANGED <<signalled, teardown, stopped, run>>

(* The wait group is empty and main returns.                                *)
Exit ==
    /\ Counted = {}
    /\ Advance("drain", "exited")
    /\ UNCHANGED <<signalled, teardown, stopped, run>>

MainStep == Connect \/ Start \/ Started \/ Register \/ Cancel \/ Exit

----------------------------------------------------------------------------
(* The goroutine of a teardown function: it joins the wait group, waits for *)
(* doneChan and runs the function.                                          *)

TeardownMoves(f, from, to) ==
    /\ Alive
    /\ teardown[f] = from
    /\ teardown' = [teardown EXCEPT ![f] = to]
    /\ UNCHANGED <<main, signalled, stopped, run>>

CountIn(f) == TeardownMoves(f, "spawned", "counted")

BeginTeardown(f) == DoneClosed /\ TeardownMoves(f, "counted", "running")

FinishTracing == TeardownMoves("tracing", "running", "finished")

ToStop == {k \in DOMAIN StopOrder : StopOrder[k] \notin stopped}

(* A scheduler has been stopped when its loop has closed the done channel.  *)
StopCompleted == \A s \in stopped : run[s].pc = "done"

(* Mutant: Stop closes the channel and does not wait. *)
Stop_Mutant ==
    /\ Alive
    /\ teardown["stopSchedulers"] = "running"
    /\ \E k \in ToStop :
          /\ \A n \in ToStop : k <= n
          /\ stopped' = stopped \cup {StopOrder[k]}
    /\ teardown' = [teardown EXCEPT !["stopSchedulers"] =
                        IF Cardinality(ToStop) = 1 THEN "finished" ELSE @]
    /\ UNCHANGED <<main, signalled, run>>

(* Stop closes the stop channel of one scheduler; the next one is stopped   *)
(* when the one before is done.                                             *)
Stop ==
    /\ Alive
    /\ teardown["stopSchedulers"] = "running"
    /\ StopCompleted
    /\ \E k \in ToStop :
          /\ \A n \in ToStop : k <= n
          /\ stopped' = stopped \cup {StopOrder[k]}
    /\ UNCHANGED <<main, signalled, teardown, run>>

FinishStop ==
    /\ ToStop = {} /\ StopCompleted
    /\ TeardownMoves("stopSchedulers", "running", "finished")

TeardownStep(f) ==
    \/ CountIn(f) \/ BeginTeardown(f)
    \/ f = "tracing" /\ FinishTracing
    \/ f = "stopSchedulers" /\ (Stop \/ FinishStop)

----------------------------------------------------------------------------
(* The loop of a scheduler.                                                 *)

RunMoves(s, from, r) ==
    /\ Alive
    /\ run[s].pc = from
    /\ run' = [run EXCEPT ![s] = r]
    /\ UNCHANGED <<main, signalled, teardown, stopped>>

Wake(s) == RunMoves(s, "select", Listing)

Leave(s) == (s \in stopped \/ Cancelled) /\ RunMoves(s, "select", AtRest("done"))

(* Mutant: the loop ends with the first sweep. *)
GoOn_Mutant(s, from, todo) ==
    \/ todo = {} /\ RunMoves(s, from, AtRest("done"))
    \/ \E t \in todo : RunMoves(s, from, Calling(t, todo \ {t}))

(* The tenants left are swept in any order; after the last one, and after a *)
(* failed listing, the loop selects again.                                  *)
GoOn(s, from, todo) ==
    \/ todo = {} /\ RunMoves(s, from, AtRest("select"))
    \/ \E t \in todo : RunMoves(s, from, Calling(t, todo \ {t}))

(* Mutant: a tenant that cannot be swept ends the sweep. *)
GiveUp_Mutant(s, from) == RunMoves(s, from, AtRest("select"))

(* The call returns an error, which is logged: the other tenants are swept. *)
GiveUp(s, from) == GoOn(s, from, run[s].todo)

(* Every attempt looks at the context first.                                *)
Attempt(s) ==
    IF Cancelled
    THEN GiveUp(s, "check")
    ELSE RunMoves(s, "check", [run[s] EXCEPT !.pc = "begin"])

(* The context may be cancelled between the check and the operation, which  *)
(* then begins all the same.                                                *)
BeginOperation(s) == RunMoves(s, "begin", [run[s] EXCEPT !.pc = "operate"])

ListSucceeds(s) ==
    /\ run[s].tenant = NoTenant
    /\ \E found \in SUBSET Tenants : GoOn(s, "operate", found)

SweepSucceeds(s) ==
    /\ run[s].tenant \in Tenants \ Broken
    /\ GoOn(s, "operate", run[s].todo)

Fails(s, transient) ==
    IF MayRetry(Config(run[s].tenant), run[s].call, transient)
    THEN RunMoves(s, "operate", [run[s] EXCEPT !.pc = "backoff"])
    ELSE GiveUp(s, "operate")

(* Nothing the operation does looks at the context: a sweep of a tenant     *)
(* goes on to its last row, cancelled or not.                               *)
Operate(s) ==
    \/ ListSucceeds(s) \/ SweepSucceeds(s)
    \/ \E transient \in BOOLEAN : Fails(s, transient)

(* The delay is over; or the context is cancelled in it.  The stop channel  *)
(* is not looked at.                                                        *)
Backoff(s) ==
    \/ RunMoves(s, "backoff",
          [run[s] EXCEPT !.pc = "check", !.call = NextCall(Config(run[s].tenant), @)])
    \/ Cancelled /\ GiveUp(s, "backoff")

RunStep(s) ==
    \/ Wake(s) \/ Leave(s)
    \/ Attempt(s) \/ BeginOperation(s) \/ Operate(s) \/ Backoff(s)

----------------------------------------------------------------------------
Next ==
    \/ Signal
    \/ MainStep
    \/ \E f \in TeardownFuncs : TeardownStep(f)
    \/ \E s \in Schedulers : RunStep(s)

Spec == Init /\ [][Next]_vars

(* Goroutines run; the ticker ticks; an access to the database returns.     *)
(* select takes one of the ready branches at random, so that one which is   *)
(* ready again and again is taken in the end.  Signals may never come.      *)
Fairness ==
    /\ WF_vars(MainStep)
    /\ \A f \in TeardownFuncs : WF_vars(TeardownStep(f))
    /\ \A s \in Schedulers : WF_vars(RunStep(s)) /\ SF_vars(Leave(s))

FairSpec == Spec /\ Fairness
=============================================================================
