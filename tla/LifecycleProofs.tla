--------------------------- MODULE LifecycleProofs ---------------------------
(****************************************************************************)
(* Theorems about Lifecycle, for any number of schedulers and tenants and   *)
(* any retry settings.                                                      *)
(****************************************************************************)
EXTENDS LifecycleProperties, FiniteSetTheorems, TLAPS

(* Once main is past its registration the goroutine of a teardown function  *)
(* exists; once it has exited the wait group is empty.                      *)
Registered ==
    /\ main \notin {"connect", "start", "registerStop", "fatal"} =>
          teardown["stopSchedulers"] # "none"
    /\ main \in {"wait", "cancel", "drain", "exited"} => teardown["tracing"] # "none"
    /\ main = "exited" => Counted = {}

(* The schedulers' teardown function finishes after all of them have.       *)
StoppedAreDone ==
    teardown["stopSchedulers"] = "finished" => \A s \in Schedulers : run[s].pc = "done"

(* The calls that are on the schedule of the access they retry.             *)
Exact(c, n) == c.initialDelay * BackoffFactor ^ n
Capped(c, delay) == IF delay > c.maxDelay THEN c.maxDelay ELSE delay
Planned(c) == {call \in Calls(c) : call.delay = Capped(c, Exact(c, call.attempt))}

(* A call is on the schedule of the access it retries, and waits only       *)
(* before an attempt that is still allowed.                                 *)
CallOK(s) ==
    /\ InSweep(s) => run[s].call \in Planned(Config(run[s].tenant))
    /\ run[s].pc = "backoff" => MayRetry(Config(run[s].tenant), run[s].call, TRUE)

IInv == TypeOK /\ Registered /\ StoppedAreDone /\ \A s \in Schedulers : CallOK(s)

----------------------------------------------------------------------------
LEMMA ConfigIsConfig ==
    ASSUME NEW t
    PROVE  /\ Config(t) \in RetryConfig
           /\ Config(t).initialDelay <= Config(t).maxDelay
           /\ Planned(Config(t)) \subseteq Calls(ListRetry) \cup Calls(SweepRetry)
  BY RetriesAreConfigured DEF Config, Planned

(* The provers do not know that a power of two doubles with its exponent,   *)
(* but they know how many subsets a set has: those of 1..(n + 1) are those  *)
(* of 1..n, once without n + 1 and once with it.                            *)
LEMMA PowersDouble ==
    ASSUME NEW n \in Nat
    PROVE  2 ^ n \in Nat /\ 2 ^ (n + 1) = 2 * 2 ^ n
  <1> DEFINE S == 1..n
             x == n + 1
             A == SUBSET S
             B == {T \cup {x} : T \in A}
             f == [T \in A |-> T \cup {x}]
  <1>1. /\ IsFiniteSet(S) /\ Cardinality(S) = n
        /\ IsFiniteSet(1..x) /\ Cardinality(1..x) = x
    BY FS_Interval
  <1>2. /\ IsFiniteSet(A) /\ Cardinality(A) = 2 ^ n
        /\ Cardinality(SUBSET (1..x)) = 2 ^ x
    BY <1>1, FS_SUBSET
  <1>3. 1..x = S \cup {x} /\ x \notin S
    OBVIOUS
  <1> HIDE DEF S, x
  <1>4. SUBSET (1..x) = A \cup B /\ A \cap B = {}
    <2>1. ASSUME NEW T \in SUBSET (1..x) PROVE T \in A \cup B
      <3>1. T \ {x} \in A
        BY <1>3
      <3>2. x \in T => T = (T \ {x}) \cup {x}
        OBVIOUS
      <3>3. x \notin T => T = T \ {x}
        OBVIOUS
      <3> QED
        BY <3>1, <3>2, <3>3
    <2> QED
      BY <1>3, <2>1
  <1>5. f \in Bijection(A, B)
    <2>1. f \in [A -> B] /\ \A U \in B : \E T \in A : f[T] = U
      OBVIOUS
    <2>2. ASSUME NEW T \in A, NEW U \in A, f[T] = f[U] PROVE T = U
      <3>1. T \cup {x} = U \cup {x} /\ x \notin T /\ x \notin U
        BY <1>3, <2>2
      <3> QED
        BY <3>1
    <2> QED
      BY <2>1, <2>2 DEF Bijection, Injection, Surjection, IsInjective
  <1>6. IsFiniteSet(B) /\ Cardinality(B) = Cardinality(A)
    BY <1>2, <1>5, FS_Bijection DEF ExistsBijection
  <1> HIDE DEF A, B
  <1>7. Cardinality(A \cup B) = Cardinality(A) + Cardinality(B) - Cardinality(A \cap B)
    BY <1>2, <1>6, FS_Union
  <1>8. Cardinality(A) \in Nat /\ Cardinality({}) = 0
    BY <1>2, FS_CardinalityType, FS_EmptySet
  <1>9. Cardinality(A \cup B) = 2 * 2 ^ n
    <2>1. Cardinality(A \cup B) = Cardinality(A) + Cardinality(A) - 0
      BY <1>4, <1>6, <1>7, <1>8, Zenon
    <2>2. Cardinality(A \cup B) = 2 * Cardinality(A)
      BY <1>8, <2>1
    <2> QED
      BY <1>2, <2>2, Zenon
  <1>10. Cardinality(A \cup B) = 2 ^ (n + 1)
    BY <1>2, <1>4 DEF x
  <1> QED
    BY <1>2, <1>8, <1>9, <1>10

LEMMA FirstCallIsPlanned ==
    ASSUME NEW c \in RetryConfig, c.initialDelay <= c.maxDelay
    PROVE  FirstCall(c) \in Calls(c) /\ FirstCall(c) \in Planned(c)
  <1>1. FirstCall(c) \in Calls(c)
    BY DEF RetryConfig, FirstCall, Calls
  <1>2. 2 ^ 0 = 1
    OBVIOUS
  <1>3. Exact(c, 0) = c.initialDelay
    BY <1>2 DEF Exact, BackoffFactor, RetryConfig
  <1>4. FirstCall(c).attempt = 0 /\ FirstCall(c).delay = c.initialDelay
    BY DEF FirstCall
  <1>5. Capped(c, c.initialDelay) = c.initialDelay
    BY DEF Capped, RetryConfig
  <1> QED
    BY <1>1, <1>3, <1>4, <1>5 DEF Planned

(* A retry stays within the settings and on the schedule.                   *)
LEMMA NextCallIsPlanned ==
    ASSUME NEW c \in RetryConfig, NEW call \in Planned(c), MayRetry(c, call, TRUE)
    PROVE  NextCall(c, call) \in Planned(c)
  <1> DEFINE n == call.attempt
             p == 2 ^ n
  <1>1. call \in Calls(c) /\ n \in Nat /\ call.delay = Capped(c, Exact(c, n))
    BY DEF Planned, Calls, RetryConfig
  <1>2. NextCall(c, call) \in Calls(c)
    BY <1>1 DEF RetryConfig, Calls, MayRetry, NextCall, BackoffFactor
  <1>3. p \in Nat /\ 2 ^ (n + 1) = 2 * p
    BY <1>1, PowersDouble
  <1>4. Exact(c, n) \in Nat /\ Exact(c, n + 1) = 2 * Exact(c, n)
    <2> HIDE DEF p
    <2>1. c.initialDelay * p \in Nat /\ c.initialDelay * (2 * p) = 2 * (c.initialDelay * p)
      BY <1>3 DEF RetryConfig
    <2> QED
      BY <1>3, <2>1 DEF Exact, BackoffFactor, p
  <1>5. /\ NextCall(c, call).attempt = n + 1
        /\ NextCall(c, call).delay = Capped(c, 2 * call.delay)
    <2>1. call.delay * 2 = 2 * call.delay
      BY <1>1 DEF Calls, RetryConfig
    <2> QED
      BY <2>1 DEF NextCall, BackoffFactor, Capped
  <1>6. Capped(c, 2 * Capped(c, Exact(c, n))) = Capped(c, 2 * Exact(c, n))
    BY <1>4 DEF Capped, RetryConfig
  <1> QED
    BY <1>1, <1>2, <1>4, <1>5, <1>6 DEF Planned

(* What the states a scheduler's goroutine moves to look like.              *)
LEMMA RestingRun ==
    ASSUME NEW label \in RunLabels
    PROVE  AtRest(label) \in Runs /\ AtRest(label).pc = label
  <1>1. FirstCall(ListRetry) \in Calls(ListRetry)
    BY FirstCallIsPlanned, RetriesAreConfigured
  <1> QED
    BY <1>1 DEF AtRest, Runs

LEMMA CallingRun ==
    ASSUME NEW t \in Tenants \cup {NoTenant}, NEW todo \in SUBSET Tenants
    PROVE  /\ Calling(t, todo) \in Runs
           /\ Calling(t, todo).pc = "check"
           /\ Calling(t, todo).call \in Planned(Config(Calling(t, todo).tenant))
  <1>1. FirstCall(Config(t)) \in Planned(Config(t))
    BY FirstCallIsPlanned, ConfigIsConfig
  <1>2. FirstCall(Config(t)) \in Calls(ListRetry) \cup Calls(SweepRetry)
    BY <1>1, ConfigIsConfig
  <1> QED
    BY <1>1, <1>2 DEF Calling, Runs, RunLabels

(* A run that may be moved to from a place in the loop.                     *)
RunOK(r) ==
    /\ r \in Runs
    /\ r.pc \in {"check", "begin", "operate", "backoff"} => r.call \in Planned(Config(r.tenant))
    /\ r.pc = "backoff" => MayRetry(Config(r.tenant), r.call, TRUE)

LEMMA MoveKeepsIInv ==
    ASSUME IInv, NEW s \in Schedulers, NEW r, RunOK(r),
           NEW from \in RunLabels \ {"done"}, RunMoves(s, from, r)
    PROVE  IInv'
  <1>1. /\ Alive /\ run[s].pc = from /\ run' = [run EXCEPT ![s] = r]
        /\ UNCHANGED <<main, signalled, teardown, stopped>>
    BY DEF RunMoves
  <1>2. r \in Runs
    BY DEF RunOK
  <1>3. TypeOK'
    BY <1>1, <1>2 DEF IInv, TypeOK
  <1>4. Registered'
    BY <1>1 DEF IInv, Registered, Counted
  <1>5. teardown["stopSchedulers"] # "finished"
    BY <1>1 DEF IInv, StoppedAreDone
  <1>6. \A v \in Schedulers : CallOK(v)'
    <2> TAKE v \in Schedulers
    <2>1. run'[v] = IF v = s THEN r ELSE run[v]
      BY <1>1 DEF IInv, TypeOK
    <2> QED
      BY <2>1 DEF IInv, CallOK, InSweep, RunOK
  <1> QED
    BY <1>1, <1>3, <1>4, <1>5, <1>6 DEF IInv, StoppedAreDone

LEMMA GoOnKeepsIInv ==
    ASSUME IInv, NEW s \in Schedulers, NEW from \in RunLabels \ {"done"},
           NEW todo \in SUBSET Tenants, GoOn(s, from, todo)
    PROVE  IInv'
  <1>1. CASE RunMoves(s, from, AtRest("select"))
    <2>1. RunOK(AtRest("select"))
      BY RestingRun DEF RunOK, RunLabels
    <2> QED
      BY <1>1, <2>1, MoveKeepsIInv
  <1>2. ASSUME NEW t \in todo, RunMoves(s, from, Calling(t, todo \ {t}))
        PROVE  IInv'
    <2>1. RunOK(Calling(t, todo \ {t}))
      BY CallingRun DEF RunOK
    <2> QED
      BY <1>2, <2>1, MoveKeepsIInv
  <1> QED
    BY <1>1, <1>2 DEF GoOn

----------------------------------------------------------------------------
(* One step of a scheduler.                                                 *)

LEMMA GiveUpKeepsIInv ==
    ASSUME IInv, NEW s \in Schedulers, NEW from \in RunLabels \ {"done"}, GiveUp(s, from)
    PROVE  IInv'
  <1>1. run[s].todo \in SUBSET Tenants
    BY DEF IInv, TypeOK, Runs
  <1> QED
    BY <1>1, GoOnKeepsIInv DEF GiveUp

(* A scheduler goes on with the call it is at.                              *)
LEMMA SameCallKeepsIInv ==
    ASSUME IInv, NEW s \in Schedulers,
           NEW from \in {"check", "begin", "operate"}, NEW to \in {"begin", "operate", "backoff"},
           RunMoves(s, from, [run[s] EXCEPT !.pc = to]),
           to = "backoff" => MayRetry(Config(run[s].tenant), run[s].call, TRUE)
    PROVE  IInv'
  <1> DEFINE r == [run[s] EXCEPT !.pc = to]
  <1>1. run[s] \in Runs /\ CallOK(s) /\ run[s].pc = from
    BY DEF IInv, TypeOK, RunMoves
  <1>2. r \in Runs /\ r.pc = to /\ r.call = run[s].call /\ r.tenant = run[s].tenant
    BY <1>1 DEF Runs, RunLabels
  <1>3. RunOK(r)
    BY <1>1, <1>2 DEF RunOK, CallOK, InSweep
  <1> HIDE DEF r
  <1> QED
    BY <1>3, MoveKeepsIInv DEF r, RunLabels

LEMMA OperateStep ==
    ASSUME IInv, NEW s \in Schedulers, Operate(s)
    PROVE  IInv'
  <1>1. CASE ListSucceeds(s)
    BY <1>1, GoOnKeepsIInv DEF ListSucceeds, RunLabels
  <1>2. CASE SweepSucceeds(s)
    <2>1. run[s].todo \in SUBSET Tenants
      BY DEF IInv, TypeOK, Runs
    <2> QED
      BY <1>2, <2>1, GoOnKeepsIInv DEF SweepSucceeds, RunLabels
  <1>3. ASSUME NEW transient \in BOOLEAN, Fails(s, transient)
        PROVE  IInv'
    BY <1>3, GiveUpKeepsIInv, SameCallKeepsIInv DEF Fails, MayRetry, RunLabels
  <1> QED
    BY <1>1, <1>2, <1>3 DEF Operate

LEMMA BackoffStep ==
    ASSUME IInv, NEW s \in Schedulers, Backoff(s)
    PROVE  IInv'
  <1>1. CASE GiveUp(s, "backoff")
    BY <1>1, GiveUpKeepsIInv DEF RunLabels
  <1>2. CASE ~GiveUp(s, "backoff")
    <2> DEFINE c == Config(run[s].tenant)
               call == NextCall(c, run[s].call)
               r == [run[s] EXCEPT !.pc = "check", !.call = call]
    <2>1. RunMoves(s, "backoff", r)
      BY <1>2 DEF Backoff
    <2>2. /\ run[s] \in Runs /\ run[s].call \in Planned(c) /\ MayRetry(c, run[s].call, TRUE)
          /\ run[s].pc = "backoff"
      BY <2>1 DEF IInv, TypeOK, RunMoves, CallOK, InSweep
    <2>3. call \in Planned(c)
      BY <2>2, ConfigIsConfig, NextCallIsPlanned
    <2>4. call \in Calls(ListRetry) \cup Calls(SweepRetry)
      BY <2>3, ConfigIsConfig
    <2> HIDE DEF call
    <2>5. r \in Runs /\ r.pc = "check" /\ r.call = call /\ r.tenant = run[s].tenant
      BY <2>2, <2>4 DEF Runs, RunLabels
    <2>6. RunOK(r)
      BY <2>3, <2>5 DEF RunOK
    <2> HIDE DEF r
    <2> QED
      BY <2>1, <2>6, MoveKeepsIInv DEF RunLabels
  <1> QED
    BY <1>1, <1>2

LEMMA RunStepStep ==
    ASSUME IInv, NEW s \in Schedulers, RunStep(s)
    PROVE  IInv'
  <1>1. CASE Wake(s)
    <2>1. RunOK(Listing)
      BY CallingRun DEF Listing, RunOK
    <2> QED
      BY <1>1, <2>1, MoveKeepsIInv DEF Wake, RunLabels
  <1>2. CASE Leave(s)
    <2>1. RunOK(AtRest("done"))
      BY RestingRun DEF RunOK, RunLabels
    <2> QED
      BY <1>2, <2>1, MoveKeepsIInv DEF Leave, RunLabels
  <1>3. CASE Attempt(s)
    BY <1>3, GiveUpKeepsIInv, SameCallKeepsIInv DEF Attempt, RunLabels
  <1>4. CASE BeginOperation(s)
    BY <1>4, SameCallKeepsIInv DEF BeginOperation
  <1> QED
    BY <1>1, <1>2, <1>3, <1>4, OperateStep, BackoffStep DEF RunStep

----------------------------------------------------------------------------
(* One step of main, and of a teardown function.                            *)

LEMMA SignalStep ==
    ASSUME IInv, Signal
    PROVE  IInv'
  BY DEF Signal, IInv, TypeOK, Registered, StoppedAreDone, CallOK, InSweep, Counted,
         MainLabels, Alive

LEMMA MainStepStep ==
    ASSUME IInv, MainStep
    PROVE  IInv'
  <1>1. CASE Start
    <2>1. PICK k \in NotStarted : run' = [run EXCEPT ![StopOrder[k]] = Listing]
      BY <1>1 DEF Start
    <2>2. /\ main = "start" /\ UNCHANGED <<main, signalled, teardown, stopped>>
      BY <1>1 DEF Start
    <2>3. StopOrder[k] \in Schedulers /\ run[StopOrder[k]].pc = "none"
      BY <2>1, EachSchedulerIsStoppedOnce DEF NotStarted
    <2>4. RunMoves(StopOrder[k], "none", Listing)
      BY <2>1, <2>2, <2>3 DEF RunMoves, Alive
    <2>5. RunOK(Listing)
      BY CallingRun DEF Listing, RunOK
    <2> QED
      BY <2>3, <2>4, <2>5, MoveKeepsIInv DEF RunLabels
  <1>2. CASE Connect \/ Started
    BY <1>2 DEF Connect, Started, Advance, IInv, TypeOK, Registered, StoppedAreDone, CallOK,
                InSweep, Counted, MainLabels
  <1>3. CASE Register
    <2>1. ASSUME NEW f \in TeardownFuncs, NEW from, NEW to \in MainLabels,
                 TeardownFunc(f, from, to), from \in {"registerStop", "registerTracing"},
                 \/ f = "stopSchedulers" /\ to = "registerTracing"
                 \/ f = "tracing" /\ to = "wait" /\ from = "registerTracing"
          PROVE  IInv'
      <3>1. /\ main = from /\ main' = to /\ teardown' = [teardown EXCEPT ![f] = "spawned"]
            /\ UNCHANGED <<signalled, stopped, run>>
        BY <2>1 DEF TeardownFunc, Advance
      <3>2. TypeOK'
        BY <3>1 DEF IInv, TypeOK, TeardownLabels
      <3>3. Registered' /\ StoppedAreDone'
        BY <2>1, <3>1 DEF IInv, TypeOK, Registered, StoppedAreDone, TeardownFuncs
      <3> QED
        BY <2>1, <3>1, <3>2, <3>3 DEF IInv, CallOK, InSweep
    <2> QED
      BY <1>3, <2>1 DEF Register, TeardownFuncs, MainLabels
  <1>4. CASE Cancel \/ Exit
    BY <1>4 DEF Cancel, Exit, Advance, IInv, TypeOK, Registered, StoppedAreDone, CallOK,
                InSweep, Counted, MainLabels
  <1> QED
    BY <1>1, <1>2, <1>3, <1>4 DEF MainStep

LEMMA TeardownStepStep ==
    ASSUME IInv, NEW f \in TeardownFuncs, TeardownStep(f)
    PROVE  IInv'
  <1>1. ASSUME NEW g \in TeardownFuncs, NEW from \in TeardownLabels \ {"none"},
               NEW to \in TeardownLabels \ {"none"}, TeardownMoves(g, from, to),
               g = "stopSchedulers" /\ to = "finished" => \A s \in Schedulers : run[s].pc = "done"
        PROVE  IInv'
    <2>1. /\ Alive /\ teardown[g] = from /\ teardown' = [teardown EXCEPT ![g] = to]
          /\ UNCHANGED <<main, signalled, stopped, run>>
      BY <1>1 DEF TeardownMoves
    <2>2. TypeOK'
      BY <2>1 DEF IInv, TypeOK
    <2>3. Registered'
      BY <2>1 DEF IInv, TypeOK, Registered, Alive
    <2>4. StoppedAreDone'
      BY <1>1, <2>1 DEF IInv, TypeOK, StoppedAreDone
    <2> QED
      BY <2>1, <2>2, <2>3, <2>4 DEF IInv, CallOK, InSweep
  <1>2. CASE CountIn(f)
    BY <1>1, <1>2 DEF CountIn, TeardownLabels
  <1>3. CASE BeginTeardown(f)
    BY <1>1, <1>3 DEF BeginTeardown, TeardownLabels
  <1>4. CASE FinishTracing
    BY <1>1, <1>4 DEF FinishTracing, TeardownLabels, TeardownFuncs
  <1>5. CASE FinishStop
    <2>1. \A s \in Schedulers : s \in stopped
      BY <1>5, EachSchedulerIsStoppedOnce DEF FinishStop, ToStop
    <2>2. \A s \in Schedulers : run[s].pc = "done"
      BY <1>5, <2>1 DEF FinishStop, StopCompleted
    <2> QED
      BY <1>1, <1>5, <2>2 DEF FinishStop, TeardownLabels, TeardownFuncs
  <1>6. CASE Stop
    <2>1. PICK k \in ToStop : stopped' = stopped \cup {StopOrder[k]}
      BY <1>6 DEF Stop
    <2>2. StopOrder[k] \in Schedulers /\ UNCHANGED <<main, signalled, teardown, run>>
      BY <1>6, <2>1, EachSchedulerIsStoppedOnce DEF Stop, ToStop
    <2> QED
      BY <2>1, <2>2 DEF IInv, TypeOK, Registered, StoppedAreDone, CallOK, InSweep, Counted
  <1> QED
    BY <1>2, <1>3, <1>4, <1>5, <1>6 DEF TeardownStep

LEMMA NextStep ==
    ASSUME IInv, [Next]_vars
    PROVE  IInv'
  <1>1. CASE Next
    BY <1>1, SignalStep, MainStepStep, TeardownStepStep, RunStepStep DEF Next
  <1>2. CASE UNCHANGED vars
    BY <1>2 DEF vars, IInv, TypeOK, Registered, StoppedAreDone, CallOK, InSweep, Counted
  <1> QED
    BY <1>1, <1>2

LEMMA InitOK == Init => IInv
  <1> SUFFICES ASSUME Init PROVE IInv
    OBVIOUS
  <1>1. AtRest("none") \in Runs /\ AtRest("none").pc = "none"
    BY RestingRun DEF RunLabels
  <1> QED
    BY <1>1 DEF Init, IInv, TypeOK, Registered, StoppedAreDone, CallOK, InSweep, Counted,
                MainLabels, TeardownLabels, TeardownFuncs

LEMMA IInvHolds == Spec => []IInv
  <1>1. IInv /\ [Next]_vars => IInv'
    BY NextStep
  <1> QED
    BY InitOK, <1>1, PTL DEF Spec

----------------------------------------------------------------------------
(* The theorems.                                                            *)

(* The states of main, of the teardown functions and of the schedulers stay *)
(* well-formed; no call makes more attempts, or waits longer, than its      *)
(* settings allow.                                                          *)
THEOREM TypeCorrect == Spec => []TypeOK
  <1>1. IInv => TypeOK
    BY DEF IInv
  <1> QED
    BY <1>1, IInvHolds, PTL

(* The delays of every call double from its first one up to the longest     *)
(* that is configured, whatever fails when: how long a broken tenant holds  *)
(* up the others is known in advance.                                       *)
THEOREM DelaysAreScheduled == Spec => []BackoffSchedule
  <1>1. IInv => BackoffSchedule
    <2> SUFFICES ASSUME IInv, NEW s \in Schedulers, InSweep(s)
                 PROVE  LET c == Config(run[s].tenant)
                            exact == c.initialDelay * BackoffFactor ^ run[s].call.attempt
                        IN  /\ run[s].call.attempt <= c.maxRetries
                            /\ run[s].call.delay = IF exact > c.maxDelay THEN c.maxDelay ELSE exact
      BY DEF BackoffSchedule
    <2> DEFINE c == Config(run[s].tenant)
    <2>1. run[s].call \in Calls(c) /\ run[s].call.delay = Capped(c, Exact(c, run[s].call.attempt))
      BY DEF IInv, CallOK, Planned
    <2>2. c \in RetryConfig
      BY ConfigIsConfig
    <2> HIDE DEF c
    <2>3. run[s].call.attempt <= c.maxRetries
      BY <2>1, <2>2 DEF Calls, RetryConfig
    <2> QED
      BY <2>1, <2>3 DEF Capped, Exact, c
  <1> QED
    BY <1>1, IInvHolds, PTL

(* The process does not end under a counted teardown function, nor under a  *)
(* sweep once the schedulers have been stopped.                             *)
THEOREM TeardownIsGraceful == Spec => []CountedTeardownsFinish
  <1>1. IInv => CountedTeardownsFinish
    BY DEF IInv, TypeOK, Registered, StoppedAreDone, CountedTeardownsFinish, Counted,
           TeardownLabels, TeardownFuncs
  <1> QED
    BY <1>1, IInvHolds, PTL
=============================================================================
