# A verification of the marriage service

TLA+ modules of `atlas.com/marriages`, checked with TLC and proved about with
TLAPS.  Paths below are relative to `src/atlas.com/marriages/` unless they
begin with `src/`.

The service keeps proposals, marriages and wedding ceremonies in a database,
changes them on behalf of Kafka commands, and announces every change on an
event topic.  Three replicas run at once (`src/README.md:226`).  An operation is
a sequence of single database statements: a handler reads some rows, builds a
transformed copy of one in memory, saves the *whole* copy by primary key, and
publishes.  Nothing (transaction, lock, version column, unique index) spans two
of these statements.  Most of what is hard about the service follows from
that, and so **one statement is one action** in all models.

## 1. Inventory

### Components

| component | code | state | operations |
|---|---|---|---|
| Proposals | `marriage/processor.go`, `model.go`, `builder.go`, `provider.go`, `administrator.go` | table `proposals` | propose (five eligibility checks, insert), accept, decline, cancel, expire |
| Marriages | same | table `marriages` | create and engage (inside an acceptance), divorce, end by deletion |
| Ceremonies | same | table `ceremonies` | schedule, start, complete, cancel, postpone, reschedule, add/remove invitee, advance by status name, postpone on timeout |
| Proposal expiry scheduler | `scheduler/proposal_expiry.go` | ticker, stop channels | every 5 minutes, per tenant: query, expire each row |
| Ceremony timeout scheduler | `scheduler/ceremony_timeout.go` | same | every minute, per tenant: query, postpone each row |
| Command consumer | `kafka/consumer/marriage/consumer.go` | none | one handler per command; an error becomes an error event |
| Character deletion consumer | `kafka/consumer/character/consumer.go` | none | ends the marriage of a deleted character |
| Event buffer, producer | `kafka/message/message.go`, `kafka/producer/`, `marriage/producer.go` | buffer of a call | collect, then publish |
| Transactional acceptance | `marriage/processor.go` (`AcceptProposalWithTransactionAndEmit`, `executeInTransaction`) | a database transaction and its row locks | begin, the writes of an acceptance, publish, commit, roll back; nothing calls it yet |
| State machines | `marriage/state.go` | none | transition tables nothing consults |
| Retry | `retry/retry.go` | attempt counter, delay | `ExecuteWithRetry` repeats with backoff, for the schedulers; `Try` repeats the database connection |
| Teardown, main | `service/teardown.go`, `main.go` | signal channel, done channel, wait group, context | start, register teardown functions, wait for a signal, take down |
| REST resource, character client, database connection, logging, tracing | `marriage/resource.go`, `rest/`, `character/`, `database/connection.go`, `logger/`, `tracing/` | none of their own | reads and I/O |

### How they interact

* The command topic is keyed by the sending character, "to ensure ordered
  processing for each character" (`src/KAFKA_REFERENCE.md:686-687`).  Commands of
  different characters, and so of the two partners of a pair, run concurrently.
* Deletion events come on another topic and are ordered with no command.
* Every replica runs both schedulers; they share the tables with the handlers
  and with each other.
* Ceremonies read the status of their marriage once, when they are scheduled,
  and never write it.  The table of marriages is all that connects the two
  halves of the service.
* Main stops the schedulers from a goroutine of its own when a signal arrives;
  a scheduler notices through its stop channel or through the context, and a
  sweep it is in the middle of through the context only.
* Followers of the event topic see an operation only after its last statement,
  and only if the handler got that far.

### What is hard, and what makes each part correct

* **Proposals.**  A whole-row save of a stale copy may replace another
  handler's outcome; checks are separated from the insert they protect; a sweep
  races with answers.  *Correct if* proposals of a character keep their
  distance, outcomes come within the window the expiry sets, nothing is
  reopened, an outcome is not revised, a cooldown is served, every overdue
  proposal is settled in the end.
* **Marriages.**  An acceptance is five statements and may stop after any.
  *Correct if* an acceptance yields exactly one marriage, marriages come
  from proposals, a marriage is engaged once and ends once whatever deletions
  and acceptances meet in it, nobody is in two.
* **Ceremonies.**  Both partners command the same row; the builder's rules on
  timestamps and guests must survive stale saves and long command sequences,
  because a row that breaks them makes whole queries fail.  *Correct if*
  rows stay loadable, statuses follow the transition table, completed and
  cancelled are final, an overlong run is ended, followers know the status,
  and a ceremony names a couple that did get engaged, although the engagement
  is read before the insert and may end in between.
* **Sweeps.**  One bad row can stop a sweep for a tenant; two replicas may take
  up the same row.
* **Life of a replica.**  Retries, ticks, stop channels, the context and the
  wait group all race at the end.  *Correct if* a received signal ends the
  process whatever the database does, no teardown function that was counted and
  no sweep is cut off, and a tenant that cannot be swept does not starve the
  others.
* **Transactional acceptance.**  A failure may come at any statement, in the
  producer or in the commit.  *Correct if* readers see an acceptance as a whole
  or not at all, what is stored was announced, no row stays locked.
* **Events.**  Published after the save: lost by a failure in between,
  duplicated by concurrent sweepers.

`PROJECT.json` lists each hazard at its line with the properties about it.

## 2. Modules

| module | content |
|---|---|
| `Proposals` | the proposals and marriages tables, every handler on them, the expiry sweep, failures |
| `ProposalProperties` | what is claimed of it, and what the documentation claims |
| `ProposalBook` | the abstract promise: an append-only book of offers, each settled at most once |
| `ProposalInvariant`, `ProposalProofs`, `MarriageProofs` | the inductive invariant; the proofs about proposals; those about marriages and events |
| `SerialInvariant`, `SerialProofs` | what holds in addition with one handler, or when rows are taken up in turns, and the proofs |
| `MarriageRegister` | the abstract table of marriages: what `Proposals` promises and `Ceremonies` relies on |
| `Ceremonies`, `CeremonyProperties`, `CeremonyInvariant`, `CeremonyProofs` | the table of ceremonies, its handlers, the timeout sweep; claims, invariant, proofs |
| `Service`, `ServiceProperties` | `Proposals` and `Ceremonies` on one database under one clock |
| `ServiceInvariant`, `ServiceProofs` | what ties the two together, and the proofs about the whole service |
| `TableLemmas` | what an insert and an update do to a table |
| `Retry` | `ExecuteWithRetry` as functions on a call: attempt and delay |
| `Lifecycle`, `LifecycleProperties`, `LifecycleProofs` | one replica from start to exit: main, teardown, both schedulers with their retries |
| `TransactionalAcceptance`, `TransactionProperties`, `TransactionProofs` | acceptances in transactions among plain handlers and sweeps |
| `AtomicAcceptance` | the abstract promise of it: an acceptance in one step |
| `MCProposals`, `MCCeremonies`, `MCService`, `MCLifecycle` | instances for TLC |

### From code to model: tables and handlers

* A **table** is a sequence of records; ids are auto-increment keys and no row
  is deleted, so the id is the position.
* A **process** is a message-handler slot (`Workers`) or a scheduler
  (`Sweepers`).  `pc[w]` names the statement it is about to run; `job[w]` is
  what the Go code has in local variables, in particular `draft`, the
  transformed copy.  `todo[s]` is the slice a sweep iterates over.
* `Begin...` is the arrival of a command (the parameters are its body),
  `Check...`/`Load...` a query together with the conditions on its result up to
  the next statement, `Insert...`/`Save...`/`CreateMarriage` one write, `Emit`
  the publication.  A refused check or an error returns, as `Finish`.
* A proposal row has the two times the code tells apart.  `respondedAt` is when
  `Accept` or `Reject` decided, after a look at the expiry, and is saved as it is.
  `updatedAt` is the time of the save, whatever the methods of `Proposal` have put
  there: gorm sets the column on every `db.Save` (`administrator.go:52`, field
  `UpdatedAt`, `entity.go:86`), so `Saved` stamps the draft once more.  An answer
  loaded in time and saved late is in the table with `updatedAt` past its expiry.
* `InsertProposal` and `InsertCeremony` include the `MakeProposal` /
  `MakeCeremony` that follow the insert and may fail, with the row already
  there: the code has that order (`processor.go:187-194`, `:710-717`).
* A query that reads one row or none is a set: `First(...)` is the first row in
  key order, `Newest(...)` what an `ORDER BY created_at DESC` may read first.
* `Abort` is an error of a statement or of the producer, or a stop of the
  replica; `CrashSweep` loses the rest of a sweep.  A sweep whose single row
  fails goes on with the next (`processor.go`, `ProcessExpiredProposals`).

In `Ceremonies` a row has the set of its non-null timestamps (`stamps`), since
the builder's rules are about which are set; `Required` and `Forbidden` are the
builder's rules, `From`, `To` and `Stamp` the guards and effects of the methods
of `Ceremony`.

The table **marriages** belongs to `Proposals`, and `Ceremonies` only reads it.
`MarriageRegister` stands between the two: a row appears for a possible couple,
is engaged once, ends once, and keeps its partners.  `KeepsRegister` says that
`Proposals` implements it.  `Ceremonies` is written against it: its action
`MarriagesMove` is any step of the register (a row created, or updated), so
whatever is checked or proved of `Ceremonies` holds whenever the handlers of
`Proposals` move a marriage.  `Service` puts the real handlers of both sides
together: it extends `Proposals`, whose variables it uses under their own names,
and instantiates `Ceremonies` as `C` with processes of its own over the same
`marriages` and `now`.  `CeremoniesAreServed` says that nothing happens there
that `Ceremonies` does not allow for.

### From code to model: the life of a replica

`main` walks through `main.go`: connect, start both schedulers, register the two
teardown functions, wait.  `Wait` of the teardown manager is the labels `wait`,
`cancel` and `drain`: it receives a signal and closes `doneChan` (`DoneClosed`),
cancels the context (`Cancelled`), waits for the wait group (`Exit`).  A
teardown function is a goroutine that is `spawned` before it has called `Add(1)`,
then `counted`, `running`, `finished`.  `stopped` is the set of closed stop
channels: `Stop` closes one and waits for that scheduler's `doneChan` before it goes
on with the next.

`run[s]` is the goroutine of a scheduler: in `select`, or in a call of
`ExecuteWithRetry` (for the list of tenants, then for each tenant) that is at the
`check` of the context, past it and about to call the operation (`begin`), in the
operation (`operate`) or in the delay (`backoff`).  Check and call are two
statements (`retry/retry.go:156-165`): an operation may begin after the context
was cancelled, and one that runs goes on with its rows (`processor.go:1886`).  The
shutdown waits for it.
`Retry` has the arithmetic: which error is followed by another attempt
(`MayRetry`) and what the next delay is (`NextCall`).  What a sweep does to the
tables is in `Proposals` and `Ceremonies`; here it succeeds or fails.

### From code to model: acceptances in transactions

The three writes of `AcceptProposalWithTransactionAndEmit` are invisible until
`Commit`: `job[a].marriage` is the marriage as the transaction has written it,
and `locked[p]` is the transaction that has written proposal `p`.  A write of a
locked row waits, in a rival as well, and then goes ahead: the status
it was decided on is not looked at again.  `Fail`, `PublishFails` and
`CommitFails` roll back; what the producer has delivered stays delivered.  A
rival is a plain handler or a sweep with one proposal to settle: reject, cancel
and expire, and `AcceptProposal` as the command handlers call it, whose save,
creation, engagement and publication show one by one and stay when it fails.
`AtomicAcceptance` promises the transaction for the rows made in transactions,
beside rivals that settle proposals as they like.

### Abstractions

* One tenant: every query is restricted to the tenant of its message.  In
  `Lifecycle` there are several, since a sweep goes from one to the next.
* The timestamps of a marriage, set exactly with its status and read by
  nothing, and `scheduledAt`, which no operation reads, are not kept.
* Time is counted in ticks.  A step reads the clock once; the code calls
  `time.Now()` several times within one.  All replicas have one clock.
* The level requirement, and the answer of the character service, are taken to
  have passed: a command they refuse changes nothing before its first statement.
* Error events, payloads and logging are left out.  `published` is a set of
  events, `announced` the last status event of each ceremony.
* Attempts of one sweep are, for the tables, sweeps one after the other: a sweep
  of `Proposals` and `Ceremonies` may begin whenever its scheduler is idle.
  How many attempts there are and how long they take is in `Lifecycle`.
* The Kafka consumers and the HTTP server join the wait group inside libraries;
  `Lifecycle` has the functions main itself registers.
* The broker delivers a command once.  A command repeated by a client is a new
  command, and every model allows it.
* Transactions are read committed, the default of the database in use.  A
  deadlock between transactions does not arise: each locks one row that others write.

## 3. What TLC checks

Passing runs.  *Serial* means one handler slot and no sweeper; *replicas* means
interleaved at every statement; *turns* means interleaved at every statement,
but for two processes holding the same row between its load and its save
(`RowsTakeTurns`), and for one holding a row whose pair is at the insert of the
next (`InsertsTakeTurns`, which `LapseCooldownKept` alone needs).

| run | instance | shows |
|---|---|---|
| `proposals_turns` | turns; 1 suitor who asks up to twice, 1 handler, 2 sweepers, 1 failure, 2 marriages, expiry and global cooldown 0, the cooldown of the pair 1, time to 3 | `OneMarriagePerAcceptance`; `EventsMatchRows` and `AnnouncedOnce`, with answers and expiries by either sweeper racing; `LapseCooldownKept`; `KeepsBook`: the table implements `ProposalBook`; `TypeOK` |
| `proposals_replicas` | 2 characters, any request, 2 handlers, 1 sweeper, 2 proposals, expiry and cooldowns 0, time to 1 | `GlobalCooldownKept`, `OutcomesRespectExpiry`, `MarriagesComeFromProposals`, `EventsBacked`, `NeverReopened` hold in every race; `KeepsRegister`: the table of marriages implements `MarriageRegister` |
| `proposals_sweep` | 1 suitor who asks up to three times, no global cooldown, 1 handler, 1 fair sweeper, 1 failure, time to 3 | `IInv`, `HandlerInv` (the invariants of the proofs), `RepeatedOnlyAfterLapse`, `RejectionCooldownKept`, `ProposedWhileFree`; `OverdueIsSettled` |
| `ceremonies_serial` | 1 couple whose marriage moves meanwhile, 2 ceremonies, four guest lists (good, with a partner, with a duplicate, too long), 1 failure | `CeremonyTransitions`, `WeddingsOfCouples`, `AnnouncedIsCurrent`, `AnnouncedIsLoadable`; `SerialInv` |
| `ceremonies_replicas` | 2 handlers, 1 sweeper, 1 ceremony, good and bad list | `IInv`, `LoadableForGood`: no interleaving of stale saves yields a row that cannot be loaded |
| `ceremonies_sweep` | 1 handler, 1 fair sweeper, 1 failure, time to 4 | `TimedOutIsPostponed` |
| `service` | 1 suitor, 2 handlers on the side of proposals, 1 on that of ceremonies, time to 1 | `CeremoniesAreServed`: the real handlers do to the table of marriages what `Ceremonies` allows for; `CeremoniesComeFromProposals`; `ServiceInv` |
| `lifecycle` | both schedulers, 2 tenants one of which can never be swept, a signal at any moment | `BackoffSchedule`, `CountedTeardownsFinish`; fair: `ShutdownCompletes`, `FoundTenantsAreSwept`, `SweepsGoOn` |
| `transactions` | 2 transactional acceptances and 1 rival (plain acceptance, other answer or sweep) on 2 proposals, failures everywhere | `AllOrNothing`: readers see `AtomicAcceptance`; `StoredIsAnnounced`; fair: `NoneWaitsForever` |

**Why the bounds are enough.** Two handlers and a sweeper are what a lost
update, a check outrun by its insert and an answer racing an expiry take; every
race found needs at most these.  Two proposals or one ceremony suffice for
properties that relate at most two rows; `RepeatedOnlyAfterLapse` and
`RejectionCooldownKept` relate three, and their instance has three.  A horizon
one tick beyond the durations makes every comparison come out both ways, as all
of them are strict: in `proposals_replicas` a duration of 0 ticks is over at
time 1, not at time 0, so two proposals, an answer in time, an expiry and a save
that comes late all happen.  The instance of `proposals_sweep` has no global
cooldown, so that a pair can have an overdue proposal and two open ones.  In
`proposals_turns` a proposal can be followed by another before it is swept, and
after its cooldown: time 3 is past the cooldown of one swept at time 1.  Two
sweepers and a handler give a row two expiries, or an expiry and an answer, to
race for it; two answers race in `proposals_replicas`, and the theorems of
section 4 have any number of handlers and sweepers.  In `ceremonies_replicas`
the timeout is 0 ticks so that the sweep acts at time 1.  In `service` one
marriage and one ceremony are enough for every order of engage, divorce, read
and insert; failures are in the runs of the two sides.  In `lifecycle` the list
of tenants and a tenant have one retry each, fewer than in the code; the delay
of the one doubles and that of the other reaches the longest, so first attempt,
retry, last attempt and cap all occur.  Two transactions and a rival are what
waiting for a row and being overtaken after a read take.  `AnyoneSends` is FALSE
in the runs: the service does not check that the sender is a party, but who
sends changes nothing about the rows, only which commands the broker orders; the
theorems hold for both values.  Instances that name characters (`OnePair`,
`Suitors`) have no symmetry on them.

`MaxTime`, `MaxProposals`, `MaxMarriages`, `MaxCeremonies`, `MaxFaults` (in
`Service` there is `MaxCeremonyFaults` beside it) bound the instances and
stand for nothing in the code.  Deadlock is checked except where the system does
stop: a replica ends (`lifecycle`), every call ends (`transactions`).  In the
other models idle processes can always take another message.

**Fairness.**  `FairSpec` of `Proposals` and `Ceremonies` asks weak fairness of
each sweeper's steps: the scheduler's loop keeps receiving from its ticker and
starts a sweep each time, and a running sweep is a loop over a finite slice.
Nothing is asked of handlers or clients: commands may stop or continue.
Failures are bounded; with unbounded failures nothing would ever be settled.
Both liveness properties say that a row leaves the overdue state, not that the
row is well afterwards: while the clock of the instance has not run out a
restarted ceremony may become overdue again.

In `Lifecycle` every goroutine has weak fairness (the runtime schedules it, a
tick comes, a database access returns), and `Leave`, the branch of the `select`
on the stop channel or the context, strong fairness: when several branches are
ready Go picks one at random, so a branch that is ready again and again is taken
in the end.  Failures are unbounded there: the database may fail for ever and the
shutdown still completes.  A signal is never required to come; `ShutdownCompletes`
starts from one that main has received.  In `TransactionalAcceptance` a call
that has begun has weak fairness of the statements that succeed, and none of its
failures; waiting for a locked row is not an enabled step, so that a lock nobody
releases shows as a call that never ends.

**Where the code and its documentation differ.**  Each of the following runs
finds a short counterexample to a statement of the documentation;
`PROJECT.json` quotes it.

| run | property | what happens |
|---|---|---|
| `bigamy` | `OneRelationship` | two pending proposals to one target are both accepted |
| `poisoned` | `OverdueIsSettled` | a proposal to oneself stays in the table and fails every later sweep query |
| `completion` | `CompletionMarries` | completing the ceremony leaves the couple engaged |

`OverdueIsSettled` appears twice.  It holds if no client sends a proposal to
oneself (`proposals_sweep`) and fails if one does (`poisoned`): the property
depends on a check the service makes after the insert.

Further differences that the models show and no run is spent on:

* `UpdateProposal` saves the row as it was loaded and transformed, whatever the
  table has by then (`administrator.go:52`), so that a sweep replaces an answer
  saved after its load, and an answer an expiry; "Try to expire the already
  accepted proposal - should fail" (`marriage/state_transition_test.go:478`).
  `NeverReopened` and `OutcomesRespectExpiry` are what holds in every such race,
  `EventsMatchRows` what holds without two processes on one row.
* In the same way `UpdateCeremony` (`administrator.go:156`) lets a command of one
  partner replace the completion or cancellation the other has saved since;
  "Completed is terminal state" (`marriage/state_transition_test.go:229`).
  `CeremonyTransitions` holds for one handler, `LoadableForGood` for any number.
* Two sweepers that have loaded one overdue proposal both announce its expiry
  (`processor.go:1809`); "Idempotent operations prevent duplicate processing"
  (`src/KAFKA_REFERENCE.md:704`).  `AnnouncedOnce` says nothing else does that.
* A handler that stops after its save never announces it (`processor.go:410`), and a
  repeated command is refused; "All events are emitted transactionally"
  (`src/KAFKA_REFERENCE.md:701`).  `EventsBacked` is the half that holds.
* A cooldown "doubles on each successive rejection" (`src/README.md:963`), but
  rejections are counted per row and each proposal is a new row that starts at 0
  (`administrator.go:34`): the doubling is never reached.
* `GetActiveProposal` stops at the first pending row, overdue or not
  (`provider.go:48`), so a pair can have a second open proposal;
  `RepeatedOnlyAfterLapse` says exactly when.  If the earlier
  of two open ones is then rejected, the cooldown of that rejection holds back
  nothing, since the check looks at the newest row of the pair only
  (`provider.go:407`); `RejectionCooldownKept` says what remains.  The cooldown of an
  expired proposal runs from the save of the sweep that marks it, up to five
  minutes and any number of failed sweeps after the expiry; until then the pair
  is held back by nothing (`LapseCooldownKept`).
* The target of a proposal may become engaged between the check
  (`processor.go:570`) and the insert; "Cannot receive proposals if already
  engaged", `src/README.md:959`.
* A deletion ends the first active marriage and no other (`processor.go:2022`),
  takes an engagement to divorced (`:2046`), a step `state.go` does not allow, and
  leaves the couple's ceremonies as they are, a running one running.
* The timeout postpones by id what is active at that moment, also a ceremony
  restarted since the query (`processor.go:1928`), and asks nobody who is
  connected, although a duration is "unlimited by default" (`model.go:506`).
* No handler sets `married`, so a divorce always fails.
* `ScheduleCeremony` stores a guest list with a partner or a duplicate and
  refuses it afterwards (`processor.go:710`).
* The Kafka reference gives the state names of `ADVANCE_CEREMONY_STATE` in upper
  case and lists `SCHEDULED`; the code compares lower case and has no such case.
* "Scheduled time must be in future" (`src/KAFKA_REFERENCE.md:168`) is not
  checked, and several ceremonies can be scheduled for one marriage.
* The transactional acceptance is to have its changes and its events "all succeed
  or fail together" (`processor.go:1632`), but it publishes before the commit
  (`:1660`), so that an engagement that was announced can be rolled back.
  `StoredIsAnnounced` is the half that holds.  It reads the proposal without a
  lock (`:1649`), so two calls can still marry one proposal twice.
* Signals are delivered to a channel without a buffer (`service/teardown.go:27`;
  the test builds its manager with one, `service/teardown_test.go:49`): a signal
  that comes before main waits is dropped, `Signal` with `main` before `wait`.
* A teardown function joins the wait group in its own goroutine
  (`service/teardown.go:41`): main can exit while one is only `spawned`, which is
  why `CountedTeardownsFinish` speaks of the counted ones.
* `Stop` waits for a sweep that is between two attempts, and such a sweep looks
  at the context but not at the stop channel (`scheduler/proposal_expiry.go:54`).  The
  shutdown completes because main cancels the context right after closing
  `doneChan`.

## 4. What is proved

For all values of the constants (characters, requests, handlers, sweepers,
couples, guest lists, schedulers, tenants, retry settings, durations, bounds),
from the named assumptions of the modules: durations and bounds are natural
numbers, requests are between characters, sweepers are not message handlers,
placeholders are none of the things they stand for, main stops each scheduler
once, an initial delay is not above the longest one.  The hypotheses that appear
in theorems and nowhere else: `OneHandler` (at most one message handler over all
replicas, beside any number of sweepers); `[]RowsTakeTurns` and
`[]InsertsTakeTurns` (of a behaviour, with any number of both); in
`CeremonyProofs`, `OneProcess` (one handler and no sweeper beside it); and
`IsFiniteSet(Workers)` (finitely many handlers).

| theorem | says |
|---|---|
| `ProposalProofs!TypeCorrect` | `Spec => []TypeOK` |
| `ProposalProofs!SettledStaysSettled` | `Spec => NeverReopened` |
| `ProposalProofs!CooldownBetweenProposals` | `Spec => []GlobalCooldownKept` |
| `ProposalProofs!OutcomesInTime` | `Spec => []OutcomesRespectExpiry` |
| `ProposalProofs!NoRepeatBeforeLapse` | `Spec => []RepeatedOnlyAfterLapse` |
| `MarriageProofs!MarriagesAreARegister` | `Spec => KeepsRegister`, a refinement |
| `MarriageProofs!MarriagesAreProposed` | `Spec => []MarriagesComeFromProposals` |
| `MarriageProofs!PublishedIsWritten` | `Spec => []EventsBacked` |
| `MarriageProofs!InvariantHolds` | `Spec => []IInv` |
| `SerialProofs!ProposersAreFree` | `OneHandler`: `Spec => ProposedWhileFree` |
| `SerialProofs!RejectionsAreRespected` | `OneHandler`: `Spec => []RejectionCooldownKept` |
| `SerialProofs!HandlerInvariantHolds` | `OneHandler`: `Spec => []HandlerInv` |
| `SerialProofs!AcceptanceMarriesOnce` | `Spec /\ []RowsTakeTurns => []OneMarriagePerAcceptance` |
| `SerialProofs!AnnouncedOutcomesStand` | `Spec /\ []RowsTakeTurns => []EventsMatchRows` |
| `SerialProofs!OutcomesAnnouncedOnce` | `Spec /\ []RowsTakeTurns => []AnnouncedOnce` |
| `SerialProofs!ProposalsAreABook` | `Spec /\ []RowsTakeTurns => KeepsBook`, a refinement |
| `SerialProofs!SerialInvariantHolds` | `Spec /\ []RowsTakeTurns => []SerialInv` |
| `SerialProofs!LapsesAreRespected` | `Spec /\ []InsertsTakeTurns => []LapseCooldownKept` |
| `CeremonyProofs!TypeCorrect` | `Spec => []TypeOK` |
| `CeremonyProofs!RefusedRowsStayOut` | `Spec => LoadableForGood` |
| `CeremonyProofs!AnnouncedRowsLoad` | `Spec => []AnnouncedIsLoadable` |
| `CeremonyProofs!CouplesMarry` | `Spec => []WeddingsOfCouples` |
| `CeremonyProofs!InvariantHolds` | `Spec => []IInv` |
| `CeremonyProofs!TopicIsCurrent` | `OneProcess`: `Spec => []AnnouncedIsCurrent` |
| `CeremonyProofs!StatusesFollowStateMachine` | `OneProcess`: `Spec => CeremonyTransitions` |
| `CeremonyProofs!SerialInvariantHolds` | `OneProcess`: `Spec => []SerialInv` |
| `ServiceProofs!ProposalsServeCeremonies` | finitely many handlers: `ServiceSpec => CeremoniesAreServed`, a refinement |
| `ServiceProofs!CeremoniesWereProposed` | `ServiceSpec => []CeremoniesComeFromProposals` |
| `ServiceProofs!ServiceInvariantHolds` | finitely many handlers: `ServiceSpec => []ServiceInv` |
| `LifecycleProofs!TypeCorrect` | `Spec => []TypeOK` |
| `LifecycleProofs!DelaysAreScheduled` | `Spec => []BackoffSchedule` |
| `LifecycleProofs!TeardownIsGraceful` | `Spec => []CountedTeardownsFinish` |
| `TransactionProofs!LocksAreReleased` | `Spec => []TypeOK`, which says who holds a row |
| `TransactionProofs!AcceptanceIsAtomic` | `Spec => AllOrNothing`, a refinement |
| `TransactionProofs!EngagementsAreAnnounced` | `Spec => []StoredIsAnnounced` |

**Proposals.**  The invariant is proved in layers, each assuming those below it.

1. `TypeInv`.  `TypeOK` is not inductive: a save writes `draft`, so one must
   know that the draft is a row; that it agrees with the row it will
   overwrite on who, whom and when, and is not pending (`AnswerJobOK`); and that the
   ids in hand exist (`SweepersOK`, `MarriageJobOK`).  These facts survive
   steps of *other* processes because every step leaves rows in place
   (`TablesGrow`), so the proof shows per action what the moving process
   establishes (`StepOK`) and one lemma carries the rest.
   `NeverReopened` is a part of `TablesGrow`.
2. `CooldownInv`.  Check and insert are separate statements; what keeps the
   distance is that no other handler works for the same character
   (`KeysExclusive`) and so what the check has found still holds at the insert
   (`CooldownPassed`).  It rests on the broker's ordering per key.  The
   check reads the newest row only; that it speaks
   for all rows of the character needs that a finite table has a newest row.
3. `RepeatInv`.  The same shape for the check for an open proposal, which reads
   the *first* pending row: either no row of the pair is open, or the first is
   overdue and every open one comes after it (`PairMayAsk`).  Until the
   insert only proposals of other keys arrive, an overdue row stays overdue or
   is settled, and no row is reopened; so it is still true when the row is added.
   This too needs the ordering per key.
4. `WindowInv`.  An answer carries the time of its decision, at which the expiry
   was looked at, and keeps it however late it is saved; an expiry does not look
   at the clock, so a sweeper must hold overdue rows only.  That stays true since
   `createdAt` never changes and the clock does not go back.  `updatedAt`, the time
   of the save, is past the expiry of an expired row for that reason; of an
   answered row nothing of the kind is claimed.
5. `RegisterInv`, `OriginInv`, `EventInv` (`MarriageProofs`).  A handler between
   creating a marriage and engaging it is the only one that holds that row in
   this way (`Engages`), and a deletion holds rows that are past `proposed`
   (`Dissolves`), so the two can meet in any order; the step from
   `proposed` is taken once.  That a settled proposal stays settled (layer 1)
   carries the origin of a marriage and the truth of an event across steps of
   others.

**One handler, rows in turns.**  Some promises of the service are broken by
races between handlers or with a sweep (section 3).  The theorems under
`OneHandler` and under the hypotheses on turns say that nothing but those races
breaks them.  `RowsTakeTurns` says that no two processes have loaded one proposal
and not saved it: what a row lock from load to save would give, and less than
that, as the rest of a handler, another row, and every other statement go on
interleaving.  Handlers and sweepers, of which a replica always has both, run
side by side in these theorems, and expiries are among the outcomes they speak of.

*One handler* (`HandlerInv`).  Sweepers may run, and interleave with every
statement.  What the checks have read of the marriages still holds at the insert
(`FreeInv`), as sweepers write none.  For the cooldown of a rejection one has
to know why a pair may have two open proposals: an open one that is followed by
another has a lapsed one before it or has lapsed itself (`LapseInv`).  The
handler that saves a rejection has loaded the row earlier; in between nobody made
another proposal (`DraftInv`) although a sweeper may have settled this one, so
that every later proposal came after the rejection, or while the
rejected one was still open and behind a lapsed one (`AskedMeanwhile`).  The
instance of `proposals_sweep` reaches that exception.

*Turns* (`SerialInv`).  A proposal that was loaded pending is pending when it is
saved, since whoever else would have settled it in between holds it too; and the
outcome it gets stays until it is announced (`DraftCurrent`), by the process that has
saved it and no other (`AnnouncedOnce`).  With that a save maps to `Settle` of
`ProposalBook`, an insert to `Offer`, and everything else to a stutter.
`OneMarriagePerAcceptance` counts, for each ordered pair, the marriages and the
acceptances that have yet to yield one against the accepted rows: the difference
is at most the failures so far, so an acceptance left without its marriage is
always a failure's.  `SerialInv` is the conjunction of these.  The hypothesis is a temporal one,
`[]RowsTakeTurns`, used in every step for both its states.

*Turns at an insert* (`LapseCooldownInv`).  The check of the cooldown looks at the
newest row of the pair; what must not happen is that a sweep marks that row
between the check and the insert, and starts a cooldown nobody has looked at.
`[]InsertsTakeTurns` excludes that and nothing else, and two sweepers on one row or an answer
beside a sweep are allowed.

*One process.*  In `Ceremonies` the draft is one transition away from the row (`DraftFromRow`),
which gives the transition table of `state.go`, and `TopicInv` says that the topic is
behind on the ceremony in hand and no other.

**Ceremonies.**  `IInv` adds to `TypeOK` that a process about to save holds a
loadable draft *and* a row that is loadable; whether a row is loadable is
changed by no step of anybody (`TableKept`), so a process may rely on it although
its copy is stale.  `WeddingsOfCouples` uses of the marriages only what the
register gives (`MarriagesKept`): partners never change, and what was engaged
is engaged or divorced; so a couple read before the insert is still right
after it.

**The service.**  A behaviour of `Service` is one of `Proposals` for the variables
of its own side (a step of the ceremony side is a stutter of it), so all its
invariants hold here as they are.  `ProposalsServeCeremonies` is then shown step
by step: a step of the proposal side is a step of the register by the lemmas behind
`MarriagesAreARegister`, and so the action `MarriagesMove` of `Ceremonies`,
which however has a bound on the marriages.  That no more arrive than fit is
`MarriageRoom`: an acceptance is let in while there is room for it beside those
*in flight*, which is why the handlers must be finitely many; without a number
of them the count means nothing.
`CouplesHeld` follows the couple of a ceremony from the read of the marriage
through the memory of the handler into the table.  Together with `OriginInv` of
the other side it gives `CeremoniesWereProposed`, which needs no finiteness.
The prover cannot cite theorems about an instantiated module, which is why
`Service` extends `Proposals` and why the few facts about couples that
`CeremonyProofs` has are proved again for `C`.

**Life of a replica.**  `IInv` of `LifecycleProofs` relates the goroutines: once
main is past a registration that teardown function has its goroutine, and when
main has exited nothing is counted (`Registered`); the function that stops the
schedulers finishes after all of them have (`StoppedAreDone`); calls stay within
their attempts, are on the schedule of delays, and none waits after the last
attempt (`CallOK`, `Planned`).  The first two turn `Stop`, which waits, and
`Exit`, which waits for the counted ones, into a graceful end.

`BackoffSchedule` compares repeated doubling under a cap with a power under a
cap.  The provers know no rule for exponents; `PowersDouble` (`2^(n+1) = 2 * 2^n`)
is obtained by counting the subsets of `1..n+1`, from the library's `FS_SUBSET`,
which has `2^n` for them.  The library proves that theorem from the same rule
for exponents and leaves the rule itself unproved, so that this single fact of
arithmetic is taken from the library and not shown here.

**Transactions.**  `CallOK` says where a call has which writes, `RivalOK` the same
of a plain acceptance, and `TypeOK` that a row is locked by a call exactly while
the call is `Holding` it.  A process writes marriages and events of its own
only (`Apart`), so that what is known of the others stays (`OthersKept`).  With it a
commit maps to `Accept` of `AtomicAcceptance`, the save of the proposal by a rival to
`Settle`, and every other step, failures included, to a stutter.

Only model-checked: liveness, since fairness and ENABLED are beyond the prover:
`OverdueIsSettled`, `TimedOutIsPostponed`, `ShutdownCompletes`,
`FoundTenantsAreSwept`, `SweepsGoOn` and `NoneWaitsForever`.  Every invariant and
every property of steps that a passing run checks is also a theorem.  Two
invariants of the proofs, `SerialInv` and `LapseCooldownInv`, are named by no
run; the properties they are there for are.

## 5. What is not modelled, and the plan

Written in the order: proposals and marriages with their sweep (the core),
their proofs, ceremonies with their sweep, their proofs, the register and the
composition, the life of a replica with its retries, transactional acceptance.
What is left, in order:

1. *Event buffer*: put, order per topic, emission of a buffer of several events.
   `Emit` publishes a handler's events in one step; `EmitMultiple` and
   `BufferBuilder` have no caller.
2. *Error events* of the command consumer, and its place in the wait group.

Not planned: the REST resource (reads only), the character client (one remote
read), migrations, logging and tracing; they have no state of the service's
own.  `Try`, which repeats the database connection, is one step of main with two
outcomes.  `ExecuteTransaction` of `database/` has no caller.  The
cooldown arithmetic does not overflow: a row is rejected at most once
(`OpenRowsFresh` in `TypeInv`), so the doubling is never reached.

## Running

    tlc -workers 2 -config Proposals_turns.cfg MCProposals
    tlapm ProposalProofs.tla

`Transactions.cfg` runs `TransactionProperties`; the other configurations run
the `MC` module of the same name.  The definitions named `..._Mutant` are
plausible mistakes in the definition that follows them.  They are not part of
any specification; substituting one for the original makes a property fail and
shows that the property depends on that piece of the code.
