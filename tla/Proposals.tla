------------------------------ MODULE Proposals ------------------------------
(****************************************************************************)
(* Proposals and the marriages they lead to, as the marriage service keeps  *)
(* them: two database tables, read and written one statement at a time by   *)
(* command handlers and by the expiry sweepers of several replicas.  No     *)
(* transaction and no lock spans two statements, and an update writes the   *)
(* whole row, so every statement of a handler is a step of its own.         *)
(*                                                                          *)
(* Row ids are positions: both tables have auto-increment keys and nothing  *)
(* deletes a row.  Durations count ticks of the clock `now`; 0 stands for a *)
(* timestamp that is null.  The four stamps of a marriage are not kept: each*)
(* is set exactly when the status is, and no handler reads them.            *)
(****************************************************************************)
EXTENDS Integers, Sequences, FiniteSets

CONSTANTS
    Characters,                \* the characters of one tenant
    Requests,                  \* the <<proposer, target>> pairs clients ask for
    Workers,                   \* slots for message handlers, over all replicas
    Sweepers,                  \* expiry schedulers, one per replica
    AnyoneSends,               \* whether commands name proposals and marriages
                               \* of others: the service does not look
    NoOne, NoRow,              \* placeholders in an idle process
    ProposalExpiry, GlobalCooldown, InitialPerTargetCooldown,
    MaxTime, MaxProposals, MaxMarriages, MaxFaults   \* bounds of the model

Processes == Workers \cup Sweepers

ASSUME DurationsAreNat ==
    /\ ProposalExpiry \in Nat
    /\ GlobalCooldown \in Nat
    /\ InitialPerTargetCooldown \in Nat
ASSUME RequestsAreBetweenCharacters == Requests \subseteq Characters \X Characters
ASSUME AnyoneSendsIsBoolean == AnyoneSends \in BOOLEAN
ASSUME SweepersAreNotWorkers == Workers \cap Sweepers = {}
ASSUME NoOneIsNoCharacter == NoOne \notin Characters
ASSUME BoundsAreNat ==
    /\ MaxTime \in Nat
    /\ MaxProposals \in Nat
    /\ MaxMarriages \in Nat
    /\ MaxFaults \in Nat

VARIABLES
    now,        \* the clock every replica reads
    proposals,  \* table proposals
    marriages,  \* table marriages
    published,  \* the status events that reached the event topic
    pc,         \* where each process is
    job,        \* what each process holds in memory
    todo,       \* rows a sweeper has queried and not yet taken up
    faults      \* failures so far, bounded by MaxFaults

tables == <<proposals, marriages>>
vars == <<now, proposals, marriages, published, pc, job, todo, faults>>

----------------------------------------------------------------------------
(* Rows, events and jobs                                                    *)

ProposalStatus == {"pending", "accepted", "rejected", "expired", "cancelled"}
MarriageStatus == {"proposed", "engaged", "married", "divorced", "expired"}

ProposalRow ==
    [ proposer : Characters, target : Characters, status : ProposalStatus,
      createdAt : Nat, respondedAt : Nat, updatedAt : Nat,
      rejections : Nat, cooldownUntil : Nat ]

MarriageRow ==
    [ partner1 : Characters, partner2 : Characters, status : MarriageStatus ]

Answers == {"accept", "decline", "cancel"}
Commands == Answers \cup {"propose", "divorce"}
Operations == Commands \cup {"delete", "expire", "none"}

(* `key` is the character a message is keyed by; `draft` the proposal as the *)
(* handler has transformed it and is about to save it.                       *)
Job ==
    [ op : Operations, key : Characters \cup {NoOne}, target : Characters \cup {NoOne},
      pid : Nat, mid : Nat, draft : ProposalRow \cup {NoRow} ]

NewJob(op, key, target, pid, mid) ==
    [ op |-> op, key |-> key, target |-> target,
      pid |-> pid, mid |-> mid, draft |-> NoRow ]

NoJob == NewJob("none", NoOne, NoOne, 0, 0)

Labels ==
    { "idle", "proposerFree", "targetFree", "noneActive", "globalCooldown",
      "targetCooldown", "insert", "loadProposal", "saveProposal",
      "createMarriage", "loadMarriage", "saveMarriage", "emit" }

EventTypes ==
    { "PROPOSAL_CREATED", "PROPOSAL_ACCEPTED", "PROPOSAL_DECLINED",
      "PROPOSAL_CANCELLED", "PROPOSAL_EXPIRED", "MARRIAGE_CREATED",
      "MARRIAGE_DIVORCED", "MARRIAGE_DELETED" }

Event(type, id) == [type |-> type, id |-> id]

----------------------------------------------------------------------------
(* What the handlers ask of the tables                                      *)

(* MakeProposal refuses a row whose proposer is its target.                 *)
Loadable(p) == p.proposer # p.target

ExpiresAt(p) == p.createdAt + ProposalExpiry
Overdue(p) == now > ExpiresAt(p)
(* Mutant: an accepted proposal may be answered again. *)
CanRespond_Mutant(p) == p.status \in {"pending", "accepted"} /\ ~Overdue(p)
CanRespond(p) == p.status = "pending" /\ ~Overdue(p)

ProposalsBy(c) == {i \in DOMAIN proposals : proposals[i].proposer = c}
ProposalsTo(c, d) == {i \in ProposalsBy(c) : proposals[i].target = d}

(* The row an ORDER BY created_at DESC reads first, as a set.               *)
Newest(ids) ==
    {i \in ids : \A k \in ids : proposals[k].createdAt <= proposals[i].createdAt}

(* The row a query in primary-key order reads first, as a set.              *)
First(ids) == {i \in ids : \A k \in ids : i <= k}

Pending(ids) == {i \in ids : proposals[i].status = "pending"}

ActiveStatus == {"proposed", "engaged", "married"}
Partners(m) == {m.partner1, m.partner2}
ActiveMarriages(c) ==
    {m \in DOMAIN marriages :
        c \in Partners(marriages[m]) /\ marriages[m].status \in ActiveStatus}

Free(c) == ActiveMarriages(c) = {}

(* Mutant: a pending proposal is taken for one that is over. *)
NoneActive_Mutant(c, d) ==
    \A i \in Pending(ProposalsTo(c, d)) : Loadable(proposals[i])

(* GetActiveProposal looks at one pending row only, the first.              *)
NoneActive(c, d) ==
    \A i \in First(Pending(ProposalsTo(c, d))) :
        Loadable(proposals[i]) /\ Overdue(proposals[i])

(* Mutant: the cooldown ends one tick early. *)
GlobalCooldownOver_Mutant(c) ==
    \A i \in Newest(ProposalsBy(c)) :
        Loadable(proposals[i]) /\ now >= proposals[i].createdAt + GlobalCooldown
GlobalCooldownOver(c) ==
    \A i \in Newest(ProposalsBy(c)) :
        Loadable(proposals[i]) /\ now > proposals[i].createdAt + GlobalCooldown

(* Mutant: only a proposal that is still pending keeps the pair waiting. *)
TargetCooldownOver_Mutant(c, d) ==
    \A i \in Newest(ProposalsTo(c, d)) : LET p == proposals[i] IN
        /\ Loadable(p)
        /\ p.status = "pending" => now > p.updatedAt + InitialPerTargetCooldown
TargetCooldownOver(c, d) ==
    \A i \in Newest(ProposalsTo(c, d)) : LET p == proposals[i] IN
        /\ Loadable(p)
        /\ p.status = "rejected" => now > p.cooldownUntil
        /\ p.status = "expired" => now > p.updatedAt + InitialPerTargetCooldown

(* Mutant: the duration has overflowed to a negative one. *)
CalculateNextCooldown_Mutant(rejections) == - 2 * InitialPerTargetCooldown

(* The backoff doubles with the rejections recorded in the row itself.      *)
CalculateNextCooldown(rejections) ==
    IF rejections = 0 THEN InitialPerTargetCooldown
    ELSE 2 ^ rejections * InitialPerTargetCooldown

Stamped(p, status) == [p EXCEPT !.status = status, !.updatedAt = now]
Answered(p, status) == [Stamped(p, status) EXCEPT !.respondedAt = now]

Outcome ==
    [accept |-> "accepted", decline |-> "rejected", cancel |-> "cancelled", expire |-> "expired"]

(* Accept, Reject, Cancel and Expire of a loaded proposal.                  *)
Transformed(op, p) ==
    IF op = "decline"
    THEN [Answered(p, "rejected") EXCEPT
              !.rejections = p.rejections + 1,
              !.cooldownUntil = now + CalculateNextCooldown(p.rejections)]
    ELSE IF op = "accept" THEN Answered(p, "accepted")
    ELSE Stamped(p, Outcome[op])

(* Saving a row stamps it anew: what was judged in time may be written long *)
(* afterwards.                                                              *)
Saved(d) == [d EXCEPT !.updatedAt = now]

(* Mutant: the sweep asks for a proposal that can still be answered. *)
MayTransform_Mutant(op, p) == Loadable(p) /\ CanRespond(p)

(* Mutant: the sweep trusts its query and does not look at the status. *)
MayTransform_Trusting(op, p) == Loadable(p) /\ (op = "expire" \/ CanRespond(p))

MayTransform(op, p) ==
    /\ Loadable(p)
    /\ IF op = "expire" THEN p.status = "pending" ELSE CanRespond(p)

(* Mutant: a deletion takes a marriage whose acceptance is still running. *)
Dissolvable_Mutant(j) ==
    IF j.op = "delete" THEN First(ActiveMarriages(j.key))
    ELSE {m \in {j.mid} : /\ marriages[m].status = "married"
                          /\ j.key \in Partners(marriages[m])}

(* A deletion ends the first active marriage, unless that one never got     *)
(* past "proposed", which Build refuses to divorce; a divorce ends the      *)
(* marriage it names if one of the partners of a completed marriage asks.   *)
Dissolvable(j) ==
    IF j.op = "delete"
    THEN {m \in First(ActiveMarriages(j.key)) : marriages[m].status # "proposed"}
    ELSE {m \in {j.mid} : /\ marriages[m].status = "married"
                          /\ j.key \in Partners(marriages[m])}

EventType ==
    [ propose |-> "PROPOSAL_CREATED",   accept |-> "PROPOSAL_ACCEPTED",
      decline |-> "PROPOSAL_DECLINED",  cancel |-> "PROPOSAL_CANCELLED",
      expire  |-> "PROPOSAL_EXPIRED",   divorce |-> "MARRIAGE_DIVORCED",
      delete  |-> "MARRIAGE_DELETED" ]

(* An acceptance publishes two events, everything else one.                 *)
EventsOf(j) ==
    LET id == IF j.op \in {"divorce", "delete"} THEN j.mid ELSE j.pid IN
    {Event(EventType[j.op], id)} \cup
    (IF j.op = "accept" THEN {Event("MARRIAGE_CREATED", j.mid)} ELSE {})

----------------------------------------------------------------------------
Init ==
    /\ now = 0
    /\ proposals = << >>
    /\ marriages = << >>
    /\ published = {}
    /\ pc = [w \in Processes |-> "idle"]
    /\ job = [w \in Processes |-> NoJob]
    /\ todo = [s \in Sweepers |-> {}]
    /\ faults = 0

Goto(w, label) == pc' = [pc EXCEPT ![w] = label]

Enter(w, label, j) ==
    /\ pc[w] = "idle"
    /\ Goto(w, label)
    /\ job' = [job EXCEPT ![w] = j]
    /\ UNCHANGED <<now, tables, published, todo, faults>>

Finish(w) ==
    /\ Goto(w, "idle")
    /\ job' = [job EXCEPT ![w] = NoJob]

InFlight(op) == {w \in Workers : job[w].op = op}

(* Commands are keyed by the character that sends them, and the broker      *)
(* hands out the messages of one key one after the other.                   *)
KeyFree(c) == \A w \in Workers : job[w].op \in Commands => job[w].key # c

----------------------------------------------------------------------------
(* Propose.  A command whose characters miss the level requirement, or for  *)
(* which the character service has no answer, changes nothing: the model    *)
(* starts where those checks have passed.                                   *)

(* Mutant: a pair whose proposal was found eligible once is not asked again. *)
BeginPropose_Mutant(w) ==
    \E r \in Requests :
        /\ KeyFree(r[1])
        /\ Len(proposals) + Cardinality(InFlight("propose")) < MaxProposals
        /\ Enter(w, IF ProposalsTo(r[1], r[2]) = {} THEN "proposerFree" ELSE "noneActive",
                 NewJob("propose", r[1], r[2], 0, 0))

BeginPropose(w) ==
    \E r \in Requests :
        /\ KeyFree(r[1])
        /\ Len(proposals) + Cardinality(InFlight("propose")) < MaxProposals
        /\ Enter(w, "proposerFree", NewJob("propose", r[1], r[2], 0, 0))

(* One eligibility check: the handler goes on or returns the refusal.       *)
Check(w, here, passes, next) ==
    /\ pc[w] = here
    /\ IF passes THEN Goto(w, next) /\ UNCHANGED job ELSE Finish(w)
    /\ UNCHANGED <<now, tables, published, todo, faults>>

CheckProposerFree(w) ==
    Check(w, "proposerFree", Free(job[w].key), "targetFree")

CheckTargetFree(w) ==
    Check(w, "targetFree", Free(job[w].target), "noneActive")

CheckNoneActive(w) ==
    Check(w, "noneActive", NoneActive(job[w].key, job[w].target), "globalCooldown")

CheckGlobalCooldown(w) ==
    Check(w, "globalCooldown", GlobalCooldownOver(job[w].key), "targetCooldown")

CheckTargetCooldown(w) ==
    Check(w, "targetCooldown", TargetCooldownOver(job[w].key, job[w].target), "insert")

NewProposal(c, d) ==
    [ proposer |-> c, target |-> d, status |-> "pending", createdAt |-> now,
      respondedAt |-> 0, updatedAt |-> now, rejections |-> 0, cooldownUntil |-> 0 ]

(* Mutant: a second proposal of the same pair reuses the row of the first. *)
InsertProposal_Mutant(w) ==
    LET p == NewProposal(job[w].key, job[w].target)
        old == ProposalsTo(p.proposer, p.target)
        id == IF old = {} THEN Len(proposals) + 1 ELSE CHOOSE i \in old : TRUE
    IN
    /\ pc[w] = "insert"
    /\ proposals' = IF old = {} THEN Append(proposals, p) ELSE [proposals EXCEPT ![id] = p]
    /\ job' = [job EXCEPT ![w].pid = id]
    /\ Goto(w, "emit")
    /\ UNCHANGED <<now, marriages, published, todo, faults>>

(* The row is inserted first and validated afterwards: when MakeProposal    *)
(* refuses it the handler fails and the row stays.                          *)
InsertProposal(w) ==
    LET p == NewProposal(job[w].key, job[w].target) IN
    /\ pc[w] = "insert"
    /\ proposals' = Append(proposals, p)
    /\ IF Loadable(p)
       THEN /\ job' = [job EXCEPT ![w].pid = Len(proposals) + 1]
            /\ Goto(w, "emit")
       ELSE Finish(w)
    /\ UNCHANGED <<now, marriages, published, todo, faults>>

----------------------------------------------------------------------------
(* Accept, decline and cancel, and the expiry of one proposal, are the same *)
(* three statements: load, save the transformed row, publish.  Whether the  *)
(* sender is a party of the proposal is not looked at.                      *)

Party(op, p) == IF op = "cancel" THEN p.proposer ELSE p.target

BeginAnswer(w) ==
    \E op \in Answers, c \in Characters, i \in DOMAIN proposals :
        /\ AnyoneSends \/ c = Party(op, proposals[i])
        /\ KeyFree(c)
        /\ op = "accept" =>
              Len(marriages) + Cardinality(InFlight("accept")) < MaxMarriages
        /\ Enter(w, "loadProposal", NewJob(op, c, NoOne, i, 0))

LoadProposal(w) ==
    LET p == proposals[job[w].pid] IN
    /\ pc[w] = "loadProposal"
    /\ IF MayTransform(job[w].op, p)
       THEN /\ job' = [job EXCEPT ![w].draft = Transformed(job[w].op, p)]
            /\ Goto(w, "saveProposal")
       ELSE Finish(w)
    /\ UNCHANGED <<now, tables, published, todo, faults>>

(* Mutant: an acceptance goes straight on to the marriage. *)
SaveProposal_Mutant(w) ==
    /\ pc[w] = "saveProposal"
    /\ proposals' = IF job[w].op = "accept" THEN proposals
                    ELSE [proposals EXCEPT ![job[w].pid] = Saved(job[w].draft)]
    /\ Goto(w, IF job[w].op = "accept" THEN "createMarriage" ELSE "emit")
    /\ UNCHANGED <<now, marriages, published, job, todo, faults>>

SaveProposal(w) ==
    /\ pc[w] = "saveProposal"
    /\ proposals' = [proposals EXCEPT ![job[w].pid] = Saved(job[w].draft)]
    /\ Goto(w, IF job[w].op = "accept" THEN "createMarriage" ELSE "emit")
    /\ UNCHANGED <<now, marriages, published, job, todo, faults>>

(* Mutant: the new marriage is left as it was inserted. *)
CreateMarriage_Mutant(w) ==
    LET d == job[w].draft IN
    /\ pc[w] = "createMarriage"
    /\ marriages' = Append(marriages,
            [partner1 |-> d.proposer, partner2 |-> d.target, status |-> "proposed"])
    /\ job' = [job EXCEPT ![w].mid = Len(marriages) + 1]
    /\ Goto(w, "emit")
    /\ UNCHANGED <<now, proposals, published, todo, faults>>

(* The second half of an acceptance.  Neither statement looks at what       *)
(* marriages the partners already have.                                     *)
CreateMarriage(w) ==
    LET d == job[w].draft IN
    /\ pc[w] = "createMarriage"
    /\ marriages' = Append(marriages,
            [partner1 |-> d.proposer, partner2 |-> d.target, status |-> "proposed"])
    /\ job' = [job EXCEPT ![w].mid = Len(marriages) + 1]
    /\ Goto(w, "saveMarriage")
    /\ UNCHANGED <<now, proposals, published, todo, faults>>

----------------------------------------------------------------------------
(* Divorce commands, and the character service's deletion events, which     *)
(* arrive on a topic of their own and so are not ordered with commands.     *)

BeginDivorce(w) ==
    \E c \in Characters, m \in DOMAIN marriages :
        /\ AnyoneSends \/ c \in Partners(marriages[m])
        /\ KeyFree(c)
        /\ Enter(w, "loadMarriage", NewJob("divorce", c, NoOne, 0, m))

BeginDelete(w) ==
    \E c \in Characters :
        Enter(w, "loadMarriage", NewJob("delete", c, NoOne, 0, 0))

LoadMarriage(w) ==
    /\ pc[w] = "loadMarriage"
    /\ \/ \E m \in Dissolvable(job[w]) :
             /\ job' = [job EXCEPT ![w].mid = m]
             /\ Goto(w, "saveMarriage")
       \/ Dissolvable(job[w]) = {} /\ Finish(w)
    /\ UNCHANGED <<now, tables, published, todo, faults>>

SaveMarriage(w) ==
    LET status == IF job[w].op = "accept" THEN "engaged" ELSE "divorced" IN
    /\ pc[w] = "saveMarriage"
    /\ marriages' = [marriages EXCEPT ![job[w].mid].status = status]
    /\ Goto(w, "emit")
    /\ UNCHANGED <<now, proposals, published, job, todo, faults>>

(* The events of a handler are published last, in one call.                 *)
Emit(w) ==
    /\ pc[w] = "emit"
    /\ published' = published \cup EventsOf(job[w])
    /\ Finish(w)
    /\ UNCHANGED <<now, tables, todo, faults>>

----------------------------------------------------------------------------
(* The sweep: one query for the overdue rows, then one expiry per row.  A   *)
(* row of the result that cannot be loaded fails the whole query.           *)

(* Mutant: the query forgets the expiry. *)
DueProposals_Mutant == Pending(DOMAIN proposals)

DueProposals ==
    {i \in Pending(DOMAIN proposals) : Overdue(proposals[i])}

SweepQuery(s) ==
    /\ pc[s] = "idle" /\ todo[s] = {}
    /\ \A i \in DueProposals : Loadable(proposals[i])
    /\ todo' = [todo EXCEPT ![s] = DueProposals]
    /\ UNCHANGED <<now, tables, published, pc, job, faults>>

SweepNext(s) ==
    \E i \in todo[s] :
        /\ pc[s] = "idle"
        /\ \A k \in todo[s] : proposals[i].createdAt <= proposals[k].createdAt
        /\ todo' = [todo EXCEPT ![s] = @ \ {i}]
        /\ job' = [job EXCEPT ![s] = NewJob("expire", NoOne, NoOne, i, 0)]
        /\ Goto(s, "loadProposal")
        /\ UNCHANGED <<now, tables, published, faults>>

----------------------------------------------------------------------------
(* A statement or a publication fails, or the replica stops: the process    *)
(* does nothing more, and nothing it has written is undone.  A sweeper that *)
(* survives the failure of one row goes on with the next.                   *)

Abort(w) ==
    /\ pc[w] # "idle"
    /\ faults < MaxFaults
    /\ faults' = faults + 1
    /\ Finish(w)
    /\ UNCHANGED <<now, tables, published, todo>>

CrashSweep(s) ==
    /\ faults < MaxFaults
    /\ faults' = faults + 1
    /\ Finish(s)
    /\ todo' = [todo EXCEPT ![s] = {}]
    /\ UNCHANGED <<now, tables, published>>

Tick ==
    /\ now < MaxTime
    /\ now' = now + 1
    /\ UNCHANGED <<tables, published, pc, job, todo, faults>>

----------------------------------------------------------------------------
Begin(w) == BeginPropose(w) \/ BeginAnswer(w) \/ BeginDivorce(w) \/ BeginDelete(w)

CheckStep(w) ==
    \/ CheckProposerFree(w) \/ CheckTargetFree(w) \/ CheckNoneActive(w)
    \/ CheckGlobalCooldown(w) \/ CheckTargetCooldown(w)

Statement(w) ==
    \/ CheckStep(w) \/ InsertProposal(w)
    \/ LoadProposal(w) \/ SaveProposal(w) \/ CreateMarriage(w)
    \/ LoadMarriage(w) \/ SaveMarriage(w) \/ Emit(w)

SweepStep(s) == SweepQuery(s) \/ SweepNext(s) \/ Statement(s)

Work ==
    \/ \E w \in Workers : Begin(w) \/ Statement(w) \/ Abort(w)
    \/ \E s \in Sweepers : SweepStep(s) \/ Abort(s) \/ CrashSweep(s)

Next == Work \/ Tick

Spec == Init /\ [][Next]_vars

(* The scheduler's ticker keeps starting sweeps, and a sweep that runs      *)
(* reaches its end.                                                         *)
FairSpec == Spec /\ \A s \in Sweepers : WF_vars(SweepStep(s))
=============================================================================
