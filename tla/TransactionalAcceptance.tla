------------------------ MODULE TransactionalAcceptance ------------------------
(****************************************************************************)
(* AcceptProposalWithTransactionAndEmit, the other way to accept a          *)
(* proposal: the three writes run in one database transaction, and the two  *)
(* events are published before it commits.  Around it the plain handlers    *)
(* and the sweep go on settling the same proposals without a transaction:   *)
(* AcceptProposalAndEmit too, whose writes show one by one.                 *)
(*                                                                          *)
(* The database is read committed: a statement sees what is committed, a    *)
(* row written in a transaction is locked until it ends, and a write of a   *)
(* locked row waits and then goes ahead.  No handler of the service calls   *)
(* this operation so far; each acceptor stands for one call of it.          *)
(****************************************************************************)
CONSTANTS
    Acceptors,    \* calls of AcceptProposalWithTransactionAndEmit
    Rivals,       \* plain handlers, acceptances included, and sweeps,
                  \* each settling one proposal
    Proposals,
    NoOne         \* holder of a row that is not locked

Processes == Acceptors \cup Rivals

ASSUME RivalsAreNotAcceptors == Acceptors \cap Rivals = {}
ASSUME NoOneIsNoAcceptor == NoOne \notin Acceptors

VARIABLES
    proposals,    \* the committed status of each proposal
    lapsed,       \* the proposals whose time is up
    marriages,    \* the committed rows, each with the call that created it
    published,    \* the acceptances whose events reached the topic
    locked,       \* the transaction that holds each row of proposals
    pc,           \* where each process is
    job           \* what each process is about, and what it has written

vars == <<proposals, lapsed, marriages, published, locked, pc, job>>

----------------------------------------------------------------------------
Outcomes == {"accepted", "rejected", "cancelled", "expired"}
ProposalStatus == {"pending"} \cup Outcomes

MarriageRow == [by : Processes, of : Proposals, status : {"proposed", "engaged"}]

(* `marriage` is the row the transaction has written and nobody else sees.  *)
Job ==
    [of : Proposals, outcome : Outcomes, marriage : {"none", "proposed", "engaged"}]

(* A plain call that fails has written nothing, or leaves what it has       *)
(* written behind: "failed" or "torn".                                      *)
Ended ==
    {"committed", "refused", "rolledBack", "lost", "settled", "failed", "torn"}

Labels ==
    { "idle", "load", "saveProposal", "createMarriage", "saveMarriage",
      "publish", "commit" } \cup Ended

CanRespond(p) == proposals[p] = "pending" /\ p \notin lapsed

(* ExpireProposal does not look at the clock: the sweep has asked for       *)
(* overdue rows.                                                            *)
MaySettle(p, outcome) ==
    IF outcome = "expired" THEN proposals[p] = "pending" /\ p \in lapsed ELSE CanRespond(p)

Init ==
    /\ proposals = [p \in Proposals |-> "pending"]
    /\ lapsed = {}
    /\ marriages = {}
    /\ published = {}
    /\ locked = [p \in Proposals |-> NoOne]
    /\ pc = [w \in Processes |-> "idle"]
    /\ job \in [Processes -> {j \in Job : j.marriage = "none"}]
    /\ \A a \in Acceptors : job[a].outcome = "accepted"

----------------------------------------------------------------------------
(* The transaction.                                                         *)

Moves(w, from, to) == pc[w] = from /\ pc' = [pc EXCEPT ![w] = to]

Released(a) == [p \in Proposals |-> IF locked[p] = a THEN NoOne ELSE locked[p]]

Begin(a) ==
    /\ Moves(a, "idle", "load")
    /\ UNCHANGED <<proposals, lapsed, marriages, published, locked, job>>

(* Mutant: an operation that fails returns before the Rollback. *)
Rollback_Mutant(a, from, to) ==
    /\ Moves(a, from, to)
    /\ UNCHANGED <<proposals, lapsed, marriages, locked, job>>

(* What the transaction has written is gone, and its locks with it.         *)
Rollback(a, from, to) ==
    /\ Moves(a, from, to)
    /\ locked' = Released(a)
    /\ UNCHANGED <<proposals, lapsed, marriages, job>>

(* The row is read without a lock.                                          *)
Load(a) ==
    \/ /\ CanRespond(job[a].of)
       /\ Moves(a, "load", "saveProposal")
       /\ UNCHANGED <<proposals, lapsed, marriages, published, locked, job>>
    \/ /\ ~CanRespond(job[a].of)
       /\ Rollback(a, "load", "refused")
       /\ UNCHANGED published

(* Mutant: the proposal is saved with the processor's own connection. *)
SaveProposal_Mutant(a) ==
    /\ Moves(a, "saveProposal", "createMarriage")
    /\ locked[job[a].of] = NoOne
    /\ proposals' = [proposals EXCEPT ![job[a].of] = "accepted"]
    /\ UNCHANGED <<lapsed, marriages, published, locked, job>>

(* The write waits for whoever holds the row; its status is not looked at   *)
(* again.                                                                   *)
SaveProposal(a) ==
    /\ Moves(a, "saveProposal", "createMarriage")
    /\ locked[job[a].of] = NoOne
    /\ locked' = [locked EXCEPT ![job[a].of] = a]
    /\ UNCHANGED <<proposals, lapsed, marriages, published, job>>

CreateMarriage(a) ==
    /\ Moves(a, "createMarriage", "saveMarriage")
    /\ job' = [job EXCEPT ![a].marriage = "proposed"]
    /\ UNCHANGED <<proposals, lapsed, marriages, published, locked>>

SaveMarriage(a) ==
    /\ Moves(a, "saveMarriage", "publish")
    /\ job' = [job EXCEPT ![a].marriage = "engaged"]
    /\ UNCHANGED <<proposals, lapsed, marriages, published, locked>>

(* Both events are in one call.                                             *)
Publish(a) ==
    /\ Moves(a, "publish", "commit")
    /\ published' = published \cup {a}
    /\ UNCHANGED <<proposals, lapsed, marriages, locked, job>>

Commit(a) ==
    /\ Moves(a, "commit", "committed")
    /\ proposals' = [proposals EXCEPT ![job[a].of] = "accepted"]
    /\ marriages' = marriages \cup {[by |-> a, of |-> job[a].of, status |-> job[a].marriage]}
    /\ locked' = Released(a)
    /\ UNCHANGED <<lapsed, published, job>>

(* A statement fails, or the replica stops: the database rolls back.        *)
Fail(a) ==
    /\ \E here \in {"load", "saveProposal", "createMarriage", "saveMarriage"} :
          Rollback(a, here, "rolledBack")
    /\ UNCHANGED published

(* Mutant: the error of the producer is logged and dropped. *)
PublishFails_Mutant(a) ==
    /\ Moves(a, "publish", "commit")
    /\ \E arrived \in SUBSET {a} : published' = published \cup arrived
    /\ UNCHANGED <<proposals, lapsed, marriages, locked, job>>

(* A producer that reports an error may have delivered the messages.        *)
PublishFails(a) ==
    /\ Rollback(a, "publish", "lost")
    /\ \E arrived \in SUBSET {a} : published' = published \cup arrived

(* The commit fails, or the replica stops before it: what was published     *)
(* stays published.                                                         *)
CommitFails(a) ==
    /\ Rollback(a, "commit", "lost")
    /\ UNCHANGED published

GoOn(a) ==
    \/ Load(a) \/ SaveProposal(a) \/ CreateMarriage(a) \/ SaveMarriage(a)
    \/ Publish(a) \/ Commit(a)

Accept(a) == GoOn(a) \/ Fail(a) \/ PublishFails(a) \/ CommitFails(a)

----------------------------------------------------------------------------
(* A plain handler, or the sweep: load, save, and for an acceptance create  *)
(* and save the marriage and publish.  Each statement shows at once.        *)

BeginSettle(r) ==
    /\ Moves(r, "idle", "load")
    /\ UNCHANGED <<proposals, lapsed, marriages, published, locked, job>>

LoadRival(r) ==
    /\ IF MaySettle(job[r].of, job[r].outcome)
       THEN Moves(r, "load", "saveProposal")
       ELSE Moves(r, "load", "refused")
    /\ UNCHANGED <<proposals, lapsed, marriages, published, locked, job>>

SaveRival(r) ==
    /\ Moves(r, "saveProposal",
             IF job[r].outcome = "accepted" THEN "createMarriage" ELSE "settled")
    /\ locked[job[r].of] = NoOne
    /\ proposals' = [proposals EXCEPT ![job[r].of] = job[r].outcome]
    /\ UNCHANGED <<lapsed, marriages, published, locked, job>>

CreateMarriageRival(r) ==
    /\ Moves(r, "createMarriage", "saveMarriage")
    /\ marriages' = marriages \cup {[by |-> r, of |-> job[r].of, status |-> "proposed"]}
    /\ UNCHANGED <<proposals, lapsed, published, locked, job>>

SaveMarriageRival(r) ==
    /\ Moves(r, "saveMarriage", "publish")
    /\ marriages' = {IF m.by = r THEN [m EXCEPT !.status = "engaged"] ELSE m : m \in marriages}
    /\ UNCHANGED <<proposals, lapsed, published, locked, job>>

PublishRival(r) ==
    /\ Moves(r, "publish", "settled")
    /\ published' = published \cup {r}
    /\ UNCHANGED <<proposals, lapsed, marriages, locked, job>>

(* A statement fails, or the replica stops, and nothing is undone; a        *)
(* publication that fails may have reached the topic.                       *)
FailRival(r) ==
    /\ \/ Moves(r, "load", "failed") \/ Moves(r, "saveProposal", "failed")
       \/ Moves(r, "createMarriage", "torn") \/ Moves(r, "saveMarriage", "torn")
       \/ Moves(r, "publish", "torn")
    /\ \E arrived \in SUBSET {r} :
          /\ arrived # {} => pc[r] = "publish"
          /\ published' = published \cup arrived
    /\ UNCHANGED <<proposals, lapsed, marriages, locked, job>>

GoOnRival(r) ==
    \/ LoadRival(r) \/ SaveRival(r) \/ CreateMarriageRival(r) \/ SaveMarriageRival(r)
    \/ PublishRival(r)

Settle(r) == GoOnRival(r) \/ FailRival(r)

(* The time of a proposal is up.                                            *)
Lapse ==
    /\ \E p \in Proposals \ lapsed : lapsed' = lapsed \cup {p}
    /\ UNCHANGED <<proposals, marriages, published, locked, pc, job>>

----------------------------------------------------------------------------
Next ==
    \/ \E a \in Acceptors : Begin(a) \/ Accept(a)
    \/ \E r \in Rivals : BeginSettle(r) \/ Settle(r)
    \/ Lapse

Spec == Init /\ [][Next]_vars

(* A call that has begun goes on, unless it waits for a row.  No statement  *)
(* has to fail: one that waits may wait for ever.                           *)
FairSpec ==
    /\ Spec
    /\ \A a \in Acceptors : WF_vars(GoOn(a))
    /\ \A r \in Rivals : WF_vars(GoOnRival(r))
=============================================================================
