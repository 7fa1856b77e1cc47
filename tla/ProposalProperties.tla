-------------------------- MODULE ProposalProperties --------------------------
(****************************************************************************)
(* What Proposals is to satisfy.  Each property says under which            *)
(* concurrency it is claimed: "replicas" is any number of handlers and      *)
(* sweepers, "one handler" any number of sweepers beside one handler,       *)
(* "turns" any number of both in a behaviour in which two of them never     *)
(* hold the same row between reading and writing it.                        *)
(****************************************************************************)
EXTENDS Proposals

SamePair(p, q) == p.proposer = q.proposer /\ p.target = q.target

(* Replicas.  Every variable keeps its type; what a handler holds refers to *)
(* rows that exist.                                                         *)
TypeOK ==
    /\ now \in Nat
    /\ proposals \in Seq(ProposalRow)
    /\ marriages \in Seq(MarriageRow)
    /\ published \subseteq [type : EventTypes, id : Nat]
    /\ pc \in [Processes -> Labels]
    /\ job \in [Processes -> Job]
    /\ todo \in [Sweepers -> SUBSET Nat]
    /\ faults \in 0..MaxFaults

(* Replicas.  Two proposals of one character are more than the global       *)
(* cooldown apart, whatever else is interleaved between the check and the   *)
(* insert.  (CheckGlobalCooldown; commands of one character are ordered.)   *)
GlobalCooldownKept ==
    \A i, j \in DOMAIN proposals :
        i < j /\ proposals[i].proposer = proposals[j].proposer
        => proposals[j].createdAt > proposals[i].createdAt + GlobalCooldown

IsOpen(k) == proposals[k].status = "pending" /\ ~Overdue(proposals[k])
LapsedBefore(k) ==
    \E h \in 1..(k - 1) : SamePair(proposals[h], proposals[k]) /\ Overdue(proposals[h])

(* Replicas.  An open proposal is followed by another one of the same pair  *)
(* only after an earlier one of theirs has outlived its expiry: the check   *)
(* for an open proposal looks at the first pending row, and lets the pair   *)
(* pass while that one is overdue and not swept.  (GetActiveProposal)       *)
RepeatedOnlyAfterLapse ==
    \A k, i \in DOMAIN proposals :
        k < i /\ SamePair(proposals[k], proposals[i]) /\ IsOpen(k) => LapsedBefore(k)

AnsweredInTime(p) ==
    IF p.status \in {"accepted", "rejected"}
    THEN p.respondedAt <= ExpiresAt(p)
    ELSE p.respondedAt = 0

(* Replicas.  A proposal is answered only before its expiry and expired     *)
(* only after it, and no other row says it was answered: although the save  *)
(* of an answer may come after the expiry, and stale saves replace one      *)
(* outcome by another.  (CanRespond, GetExpiredProposals; ExpireProposal    *)
(* does not look at the clock again.)                                       *)
OutcomesRespectExpiry ==
    \A i \in DOMAIN proposals : LET p == proposals[i] IN
        /\ AnsweredInTime(p)
        /\ p.status = "expired" => p.updatedAt > ExpiresAt(p)

(* Replicas.  Stale whole-row saves may replace one outcome by another, but *)
(* never reopen a proposal, nor change who made it, to whom and when.       *)
(* (UpdateProposal saves the row a handler read earlier.)                   *)
NeverReopened ==
    [][ \A i \in DOMAIN proposals :
          /\ i \in DOMAIN proposals'
          /\ SamePair(proposals[i], proposals'[i])
          /\ proposals[i].createdAt = proposals'[i].createdAt
          /\ proposals[i].status # "pending" => proposals'[i].status # "pending" ]_proposals

OutcomeEvents ==
    {"PROPOSAL_ACCEPTED", "PROPOSAL_DECLINED", "PROPOSAL_CANCELLED", "PROPOSAL_EXPIRED"}

(* An event and the tables agree: the row it names exists, a proposal said  *)
(* to be settled is, a marriage said to be created has left "proposed", one *)
(* said to be over is divorced.                                             *)
Backed(e) ==
    /\ e.type = "PROPOSAL_CREATED" =>
          e.id \in DOMAIN proposals /\ Loadable(proposals[e.id])
    /\ e.type \in OutcomeEvents =>
          e.id \in DOMAIN proposals /\ proposals[e.id].status # "pending"
    /\ e.type = "MARRIAGE_CREATED" =>
          e.id \in DOMAIN marriages /\ marriages[e.id].status # "proposed"
    /\ e.type \in {"MARRIAGE_DELETED", "MARRIAGE_DIVORCED"} =>
          e.id \in DOMAIN marriages /\ marriages[e.id].status = "divorced"

(* Replicas.  Whatever was published is in the tables, and no stale save    *)
(* takes it back.  (message.Emit runs last in every handler.)               *)
EventsBacked == \A e \in published : Backed(e)

(* Replicas.  The table marriages implements the register: a deletion that  *)
(* races with the two statements that create a marriage, or with another    *)
(* deletion, never ends a marriage that is not engaged yet and never brings *)
(* an ended one back.  (UpdateMarriage in AcceptProposal and                *)
(* HandleCharacterDeletion)                                                 *)
Register == INSTANCE MarriageRegister WITH
    Couples <- {r \in Characters \X Characters : r[1] # r[2]}
KeepsRegister == Register!Spec

(* Replicas.  Partners are two characters one of whom has proposed to the   *)
(* other in a proposal that is no longer open.  (AcceptProposal saves the   *)
(* proposal before it creates the marriage.)                                *)
MarriagesComeFromProposals ==
    \A m \in DOMAIN marriages :
        \E i \in DOMAIN proposals :
            /\ proposals[i].proposer = marriages[m].partner1
            /\ proposals[i].target = marriages[m].partner2
            /\ proposals[i].proposer # proposals[i].target
            /\ proposals[i].status # "pending"

----------------------------------------------------------------------------
(* Proposal h had outlived its expiry when k, of the same pair, was made;   *)
(* nobody has answered it, though a sweep may have come to it.              *)
HadLapsed(h, k) ==
    /\ SamePair(proposals[h], proposals[k])
    /\ proposals[h].status \in {"pending", "expired"}
    /\ proposals[k].createdAt > ExpiresAt(proposals[h])

(* While i was open its pair made another proposal, up to j, because an     *)
(* earlier one had lapsed unswept and was taken for the pair's only one.    *)
AskedMeanwhile(i, j) ==
    \E k \in (i + 1)..j :
        /\ SamePair(proposals[i], proposals[k])
        /\ proposals[k].createdAt <= proposals[i].respondedAt
        /\ \E h \in 1..(i - 1) : HadLapsed(h, k)

(* One handler and any sweepers.  After a rejection the same proposal is    *)
(* not made again before the cooldown recorded with it is over; the one way *)
(* around it is a proposal made while the rejected one was still open.      *)
(* (CheckPerTargetCooldown, which looks at the newest row of the pair, and  *)
(* GetActiveProposal, which looks at the first pending one.)                *)
RejectionCooldownKept ==
    \A i, j \in DOMAIN proposals :
        /\ i < j /\ SamePair(proposals[i], proposals[j])
        /\ proposals[i].status = "rejected"
        /\ proposals[j].createdAt <= proposals[i].cooldownUntil
        => AskedMeanwhile(i, j)

(* One handler and any sweepers.  A proposal is only recorded between       *)
(* characters that are in no active marriage at that moment.                *)
(* (CheckProposalEligibility)                                               *)
ProposedWhileFree ==
    [][ \A i \in DOMAIN proposals' \ DOMAIN proposals :
          Free(proposals'[i].proposer) /\ Free(proposals'[i].target) ]_proposals

----------------------------------------------------------------------------
(* The code has neither row locks nor version columns.  Where it loses an   *)
(* update without them, a property is claimed of the behaviours in which    *)
(* the loss does not arise, and of nothing narrower than that: everything   *)
(* else, sweeps beside handlers included, is interleaved.                   *)

(* No two processes have loaded the same proposal and not saved it yet.     *)
RowsTakeTurns ==
    \A v, w \in Processes :
        v # w /\ pc[v] = "saveProposal" /\ pc[w] = "saveProposal" => job[v].pid # job[w].pid

(* No process has loaded a proposal, and not saved it yet, of a pair whose  *)
(* next proposal has passed the last check and is not inserted yet.         *)
InsertsTakeTurns ==
    \A v, w \in Processes :
        pc[v] = "saveProposal" /\ pc[w] = "insert" =>
            <<job[v].draft.proposer, job[v].draft.target>> # <<job[w].key, job[w].target>>

(* The behaviours in which rows are taken up in turns.                      *)
TurnsSpec == Init /\ [][Next /\ RowsTakeTurns' /\ InsertsTakeTurns']_vars

(* Turns (InsertsTakeTurns).  After the expiry of a proposal the same one   *)
(* is not made again before the cooldown is over, counted from the save of  *)
(* the sweep that may come at any time after the expiry; the one way around *)
(* it is a proposal made before that save, while the overdue one still      *)
(* counted as pending.  (CheckPerTargetCooldown)                            *)
LapseCooldownKept ==
    \A i, j \in DOMAIN proposals :
        /\ i < j /\ SamePair(proposals[i], proposals[j])
        /\ proposals[i].status = "expired"
        /\ proposals[j].createdAt <= proposals[i].updatedAt + InitialPerTargetCooldown
        => \E k \in (i + 1)..j :
              /\ SamePair(proposals[i], proposals[k])
              /\ proposals[k].createdAt <= proposals[i].updatedAt

Accepted(c, d) == {i \in ProposalsTo(c, d) : proposals[i].status = "accepted"}
MarriagesOf(c, d) ==
    {m \in DOMAIN marriages : marriages[m].partner1 = c /\ marriages[m].partner2 = d}

(* Acceptances whose handler has yet to create the marriage.                *)
Unwed(c, d) ==
    {i \in Accepted(c, d) : \E w \in Processes : pc[w] = "createMarriage" /\ job[w].pid = i}

(* Turns.  No acceptance yields two marriages, repeated and stale commands  *)
(* included, and none is left without its marriage but by a failure, each   *)
(* failure leaving at most one.  (AcceptProposal)                           *)
OneMarriagePerAcceptance ==
    \A c, d \in Characters :
        LET a == Cardinality(Accepted(c, d))
            m == Cardinality(MarriagesOf(c, d))
            u == Cardinality(Unwed(c, d))
        IN
        m + u <= a /\ a <= m + u + faults

(* Turns.  A proposal has at most one outcome event and it names the        *)
(* outcome in the table, in spite of repeated commands and failed handlers. *)
(* (the AndEmit handlers)                                                   *)
EventsMatchRows ==
    \A e \in published :
        e.type \in OutcomeEvents
        => \E op \in Answers \cup {"expire"} :
              e.type = EventType[op] /\ proposals[e.id].status = Outcome[op]

(* A process that has saved an outcome and not announced it yet.            *)
Settles(op) == op \in Answers \cup {"expire"}
Owes(w) == pc[w] \in {"createMarriage", "saveMarriage", "emit"} /\ Settles(job[w].op)

(* Turns.  The outcome of a proposal is announced once: whoever owes the    *)
(* announcement is the only one who does, and nobody has made it before.    *)
(* (the AndEmit handlers and ExpireProposalAndEmit, repeated or on several  *)
(* replicas)                                                                *)
AnnouncedOnce ==
    \A w \in Processes : Owes(w) =>
        /\ \A e \in published : e.type \in OutcomeEvents => e.id # job[w].pid
        /\ \A v \in Processes \ {w} : Owes(v) => job[v].pid # job[w].pid

(* Turns.  The proposals table implements the book.                         *)
Entry(p) ==
    [ from |-> p.proposer, to |-> p.target, at |-> p.createdAt,
      outcome |-> IF p.status = "pending" THEN "open" ELSE p.status ]
Entries == [i \in DOMAIN proposals |-> Entry(proposals[i])]
Book == INSTANCE ProposalBook WITH time <- now, book <- Entries
KeepsBook == Book!Spec

----------------------------------------------------------------------------
(* Replicas, fair sweepers.  An overdue proposal does not stay pending, in  *)
(* spite of failing statements and of answers racing with the sweep.        *)
(* (ProposalExpiryScheduler, ProcessExpiredProposals)                       *)
OverdueIsSettled ==
    \A i \in 1..MaxProposals :
        i \in DueProposals ~> ~(i \in DueProposals)
----------------------------------------------------------------------------
(* What the documentation, comments and tests say and the code does not do. *)

(* A character is in at most one relationship (README, Eligibility          *)
(* Requirements).  AcceptProposal does not look for another one.            *)
OneRelationship ==
    \A c \in Characters : Cardinality(ActiveMarriages(c)) <= 1
=============================================================================
