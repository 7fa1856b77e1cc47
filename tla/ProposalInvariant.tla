-------------------------- MODULE ProposalInvariant --------------------------
(****************************************************************************)
(* The inductive invariant behind the theorems about Proposals: what a      *)
(* process holds in memory, statement by statement, and how that relates to *)
(* the tables other processes keep changing.                                *)
(****************************************************************************)
EXTENDS ProposalProperties

EligibilityLabels ==
    {"proposerFree", "targetFree", "noneActive", "globalCooldown", "targetCooldown", "insert"}

DissolvingOps == {"delete", "divorce"}

(* A handler between two statements of Propose.                             *)
ProposeJobOK(w) ==
    pc[w] \in EligibilityLabels =>
        /\ job[w].op = "propose"
        /\ job[w].key \in Characters
        /\ job[w].target \in Characters

(* A process that has a proposal in hand.  The draft is a stale copy of the *)
(* row in all but who, whom and when.                                       *)
AnswerJobOK(w) ==
    /\ pc[w] \in {"loadProposal", "saveProposal", "createMarriage"} =>
          /\ job[w].op \in Answers \cup {"expire"}
          /\ job[w].pid \in DOMAIN proposals
    /\ pc[w] \in {"saveProposal", "createMarriage"} =>
          LET d == job[w].draft p == proposals[job[w].pid] IN
          /\ d \in ProposalRow
          /\ d.status # "pending"
          /\ SamePair(d, p)
          /\ d.createdAt = p.createdAt
    /\ pc[w] = "createMarriage" => job[w].op = "accept"

(* A process that has a marriage in hand.                                   *)
MarriageJobOK(w) ==
    /\ pc[w] = "loadMarriage" =>
          /\ job[w].op \in DissolvingOps
          /\ job[w].key \in Characters
          /\ job[w].op = "divorce" => job[w].mid \in DOMAIN marriages
    /\ pc[w] = "saveMarriage" =>
          /\ job[w].op \in DissolvingOps \cup {"accept"}
          /\ job[w].mid \in DOMAIN marriages

JobOK(w) ==
    /\ pc[w] = "idle" <=> job[w].op = "none"
    /\ ProposeJobOK(w)
    /\ AnswerJobOK(w)
    /\ MarriageJobOK(w)

JobsOK == \A w \in Processes : JobOK(w)

(* A sweeper runs nothing but expiries, of rows that exist; a message       *)
(* handler never does.                                                      *)
SweepersOK ==
    /\ \A s \in Sweepers :
          /\ job[s].op \in {"none", "expire"}
          /\ todo[s] \subseteq DOMAIN proposals
    /\ \A w \in Workers : job[w].op # "expire"

(* A row that is still open has not been rejected yet.                      *)
OpenRowsFresh ==
    \A i \in DOMAIN proposals :
        proposals[i].status = "pending" => proposals[i].rejections = 0

(* What any step leaves as it was: rows stay, with who, whom and when, and  *)
(* a proposal that is open afterwards was open before.                      *)
Kept(i) ==
    /\ SamePair(proposals[i], proposals'[i])
    /\ proposals'[i].createdAt = proposals[i].createdAt
    /\ proposals'[i].status = "pending" => proposals'[i] = proposals[i]

TablesGrow ==
    /\ DOMAIN proposals \subseteq DOMAIN proposals'
    /\ \A i \in DOMAIN proposals : Kept(i)
    /\ DOMAIN marriages \subseteq DOMAIN marriages'

(* A step of one process.                                                   *)
OnlyMoves(w) ==
    \A v \in Processes \ {w} : pc'[v] = pc[v] /\ job'[v] = job[v]

(* What a step of process w establishes on the way to TypeInv'.             *)
StepOK(w) ==
    /\ TypeOK' /\ TablesGrow /\ OnlyMoves(w)
    /\ JobOK(w)' /\ SweepersOK' /\ OpenRowsFresh'

TypeInv == TypeOK /\ JobsOK /\ SweepersOK /\ OpenRowsFresh

(* No two handlers work on commands of one character.                       *)
KeysExclusive ==
    \A v, w \in Workers :
        v # w /\ job[v].op \in Commands /\ job[w].op \in Commands
        => job[v].key # job[w].key

(* What CheckGlobalCooldown has found stays true up to the insert.          *)
Waits(w) == pc[w] \in {"targetCooldown", "insert"}
Rested(c) == \A i \in ProposalsBy(c) : now > proposals[i].createdAt + GlobalCooldown
CooldownPassed == \A w \in Workers : Waits(w) => Rested(job[w].key)

CooldownInv == KeysExclusive /\ CooldownPassed /\ GlobalCooldownKept

(* What the check for an open proposal has found stays true up to the       *)
(* insert.                                                                  *)
Unasked(w) == pc[w] \in {"globalCooldown", "targetCooldown", "insert"}
PairMayAsk(c, d) == \A k \in ProposalsTo(c, d) : IsOpen(k) => LapsedBefore(k)
NoneActivePassed ==
    \A w \in Workers : Unasked(w) => PairMayAsk(job[w].key, job[w].target)

RepeatInv == NoneActivePassed /\ RepeatedOnlyAfterLapse

(* No row is ahead of the clock.                                            *)
RowInWindow(p) ==
    /\ AnsweredInTime(p)
    /\ p.status = "expired" => p.updatedAt > ExpiresAt(p)
    /\ p.createdAt <= now

(* A draft was made in time, and carries the time at which it was made.     *)
DraftInWindow(d) ==
    /\ d.updatedAt <= now
    /\ d.status # "expired" => d.updatedAt <= ExpiresAt(d)
    /\ d.status = "expired" => Overdue(d)
    /\ d.respondedAt = IF d.status \in {"accepted", "rejected"} THEN d.updatedAt ELSE 0

(* A sweeper holds overdue rows only.                                       *)
WindowInv ==
    /\ \A i \in DOMAIN proposals : RowInWindow(proposals[i])
    /\ \A s \in Sweepers : \A i \in todo[s] : Overdue(proposals[i])
    /\ \A w \in Processes :
          /\ pc[w] = "loadProposal" /\ job[w].op = "expire" => Overdue(proposals[job[w].pid])
          /\ pc[w] = "saveProposal" => DraftInWindow(job[w].draft)

(* Two handlers never engage one marriage, none engages a marriage that has *)
(* got further, and none ends one that has not got there yet.               *)
Engages(w) == pc[w] = "saveMarriage" /\ job[w].op = "accept"
Dissolves(w) == pc[w] = "saveMarriage" /\ job[w].op # "accept"

RegisterInv ==
    /\ \A m \in DOMAIN marriages : marriages[m] \in Register!Row
    /\ \A w \in Processes :
          /\ pc[w] \in {"saveProposal", "createMarriage"} => Loadable(job[w].draft)
          /\ Engages(w) => marriages[job[w].mid].status = "proposed"
          /\ Dissolves(w) => marriages[job[w].mid].status # "proposed"
    /\ \A v, w \in Processes :
          v # w /\ Engages(v) /\ Engages(w) => job[v].mid # job[w].mid

(* A marriage is created and engaged for a proposal that has been settled.  *)
OriginInv ==
    /\ MarriagesComeFromProposals
    /\ \A w \in Processes :
          pc[w] = "createMarriage" \/ Engages(w) =>
              job[w].pid \in DOMAIN proposals /\ proposals[job[w].pid].status # "pending"

(* A handler has written what it is about to publish.                       *)
EventInv ==
    /\ EventsBacked
    /\ \A w \in Processes : pc[w] = "emit" => \A e \in EventsOf(job[w]) : Backed(e)

IInv ==
    /\ TypeInv /\ CooldownInv /\ RepeatInv /\ WindowInv
    /\ RegisterInv /\ OriginInv /\ EventInv
=============================================================================
