--------------------------- MODULE SerialInvariant ---------------------------
(****************************************************************************)
(* The inductive invariants behind what Proposals does when there is one    *)
(* handler, or when processes take turns at a row: what a check or a load   *)
(* has found stays true up to the statement that relies on it, because      *)
(* nobody else writes that meanwhile.                                       *)
(****************************************************************************)
EXTENDS ProposalInvariant

(* One handler over all replicas, beside any number of sweepers.            *)
OneHandler == \A v, w \in Workers : v = w

----------------------------------------------------------------------------
(* One handler.  What the checks of Propose have found.                     *)

FoundProposerFree(w) ==
    pc[w] \in {"targetFree", "noneActive", "globalCooldown", "targetCooldown", "insert"}
FoundTargetFree(w) ==
    pc[w] \in {"noneActive", "globalCooldown", "targetCooldown", "insert"}

(* No marriage changes while the one handler is busy with a proposal.       *)
FreeInv ==
    \A w \in Workers :
        /\ FoundProposerFree(w) => Free(job[w].key)
        /\ FoundTargetFree(w) => Free(job[w].target)

(* What is about to be saved is what the command or the sweep asked for.    *)
OutcomeInv ==
    \A w \in Processes : pc[w] = "saveProposal" => job[w].draft.status = Outcome[job[w].op]

(* An open proposal is followed by another one of the same pair only if an  *)
(* earlier one, or itself, had lapsed by then and was still unswept.        *)
FoundLapsed(w) ==
    \A i \in Pending(ProposalsTo(job[w].key, job[w].target)) :
        \E h \in ProposalsTo(job[w].key, job[w].target) :
            /\ h <= i
            /\ proposals[h].status \in {"pending", "expired"}
            /\ Overdue(proposals[h])

LapseInv ==
    /\ \A w \in Workers : Unasked(w) => FoundLapsed(w)
    /\ \A i, k \in DOMAIN proposals :
          /\ i < k /\ SamePair(proposals[i], proposals[k])
          /\ proposals[i].status = "pending"
          => \E h \in 1..i : HadLapsed(h, k)

(* Since the handler has loaded the proposal it answers, nobody has made    *)
(* another one.                                                             *)
DraftInv ==
    \A w \in Workers : pc[w] = "saveProposal" =>
        \A k \in DOMAIN proposals :
            /\ proposals[k].createdAt <= job[w].draft.updatedAt
            /\ job[w].pid < k /\ SamePair(proposals[job[w].pid], proposals[k])
               => \E h \in 1..(job[w].pid - 1) : HadLapsed(h, k)

FoundCooledDown(w) ==
    \A i \in Newest(ProposalsTo(job[w].key, job[w].target)) :
        proposals[i].status = "rejected" => now > proposals[i].cooldownUntil

RejectionInv ==
    /\ \A w \in Workers : pc[w] = "insert" => FoundCooledDown(w)
    /\ RejectionCooldownKept

HandlerInv == FreeInv /\ OutcomeInv /\ LapseInv /\ DraftInv /\ RejectionInv

----------------------------------------------------------------------------
(* Turns.  What is loaded is still so when it is saved, and an outcome      *)
(* stands from then on.                                                     *)
DraftCurrent ==
    \A w \in Processes :
        /\ pc[w] = "saveProposal" => proposals[job[w].pid].status = "pending"
        /\ Owes(w) =>
              /\ job[w].pid \in DOMAIN proposals
              /\ proposals[job[w].pid].status = Outcome[job[w].op]

SerialInv == DraftCurrent /\ AnnouncedOnce /\ EventsMatchRows /\ OneMarriagePerAcceptance

(* Turns.  What the check has found of an expired proposal stays true up to *)
(* the insert.                                                              *)
FoundLapseOver(w) ==
    \A i \in Newest(ProposalsTo(job[w].key, job[w].target)) :
        proposals[i].status = "expired"
        => now > proposals[i].updatedAt + InitialPerTargetCooldown

LapseCooldownInv ==
    /\ \A w \in Workers : pc[w] = "insert" => FoundLapseOver(w)
    /\ LapseCooldownKept
=============================================================================
