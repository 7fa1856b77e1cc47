------------------------- MODULE TransactionProperties -------------------------
(****************************************************************************)
(* What TransactionalAcceptance is to satisfy, whatever plain handlers and  *)
(* sweeps do to the same rows in the meantime.                              *)
(****************************************************************************)
EXTENDS TransactionalAcceptance

(* Where a call has written the proposal and not ended.                     *)
Holding == {"createMarriage", "saveMarriage", "publish", "commit"}

(* Every variable keeps its type, and a row is locked by a transaction that *)
(* has written it and has not ended.  (executeInTransaction)                *)
TypeOK ==
    /\ proposals \in [Proposals -> ProposalStatus]
    /\ lapsed \subseteq Proposals
    /\ marriages \subseteq MarriageRow
    /\ published \subseteq Processes
    /\ locked \in [Proposals -> Acceptors \cup {NoOne}]
    /\ pc \in [Processes -> Labels]
    /\ job \in [Processes -> Job]
    /\ \A a \in Acceptors, p \in Proposals :
          locked[p] = a <=> pc[a] \in Holding /\ job[a].of = p

(* The tables show an acceptance as a whole or not at all: beside what      *)
(* plain calls have settled, acceptances too, no accepted proposal is seen  *)
(* without its engagement, no marriage that is only proposed, and nothing   *)
(* of a call that failed at any point.  ("full transactional consistency",  *)
(* AcceptProposalWithTransactionAndEmit)                                    *)
MadeInTransactions == {m \in marriages : m.by \in Acceptors}
Settlers ==
    {r \in Rivals : pc[r] \in {"createMarriage", "saveMarriage", "publish", "settled", "torn"}}
Atomic == INSTANCE AtomicAcceptance WITH
    marriages <- MadeInTransactions,
    settled <- Settlers
AllOrNothing == Atomic!Spec

Engaged(w) ==
    \E m \in marriages : m.by = w /\ m.of = job[w].of /\ m.status = "engaged"

(* Every engagement made in a transaction has been announced, and every     *)
(* announced one, of a plain acceptance too, is in the table when its call  *)
(* has ended, unless a transaction failed while or after it published.      *)
(* (EmitWithResult inside executeInTransaction; AcceptProposalAndEmit)      *)
StoredIsAnnounced ==
    /\ \A m \in MadeInTransactions : m.by \in published
    /\ \A w \in published : pc[w] \in Ended \ {"lost"} => Engaged(w)

(* Fair.  A call that has begun ends, and so does everybody who waits for   *)
(* the row it holds, however it fails.  (executeInTransaction rolls back on *)
(* every error)                                                             *)
NoneWaitsForever ==
    \A w \in Processes : pc[w] # "idle" ~> pc[w] \in Ended

----------------------------------------------------------------------------
(* The inductive invariant behind the theorems: what a call has written,    *)
(* published and committed, by where it is.                                 *)
CallOK(a) ==
    /\ job[a].outcome = "accepted"
    /\ pc[a] \in {"publish", "commit"} => job[a].marriage = "engaged"
    /\ pc[a] \in {"commit", "committed"} => a \in published
    /\ a \in published => pc[a] \in {"commit", "committed", "lost"}
    /\ pc[a] = "committed" => Engaged(a)

RivalOK(r) ==
    /\ pc[r] = "saveMarriage" => \E m \in marriages : m.by = r /\ m.of = job[r].of
    /\ pc[r] = "publish" \/ r \in published => Engaged(r)

IInv ==
    /\ TypeOK
    /\ \A a \in Acceptors : CallOK(a)
    /\ \A r \in Rivals : RivalOK(r)
    /\ \A m \in MadeInTransactions : pc[m.by] = "committed"
=============================================================================
