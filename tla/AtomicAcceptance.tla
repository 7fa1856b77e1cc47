--------------------------- MODULE AtomicAcceptance ---------------------------
(****************************************************************************)
(* What a reader of the tables may see of acceptances made in transactions: *)
(* the outcome of a proposal and the engagement it leads to appear in one   *)
(* step, or neither appears.  Plain calls, Rivals, give a proposal their    *)
(* outcome once each, their marriages apart.  Nothing is said about which   *)
(* outcome prevails: a proposal that has been settled may be settled again. *)
(****************************************************************************)
CONSTANTS Acceptors, Rivals, Proposals, Outcomes

VARIABLES
    proposals,   \* the outcome of each proposal
    marriages,   \* the engagements made in transactions
    settled      \* the plain calls that have settled their proposal

Init ==
    /\ proposals = [p \in Proposals |-> "pending"]
    /\ marriages = {}
    /\ settled = {}

Engagement(a, p) == [by |-> a, of |-> p, status |-> "engaged"]

Accept(a, p) ==
    /\ \A m \in marriages : m.by # a
    /\ proposals' = [proposals EXCEPT ![p] = "accepted"]
    /\ marriages' = marriages \cup {Engagement(a, p)}
    /\ UNCHANGED settled

Settle(r, p, outcome) ==
    /\ r \notin settled
    /\ settled' = settled \cup {r}
    /\ proposals' = [proposals EXCEPT ![p] = outcome]
    /\ UNCHANGED marriages

Next ==
    \E p \in Proposals :
        \/ \E a \in Acceptors : Accept(a, p)
        \/ \E r \in Rivals, outcome \in Outcomes : Settle(r, p, outcome)

Spec == Init /\ [][Next]_<<proposals, marriages, settled>>
=============================================================================
