-------------------------- MODULE ServiceProperties --------------------------
(****************************************************************************)
(* What the two sides of the service are to satisfy together.               *)
(****************************************************************************)
EXTENDS Service

(* Replicas.  What Proposals does to the table marriages is what Ceremonies *)
(* is built on, so that everything shown of Ceremonies holds in the service *)
(* as a whole: deletions and failing acceptances included, no marriage that *)
(* has been read as engaged goes back to "proposed" or changes partners.    *)
(* (AcceptProposal and HandleCharacterDeletion against ScheduleCeremony)    *)
CeremoniesAreServed == C!Spec

(* Replicas.  A ceremony is at the end of a chain of handlers that ran at   *)
(* different times: its two partners are those of a marriage that was       *)
(* engaged, and one of them has proposed to the other in a proposal that is *)
(* no longer open.  (AcceptProposal, ScheduleCeremony)                      *)
CeremoniesComeFromProposals ==
    \A k \in DOMAIN ceremonies :
        /\ marriages[ceremonies[k].marriage].status \in {"engaged", "divorced"}
        /\ \E i \in DOMAIN proposals :
              /\ ceremonies[k].couple = {proposals[i].proposer, proposals[i].target}
              /\ Cardinality(ceremonies[k].couple) = 2
              /\ proposals[i].status # "pending"

----------------------------------------------------------------------------
(* What the documentation says and the code does not do.                    *)

(* A completed ceremony leaves a couple that is married, or was married and *)
(* has divorced since ("Mark ceremony as completed, finalizing the          *)
(* marriage.").  CompleteCeremony saves the ceremony and nothing else.      *)
CompletionMarries ==
    \A k \in DOMAIN ceremonies :
        ceremonies[k].status = "completed" =>
            marriages[ceremonies[k].marriage].status \in {"married", "divorced"}
=============================================================================
