----------------------------- MODULE ProposalBook -----------------------------
(****************************************************************************)
(* What the service promises of its proposals when no two processes hold    *)
(* the same one at a time: a book in which proposals are only added, at a   *)
(* global cooldown's distance per proposer, and each is given at most one   *)
(* outcome, "expired" only when it is overdue.                              *)
(****************************************************************************)
EXTENDS Integers, Sequences

CONSTANTS Characters, GlobalCooldown, ProposalExpiry

VARIABLES time, book

Outcomes == {"accepted", "rejected", "cancelled", "expired"}

Entries == [from : Characters, to : Characters, at : Nat, outcome : Outcomes \cup {"open"}]

Init == time = 0 /\ book = << >>

Pass == time' = time + 1 /\ UNCHANGED book

(* A character writes a new open entry, after its cooldown.                 *)
Offer(c, d) ==
    /\ \A i \in DOMAIN book :
          book[i].from = c => time > book[i].at + GlobalCooldown
    /\ book' = Append(book, [from |-> c, to |-> d, at |-> time, outcome |-> "open"])
    /\ UNCHANGED time

(* An open entry is given an outcome that is never revised, "expired" only  *)
(* once the entry is overdue.                                               *)
Settle(i, o) ==
    /\ book[i].outcome = "open"
    /\ o = "expired" => time > book[i].at + ProposalExpiry
    /\ book' = [book EXCEPT ![i].outcome = o]
    /\ UNCHANGED time

Next ==
    \/ Pass
    \/ \E c, d \in Characters : Offer(c, d)
    \/ \E i \in DOMAIN book, o \in Outcomes : Settle(i, o)

Spec == Init /\ [][Next]_<<time, book>>
=============================================================================
