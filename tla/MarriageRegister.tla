--------------------------- MODULE MarriageRegister ---------------------------
(****************************************************************************)
(* What the rest of the service may rely on about the table marriages: a    *)
(* row appears for one of the couples there can be, is engaged once, ends   *)
(* once, and keeps its partners.  No row ever becomes "married": nothing in *)
(* the service calls Marriage.Marry.                                        *)
(*                                                                          *)
(* Proposals implements the register, Ceremonies is built on it.            *)
(****************************************************************************)
EXTENDS Integers, Sequences

CONSTANTS
    Characters,  \* the characters of one tenant
    Couples      \* the <<partner, partner>> pairs that may marry

VARIABLE marriages

Row == [partner1 : Characters, partner2 : Characters, status : {"proposed", "engaged", "divorced"}]

Partners(m) == {m.partner1, m.partner2}

Move(m, from, to) ==
    /\ marriages[m].status = from
    /\ marriages' = [marriages EXCEPT ![m].status = to]

Init == marriages = << >>

Propose ==
    \E c \in Couples :
        marriages' = Append(marriages,
            [partner1 |-> c[1], partner2 |-> c[2], status |-> "proposed"])

Engage == \E m \in DOMAIN marriages : Move(m, "proposed", "engaged")

Divorce == \E m \in DOMAIN marriages : Move(m, "engaged", "divorced")

Next == Propose \/ Engage \/ Divorce

Spec == Init /\ [][Next]_marriages
=============================================================================
