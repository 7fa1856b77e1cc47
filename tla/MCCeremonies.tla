----------------------------- MODULE MCCeremonies -----------------------------
(* Instances of Ceremonies for TLC.                                         *)
EXTENDS CeremonyInvariant, TLC

CONSTANTS c1, c2, c3, c4

(* One couple, c1 and c2; the other characters can be guests.               *)
OneCouple == {<<c1, c2>>}

(* A list in order, one with a partner in it, one with a guest twice, and   *)
(* one that is too long.                                                    *)
SomeGuests == {<<c3>>, <<c3, c1>>, <<c3, c3>>, <<c3, c4, c3>>}

(* The same without the long one.                                           *)
FewGuests == {<<c3>>, <<c3, c1>>}

(* Nobody mistakes a partner for a guest, but somebody is invited.          *)
GoodGuests == {<<c3>>}

WorkerSymmetry == Permutations(Workers)
=============================================================================
