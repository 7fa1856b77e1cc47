------------------------------ MODULE MCService ------------------------------
(* Instances of Service for TLC.                                            *)
EXTENDS ServiceInvariant, TLC

CONSTANTS c1, c2

(* One suitor.                                                              *)
OnePair == {<<c1, c2>>}

NoGuests == {<< >>}

WorkerSymmetry == Permutations(Workers)
=============================================================================
