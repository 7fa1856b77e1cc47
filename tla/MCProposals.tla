----------------------------- MODULE MCProposals -----------------------------
(* Instances of Proposals for TLC.                                          *)
EXTENDS SerialInvariant, TLC

CONSTANTS c1, c2, c3

(* Every character may ask for every other one, or for itself.              *)
AllRequests == Characters \X Characters

(* Two suitors of one character.                                            *)
Suitors == {<<c1, c2>>, <<c3, c2>>}

(* One suitor, who may ask again.                                           *)
OnePair == {<<c1, c2>>}

CharacterSymmetry == Permutations(Characters)
WorkerSymmetry == Permutations(Workers)
SweeperSymmetry == Permutations(Sweepers)
CharacterAndWorkerSymmetry == CharacterSymmetry \cup WorkerSymmetry
=============================================================================
