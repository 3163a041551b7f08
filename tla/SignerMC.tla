------------------------------ MODULE SignerMC ------------------------------
(***************************************************************************)
(* Instances of Signer for TLC: two cards with different PINs.             *)
(***************************************************************************)
EXTENDS Signer, TLC

CONSTANTS s1, s2, p1, p2

TwoPINs == [s \in Serials |-> IF s = s1 THEN p1 ELSE p2]

WorkerSymmetry == Permutations(Workers)
=============================================================================
