---------------------------- MODULE MCCarryShadow ----------------------------
(* The instances of CarryShadow that TLC checks.                             *)
EXTENDS CarryShadow, TLC

CONSTANTS p1, p2
TwoPairs == {p1, p2}
OnePair == {p1}
PairSymmetry == Permutations(Pairs)
=============================================================================
