----------------------------- MODULE LeastElement -----------------------------
(***************************************************************************)
(* The least element of a set of naturals, on which the choice of the next    *)
(* episode id and of the next trade of a pass rests.                          *)
(***************************************************************************)
EXTENDS Integers, TLAPS, WellFoundedInduction

Less == {ss \in Nat \X Nat : ss[1] < ss[2]}

LEMMA Minimum ==
    ASSUME NEW S \in SUBSET Nat, S # {}
    PROVE  \E i \in S : \A j \in S : i <= j
<1>1. IsWellFoundedOn(Less, Nat)
  <2> SUFFICES ASSUME NEW f \in [Nat -> Nat], \A n \in Nat : <<f[n+1], f[n]>> \in Less
               PROVE FALSE
    BY DEF IsWellFoundedOn
  <2>1. OpToRel(<, Nat) = Less
    BY DEF OpToRel, Less
  <2> QED BY <2>1, NatLessThanWellFounded DEF IsWellFoundedOn
<1>2. PICK i \in S : \A j \in S : ~ (<<j, i>> \in Less)
  BY <1>1, WFMin
<1>3. ASSUME NEW j \in S, j < i PROVE FALSE
  <2>1. i \in Nat /\ j \in Nat
    OBVIOUS
  <2>2. <<j, i>> \in Nat \X Nat /\ <<j, i>>[1] < <<j, i>>[2]
    BY <1>3, <2>1
  <2> QED BY <1>2, <2>2 DEF Less
<1>4. \A j \in S : i <= j
  <2>1. \A j \in S : j \in Nat /\ i \in Nat
    OBVIOUS
  <2> QED BY <1>3, <2>1
<1> QED BY <1>4
=============================================================================
