---------------------------- MODULE MCOrderManager ----------------------------
(* Instances of OrderManager for TLC. *)
EXTENDS OrderManager

CONSTANT s1

OneSymbol == {s1}
BothOnOne == [o \in Orders |-> s1]
=============================================================================
