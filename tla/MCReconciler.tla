----------------------------- MODULE MCReconciler -----------------------------
(* Instances of Reconciler for TLC. *)
EXTENDS Reconciler

CONSTANTS s1, t1

OneSymbol == {s1}
OneTrade == {t1}
AllOnOneSymbol == [t \in Trades |-> s1]
AllPolicies == {"adopt", "halt", "flatten"}
=============================================================================
