---------------------------- MODULE MCBorosShadow ----------------------------
(* The instances of BorosShadow that TLC checks: one asset of each kind.     *)
EXTENDS BorosShadow

CONSTANTS btc, eth
BothAssets == {btc, eth}
LighterAssets == {btc}
BothMaturities == [a \in BothAssets |-> 2]
=============================================================================
