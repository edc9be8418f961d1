---------------------------- MODULE MCBotProcess -----------------------------
(* The instances of BotProcess that TLC checks.                             *)
EXTENDS BotProcess

CONSTANTS p1, p2, p3
ThreePids == {p1, p2, p3}
=============================================================================
