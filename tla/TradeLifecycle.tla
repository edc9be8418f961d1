---------------------------- MODULE TradeLifecycle ----------------------------
(***************************************************************************)
(* What the trades table promises about the row of one live order, whatever *)
(* happens to the process, the network and the kill switch: a row moves     *)
(* forward only, recorded fills never shrink, a row with a recorded fill is *)
(* never voided, and a settled row is never touched again.                  *)
(***************************************************************************)
EXTENDS Naturals

CONSTANTS Orders, Full

VARIABLES phase, recorded

rowVars == <<phase, recorded>>

Phases == {"absent", "unknown", "working", "held", "closed", "void"}

TypeOK == /\ phase \in [Orders -> Phases]
          /\ recorded \in [Orders -> 0..Full]

Init == /\ phase = [o \in Orders |-> "absent"]
        /\ recorded = [o \in Orders |-> 0]

Move(o, p, n) == /\ phase' = [phase EXCEPT ![o] = p]
                 /\ recorded' = [recorded EXCEPT ![o] = n]

\* The submission's answer creates the row; "unknown" rows are left to an operator.
Create(o) == /\ phase[o] = "absent"
             /\ \/ Move(o, "working", 0)
                \/ Move(o, "unknown", 0)
                \/ Move(o, "held", Full)

Record(o) == /\ phase[o] = "working"
             /\ \E n \in 1..Full : recorded[o] <= n /\ Move(o, "working", n)

Hold(o) == /\ phase[o] = "working"
           /\ \E n \in 1..Full : recorded[o] <= n /\ Move(o, "held", n)

Void(o) == phase[o] = "working" /\ recorded[o] = 0 /\ Move(o, "void", 0)

Close(o) == phase[o] = "held" /\ Move(o, "closed", recorded[o])

Next == \E o \in Orders : Create(o) \/ Record(o) \/ Hold(o) \/ Void(o) \/ Close(o)

Spec == Init /\ [][Next]_rowVars
=============================================================================
