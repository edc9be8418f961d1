--------------------------- MODULE Reconciler_proofs ---------------------------
(***************************************************************************)
(* Proofs about Reconciler for any symbols, trades and policies.            *)
(***************************************************************************)
EXTENDS Reconciler, TLAPS

(***************************************************************************)
(* Types.                                                                   *)
(***************************************************************************)
LEMMA NoCallIsCall == NoCall \in Call
  <1>1. (CHOOSE s \in Symbols : TRUE) \in Symbols
    BY SymbolsAssumption
  <1> QED
    BY <1>1 DEF NoCall, Call, MaybeTrade

LEMMA FlatIsPosition == Flat \in Position
  BY DEF Flat, Position, MaybeTrade

LEMMA InitTypes == ASSUME Init PROVE TypeOK
  <1>1. Flat \in Position /\ NoCall \in Call /\ NoClose \in Close
    BY NoCallIsCall, FlatIsPosition DEF NoClose, Close, MaybeTrade
  <1>2. ExchangeTypes /\ RowTypes /\ BookTypes
    BY <1>1 DEF Init, ExchangeTypes, RowTypes, BookTypes, Statuses
  <1>3. ExecTypes /\ PassTypes
    BY <1>1 DEF Init, ExecTypes, PassTypes, MaybeTrade, Suspended, Outcomes
  <1>4. failures = 0 /\ drift = {} /\ lifted = {} /\ policy \in Policies
    BY DEF Init
  <1>5. halted \in BOOLEAN /\ stale \in BOOLEAN
    BY DEF Init
  <1>6. HealthTypes
    BY <1>4, <1>5 DEF HealthTypes, FailureLimit
  <1> QED
    BY <1>2, <1>3, <1>4, <1>6 DEF TypeOK

\* What the helpers of the actions leave well typed.
LEMMA CreditTypes ==
  ASSUME BookTypes, NEW s \in Symbols, NEW n \in Nat, NEW t \in MaybeTrade, NEW b \in Nat,
         Credit(s, n, t, b)
  PROVE  BookTypes'
  <1>1. book[s] \in Position
    BY DEF BookTypes
  <1>2. owed' \in Int
    BY DEF BookTypes, Credit
  <1>3. CASE Held(s)
    <2>1. [book[s] EXCEPT !.lots = book[s].lots + n] \in Position
      BY <1>1 DEF Position
    <2>2. book' = [book EXCEPT ![s] = [book[s] EXCEPT !.lots = book[s].lots + n]]
      BY <1>3 DEF Credit, BookTypes
    <2> QED
      BY <1>2, <2>1, <2>2 DEF BookTypes
  <1>4. CASE ~Held(s)
    <2>1. [trade |-> t, lots |-> n, base |-> b] \in Position
      BY DEF Position
    <2>2. book' = [book EXCEPT ![s] = [trade |-> t, lots |-> n, base |-> b]]
      BY <1>4 DEF Credit
    <2> QED
      BY <1>2, <2>1, <2>2 DEF BookTypes
  <1> QED
    BY <1>3, <1>4

LEMMA RefundTypes == ASSUME BookTypes, NEW s \in Symbols, Refund(s) PROVE BookTypes'
  <1>1. book[s].lots \in Nat
    BY DEF BookTypes, Position
  <1> QED
    BY <1>1, FlatIsPosition DEF BookTypes, Refund

LEMMA SetRowTypes ==
  ASSUME RowTypes, NEW t \in MaybeTrade, NEW status \in Statuses, SetRow(t, status),
         UNCHANGED base
  PROVE  RowTypes'
  BY DEF RowTypes, SetRow

LEMMA ExClosesTypes ==
  ASSUME ExchangeTypes, NEW s \in Symbols, NEW n \in Nat, ExCloses(s, n)
  PROVE  ExchangeTypes'
  <1> DEFINE m == IF n < exPos[s] THEN n ELSE exPos[s]
  <1>1. exPos[s] \in Nat /\ closed[s] \in Nat
    BY DEF ExchangeTypes
  <1>2. exPos[s] - m \in Nat /\ closed[s] + m \in Nat
    BY <1>1
  <1>3. /\ exPos' = [exPos EXCEPT ![s] = exPos[s] - m]
        /\ closed' = [closed EXCEPT ![s] = closed[s] + m]
        /\ filled' = filled
    BY DEF ExCloses
  <1> HIDE DEF m
  <1> QED
    BY <1>2, <1>3 DEF ExchangeTypes

LEMMA IdleTypes == ASSUME Idle PROVE PassTypes'
  BY NoCallIsCall, FlatIsPosition DEF Idle, PassTypes, Suspended, Outcomes

LEMMA RecordFailureTypes ==
  ASSUME HealthTypes, RecordFailure, UNCHANGED <<drift, stale, lifted>>
  PROVE  HealthTypes'
  BY DEF HealthTypes, RecordFailure, FailureLimit

LEMMA ExchangeStepTypes == ASSUME TypeOK, Exchange PROVE TypeOK'
  <1> USE DEF TypeOK
  <1>1. ASSUME NEW t \in Trades, ExFills(t) PROVE TypeOK'
    <2>1. exPos[SymOf[t]] \in Nat /\ SymOf[t] \in Symbols
      BY SymOfAssumption DEF ExchangeTypes
    <2>2. ExchangeTypes'
      BY <1>1, <2>1 DEF ExFills, ExchangeTypes
    <2> QED
      BY <1>1, <2>2 DEF ExFills, RowTypes, BookTypes, ExecTypes, PassTypes, HealthTypes,
         rowVars, bookVars, execVars, passVars, walkVars, healthVars
  <1>2. ASSUME NEW s \in Symbols, ExTriggers(s) PROVE TypeOK'
    <2>1. exPos[s] \in Nat
      BY DEF ExchangeTypes
    <2>2. ExchangeTypes'
      BY <1>2, <2>1, ExClosesTypes DEF ExTriggers
    <2> QED
      BY <1>2, <2>2 DEF ExTriggers, RowTypes, BookTypes, ExecTypes, PassTypes, HealthTypes,
         rowVars, bookVars, execVars, passVars, walkVars, healthVars
  <1>3. ASSUME NEW s \in Symbols, ExExecutesClose(s) PROVE TypeOK'
    <2>1. exiting[s] \in Close
      BY DEF ExecTypes
    <2>2. exiting[s].lots \in Nat /\ [exiting[s] EXCEPT !.at = "executed"] \in Close
      BY <2>1 DEF Close
    <2>3. ExchangeTypes'
      BY <1>3, <2>2, ExClosesTypes DEF ExExecutesClose
    <2>4. ExecTypes'
      BY <1>3, <2>2 DEF ExExecutesClose, ExecTypes
    <2> QED
      BY <1>3, <2>3, <2>4 DEF ExExecutesClose, RowTypes, BookTypes, PassTypes, HealthTypes,
         rowVars, bookVars, passVars, walkVars, healthVars
  <1>4. ASSUME NEW s \in Symbols, ExRefusesClose(s) PROVE TypeOK'
    <2>1. exiting[s] \in Close
      BY DEF ExecTypes
    <2>2. [exiting[s] EXCEPT !.at = "refused"] \in Close
      BY <2>1 DEF Close
    <2>3. ExecTypes'
      BY <1>4, <2>2 DEF ExRefusesClose, ExecTypes
    <2> QED
      BY <1>4, <2>3 DEF ExRefusesClose, ExchangeTypes, RowTypes, BookTypes, PassTypes,
         HealthTypes, exVars, rowVars, bookVars, passVars, walkVars, healthVars
  <1> QED
    BY <1>1, <1>2, <1>3, <1>4 DEF Exchange

LEMMA TradingStepTypes == ASSUME TypeOK, Trading PROVE TypeOK'
  <1> USE DEF TypeOK
  <1>0. \A t \in Trades : SymOf[t] \in Symbols
    BY SymOfAssumption
  <1>1. ASSUME NEW t \in Trades, NEW status \in {"working", "unknown"}, Enter(t, status)
        PROVE  TypeOK'
    <2>1. closed[SymOf[t]] \in Nat
      BY <1>0 DEF ExchangeTypes
    <2>2. RowTypes'
      BY <1>1, <2>1 DEF Enter, RowTypes, Statuses
    <2>3. ExecTypes'
      BY <1>0, <1>1 DEF Enter, ExecTypes
    <2> QED
      BY <1>1, <2>2, <2>3 DEF Enter, ExchangeTypes, BookTypes, PassTypes, HealthTypes,
         exVars, bookVars, passVars, walkVars, healthVars
  <1>2. ASSUME NEW t \in Trades, Lapses(t) PROVE TypeOK'
    <2>1. RowTypes'
      BY <1>2 DEF Lapses, RowTypes, Statuses
    <2> QED
      BY <1>2, <2>1 DEF Lapses, ExchangeTypes, BookTypes, ExecTypes, PassTypes, HealthTypes,
         exVars, bookVars, execVars, passVars, walkVars, healthVars
  <1>3. ASSUME NEW t \in Trades, OmsCredits(t) PROVE TypeOK'
    <2>1. RowTypes'
      BY <1>3 DEF OmsCredits, RowTypes, Statuses
    <2>2. base[t] \in Nat /\ t \in MaybeTrade
      BY DEF RowTypes, MaybeTrade
    <2>3. Credit(SymOf[t], 1, t, base[t])
      BY <1>3 DEF OmsCredits
    <2>4. BookTypes'
      BY <1>0, <2>2, <2>3, CreditTypes
    <2>5. ExecTypes'
      BY <1>0, <1>3, <2>2 DEF OmsCredits, ExecTypes
    <2> QED
      BY <1>3, <2>1, <2>4, <2>5 DEF OmsCredits, ExchangeTypes, PassTypes, HealthTypes,
         exVars, passVars, walkVars, healthVars
  <1>4. ASSUME NEW s \in Symbols, ExitWithoutTrade(s) PROVE TypeOK'
    <2>1. BookTypes'
      BY <1>4, RefundTypes DEF ExitWithoutTrade
    <2> QED
      BY <1>4, <2>1 DEF ExitWithoutTrade, ExchangeTypes, RowTypes, ExecTypes, PassTypes,
         HealthTypes, exVars, rowVars, execVars, passVars, walkVars, healthVars
  <1>5. ASSUME NEW s \in Symbols, ExitSubmits(s) PROVE TypeOK'
    <2>1. openTrade[s] \in MaybeTrade /\ book[s].lots \in Nat
      BY DEF ExecTypes, BookTypes, Position
    <2>2. [trade |-> openTrade[s], lots |-> book[s].lots, at |-> "sent"] \in Close
      BY <2>1 DEF Close
    <2>3. ExecTypes'
      BY <1>5, <2>2 DEF ExitSubmits, ExecTypes, Forget, MaybeTrade
    <2> QED
      BY <1>5, <2>3 DEF ExitSubmits, ExchangeTypes, RowTypes, BookTypes, PassTypes,
         HealthTypes, exVars, rowVars, bookVars, passVars, walkVars, healthVars
  <1>6. NoClose \in Close
    BY DEF NoClose, Close, MaybeTrade
  <1>7. ASSUME NEW s \in Symbols, ExitEnds(s) PROVE TypeOK'
    <2>1. exiting[s].trade \in MaybeTrade
      BY DEF ExecTypes, Close
    <2>2. RowTypes'
      BY <1>7, <2>1, SetRowTypes DEF ExitEnds, Statuses
    <2>3. BookTypes'
      BY <1>7, RefundTypes DEF ExitEnds
    <2>4. ExecTypes'
      BY <1>6, <1>7 DEF ExitEnds, ExecTypes
    <2> QED
      BY <1>7, <2>2, <2>3, <2>4 DEF ExitEnds, ExchangeTypes, PassTypes, HealthTypes,
         exVars, passVars, walkVars, healthVars
  <1>8. ASSUME NEW s \in Symbols, ExitFails(s) PROVE TypeOK'
    <2>1. exiting[s].trade \in MaybeTrade
      BY DEF ExecTypes, Close
    <2>2. ExecTypes'
      BY <1>6, <1>8, <2>1 DEF ExitFails, ExecTypes
    <2> QED
      BY <1>8, <2>2 DEF ExitFails, ExchangeTypes, RowTypes, BookTypes, PassTypes,
         HealthTypes, exVars, rowVars, bookVars, passVars, walkVars, healthVars
  <1> QED
    BY <1>1, <1>2, <1>3, <1>4, <1>5, <1>7, <1>8 DEF Trading

\* The steps of a pass that move through its own locals only.
LEMMA WalkStepTypes ==
  ASSUME TypeOK,
         \/ PassFails \/ ReadAccount \/ ReadOrders \/ StartWalk \/ FillsMatch \/ Protected
         \/ \E t \in Trades : Retry(t)
         \/ \E s \in Symbols, native \in BOOLEAN : OrphanLocal(s, native)
         \/ \E s \in Symbols : HaltOnStray(s) \/ FlattenStray(s)
  PROVE  TypeOK'
  <1> USE DEF TypeOK
  <1>1. CASE PassFails
    <2>1. PassTypes'
      BY <1>1, IdleTypes DEF PassFails
    <2>2. HealthTypes'
      BY <1>1, RecordFailureTypes DEF PassFails
    <2> QED
      BY <1>1, <2>1, <2>2 DEF PassFails, ExchangeTypes, RowTypes, BookTypes, ExecTypes,
         exVars, rowVars, bookVars, execVars
  <1>2. ASSUME UNCHANGED <<exVars, rowVars, bookVars, execVars, policy>>,
               PassTypes', HealthTypes'
        PROVE  TypeOK'
    BY <1>2 DEF ExchangeTypes, RowTypes, BookTypes, ExecTypes, exVars, rowVars, bookVars,
       execVars
  <1>3. CASE ReadAccount
    <2>1. PassTypes'
      BY <1>3 DEF ReadAccount, PassTypes, ExchangeTypes, Suspended
    <2> QED
      BY <1>2, <1>3, <2>1 DEF ReadAccount, HealthTypes, healthVars
  <1>4. CASE ReadOrders
    <2>1. PassTypes'
      BY <1>4 DEF ReadOrders, PassTypes
    <2> QED
      BY <1>2, <1>4, <2>1 DEF ReadOrders, HealthTypes, healthVars
  <1>5. CASE StartWalk
    <2>1. PassTypes'
      BY <1>5 DEF StartWalk, PassTypes, BookTypes
    <2> QED
      BY <1>2, <1>5, <2>1 DEF StartWalk, HealthTypes, healthVars
  <1>6. CASE FillsMatch
    <2>1. PassTypes'
      BY <1>6 DEF FillsMatch, PassTypes, walkVars, Suspended
    <2> QED
      BY <1>2, <1>6, <2>1 DEF FillsMatch, HealthTypes, healthVars
  <1>7. CASE Protected
    <2>1. PassTypes'
      BY <1>7 DEF Protected, PassTypes, walkVars, Suspended
    <2> QED
      BY <1>2, <1>7, <2>1 DEF Protected, HealthTypes, healthVars
  <1>8. ASSUME NEW t \in Trades, Retry(t) PROVE TypeOK'
    <2>1. SymOf[t] \in Symbols /\ base[t] \in Nat
      BY SymOfAssumption DEF RowTypes
    <2>2. [trade |-> t, sym |-> SymOf[t], lots |-> 1, base |-> base[t],
           native |-> TRUE, retry |-> TRUE] \in Call
      BY <2>1 DEF Call, MaybeTrade
    <2>3. cur' \in Call /\ pc' \in Suspended \cup {"retry", "walk"}
      BY <1>8, <2>2 DEF Retry, PassTypes, Suspended
    <2>4. PassTypes'
      BY <1>8, <2>3 DEF Retry, PassTypes
    <2> QED
      BY <1>2, <1>8, <2>4 DEF Retry, HealthTypes, healthVars
  <1>9. ASSUME NEW s \in Symbols, NEW native \in BOOLEAN, OrphanLocal(s, native) PROVE TypeOK'
    <2>1. local[s] \in Position
      BY DEF PassTypes
    <2>2. [trade |-> local[s].trade, sym |-> s, lots |-> local[s].lots,
           base |-> local[s].base, native |-> native, retry |-> FALSE] \in Call
      BY <2>1 DEF Call, Position
    <2>3. cur' \in Call /\ pc' \in Suspended \cup {"retry", "walk"}
      BY <1>9, <2>2 DEF OrphanLocal, PassTypes, Suspended
    <2>4. PassTypes'
      BY <1>9, <2>3 DEF OrphanLocal, PassTypes
    <2> QED
      BY <1>2, <1>9, <2>4 DEF OrphanLocal, HealthTypes, healthVars
  <1>10. ASSUME NEW s \in Symbols, HaltOnStray(s) PROVE TypeOK'
    <2>1. PassTypes'
      BY <1>10 DEF HaltOnStray, Handles, PassTypes
    <2>2. HealthTypes'
      BY <1>10 DEF HaltOnStray, HealthTypes
    <2> QED
      BY <1>2, <1>10, <2>1, <2>2 DEF HaltOnStray
  <1>11. ASSUME NEW s \in Symbols, FlattenStray(s) PROVE TypeOK'
    <2>1. seen[s] \in Nat
      BY DEF PassTypes
    <2>2. [NoCall EXCEPT !.sym = s, !.lots = seen[s]] \in Call
      BY <2>1, NoCallIsCall DEF Call
    <2>3. PassTypes'
      BY <1>11, <2>2 DEF FlattenStray, Handles, PassTypes, Suspended
    <2> QED
      BY <1>2, <1>11, <2>3 DEF FlattenStray, HealthTypes, healthVars
  <1> QED
    BY <1>1, <1>3, <1>4, <1>5, <1>6, <1>7, <1>8, <1>9, <1>10, <1>11

\* The steps that repair the row, the book or the account.
LEMMA RepairStepTypes ==
  ASSUME TypeOK,
         \/ CloseMatched \/ (\E liquidated \in BOOLEAN : CloseReturns(liquidated))
         \/ StillPending \/ CloseUnknown \/ DropPhantom \/ PhantomCancelled
         \/ \E s \in Symbols : Adopt(s)
         \/ \E n \in 0 .. cur.lots, ok \in BOOLEAN : FlattenEnds(n, ok)
         \/ PassEnds
  PROVE  TypeOK'
  <1> USE DEF TypeOK
  <1>0. /\ cur.trade \in MaybeTrade /\ cur.sym \in Symbols /\ cur.lots \in Nat
        /\ cur.retry \in BOOLEAN
    BY DEF PassTypes, Call
  <1>1. CASE CloseMatched
    <2>1. RowTypes'
      BY <1>0, <1>1, SetRowTypes DEF CloseMatched, Statuses
    <2>2. BookTypes'
      BY <1>0, <1>1, RefundTypes DEF CloseMatched
    <2>3. ExecTypes'
      BY <1>0, <1>1 DEF CloseMatched, Forget, ExecTypes, MaybeTrade
    <2>4. PassTypes'
      BY <1>1 DEF CloseMatched, PassTypes, walkVars, Suspended
    <2> QED
      BY <1>1, <2>1, <2>2, <2>3, <2>4 DEF CloseMatched, ExchangeTypes, HealthTypes,
         exVars, healthVars
  <1>2. ASSUME NEW liquidated \in BOOLEAN, CloseReturns(liquidated) PROVE TypeOK'
    <2>1. PassTypes'
      BY <1>2, NoCallIsCall DEF CloseReturns, PassTypes, walkVars
    <2>2. failures' = failures /\ stale' = stale
      BY <1>2 DEF CloseReturns
    <2>3. halted' \in BOOLEAN /\ drift' \subseteq Symbols /\ lifted' \subseteq Trades
      BY <1>2 DEF CloseReturns, HealthTypes
    <2>4. HealthTypes'
      BY <2>2, <2>3 DEF HealthTypes
    <2> QED
      BY <1>2, <2>1, <2>4 DEF CloseReturns, ExchangeTypes, RowTypes, BookTypes, ExecTypes,
         exVars, rowVars, bookVars, execVars
  <1>3. CASE StillPending
    <2>1. RowTypes'
      BY <1>0, <1>3, SetRowTypes DEF StillPending, Statuses
    <2>2. PassTypes'
      BY <1>3, NoCallIsCall DEF StillPending, PassTypes, walkVars
    <2> QED
      BY <1>3, <2>1, <2>2 DEF StillPending, ExchangeTypes, BookTypes, ExecTypes, HealthTypes,
         exVars, bookVars, execVars, healthVars
  <1>4. CASE CloseUnknown
    <2>1. RowTypes'
      BY <1>0, <1>4, SetRowTypes DEF CloseUnknown, Statuses
    <2>2. BookTypes'
      BY <1>0, <1>4, FlatIsPosition DEF CloseUnknown, Suspend, BookTypes
    <2>3. ExecTypes'
      BY <1>0, <1>4 DEF CloseUnknown, Forget, ExecTypes, MaybeTrade
    <2>4. PassTypes'
      BY <1>4, NoCallIsCall DEF CloseUnknown, PassTypes, walkVars
    <2>5. HealthTypes'
      BY <1>4 DEF CloseUnknown, HealthTypes
    <2> QED
      BY <1>4, <2>1, <2>2, <2>3, <2>4, <2>5 DEF CloseUnknown, ExchangeTypes, exVars
  <1>5. CASE DropPhantom
    <2>1. BookTypes'
      BY <1>0, <1>5, RefundTypes DEF DropPhantom
    <2>2. ExecTypes'
      BY <1>0, <1>5 DEF DropPhantom, Forget, ExecTypes, MaybeTrade
    <2>3. PassTypes'
      BY <1>5 DEF DropPhantom, PassTypes, walkVars, Suspended
    <2> QED
      BY <1>5, <2>1, <2>2, <2>3 DEF DropPhantom, ExchangeTypes, RowTypes, HealthTypes,
         exVars, rowVars, healthVars
  <1>6. CASE PhantomCancelled
    <2>1. RowTypes'
      BY <1>0, <1>6, SetRowTypes DEF PhantomCancelled, Statuses
    <2>2. PassTypes'
      BY <1>6, NoCallIsCall DEF PhantomCancelled, PassTypes, walkVars
    <2> QED
      BY <1>6, <2>1, <2>2 DEF PhantomCancelled, ExchangeTypes, BookTypes, ExecTypes,
         HealthTypes, exVars, bookVars, execVars, healthVars
  <1>7. ASSUME NEW s \in Symbols, Adopt(s) PROVE TypeOK'
    <2>1. seen[s] \in Nat /\ closed[s] \in Nat
      BY DEF PassTypes, ExchangeTypes
    <2>2. PICK t \in MaybeTrade : Credit(s, seen[s], t, closed[s])
      BY <1>7 DEF Adopt, OpenRows, MaybeTrade
    <2>3. BookTypes'
      BY <2>1, <2>2, CreditTypes
    <2>4. PassTypes'
      BY <1>7 DEF Adopt, Handles, PassTypes, Suspended, Outcomes
    <2> QED
      BY <1>7, <2>3, <2>4 DEF Adopt, ExchangeTypes, RowTypes, ExecTypes, HealthTypes,
         exVars, rowVars, execVars, healthVars
  <1>8. ASSUME NEW n \in 0 .. cur.lots, NEW ok \in BOOLEAN, FlattenEnds(n, ok)
        PROVE  TypeOK'
    <2>1. ExchangeTypes'
      <3>1. n \in Nat
        BY <1>0
      <3> QED
        BY <1>0, <1>8, <3>1, ExClosesTypes DEF FlattenEnds
    <2>2. errors' \in BOOLEAN /\ halted' \in BOOLEAN
      BY <1>8 DEF FlattenEnds, PassTypes, HealthTypes
    <2>5. outcome' \in [Symbols -> Outcomes]
      BY <1>8 DEF FlattenEnds, PassTypes, Outcomes
    <2>3. PassTypes'
      BY <1>8, <2>2, <2>5, NoCallIsCall DEF FlattenEnds, PassTypes
    <2>4. HealthTypes'
      BY <1>8, <2>2 DEF FlattenEnds, HealthTypes
    <2> QED
      BY <1>8, <2>1, <2>3, <2>4 DEF FlattenEnds, RowTypes, BookTypes, ExecTypes,
         rowVars, bookVars, execVars
  <1>9. CASE PassEnds
    <2>1. PassTypes'
      BY <1>9, IdleTypes DEF PassEnds
    <2>2. ExecTypes'
      BY <1>9 DEF PassEnds, ExecTypes
    <2>3. drift' \subseteq Symbols
      BY <1>9 DEF PassEnds, HealthTypes, Mismatches
    <2>4. failures' \in 0..FailureLimit
      BY <1>9 DEF PassEnds, HealthTypes, FailureLimit
    <2>5. halted' \in BOOLEAN /\ stale' \in BOOLEAN /\ lifted' \subseteq Trades
      BY <1>9 DEF PassEnds, HealthTypes
    <2>6. HealthTypes'
      BY <2>3, <2>4, <2>5 DEF HealthTypes
    <2> QED
      BY <1>9, <2>1, <2>2, <2>6 DEF PassEnds, ExchangeTypes, RowTypes, BookTypes,
         exVars, rowVars, bookVars
  <1> QED
    BY <1>1, <1>2, <1>3, <1>4, <1>5, <1>6, <1>7, <1>8, <1>9

LEMMA TypesKept == ASSUME TypeOK, [Next]_vars PROVE TypeOK'
  <1>1. CASE UNCHANGED vars
    BY <1>1 DEF TypeOK, ExchangeTypes, RowTypes, BookTypes, ExecTypes, PassTypes, HealthTypes,
       vars, exVars, rowVars, bookVars, execVars, passVars, walkVars, healthVars
  <1>2. CASE Exchange
    BY <1>2, ExchangeStepTypes
  <1>3. CASE Trading
    BY <1>3, TradingStepTypes
  <1>4. CASE Pass
    BY <1>4, WalkStepTypes, RepairStepTypes DEF Pass
  <1>5. CASE Ages
    <2>1. HealthTypes'
      BY <1>5 DEF Ages, TypeOK, HealthTypes
    <2> QED
      BY <1>5, <2>1 DEF Ages, TypeOK, ExchangeTypes, RowTypes, BookTypes, ExecTypes, PassTypes,
         exVars, rowVars, bookVars, execVars, passVars, walkVars
  <1> QED
    BY <1>1, <1>2, <1>3, <1>4, <1>5 DEF Next

\* Symbols hold lots, rows have one of seven statuses, a pass is at one of its awaits:
\* TypeOK holds in every state, for any symbols, trades and policies.
THEOREM TypeCorrect == Spec => []TypeOK
  <1>1. Init => TypeOK
    BY InitTypes
  <1>2. TypeOK /\ [Next]_vars => TypeOK'
    BY TypesKept
  <1> QED
    BY <1>1, <1>2, PTL DEF Spec


(***************************************************************************)
(* A row that waits for the fill tape.                                      *)
(***************************************************************************)
LEMMA InitOwned == ASSUME Init PROVE RowsOwned
  <1>1. /\ todo = {} /\ orphans = {} /\ pc = "idle"
        /\ cur.trade = NoTrade
    BY DEF Init, NoCall
  <1>2. \A s \in Symbols : /\ book[s].trade = NoTrade /\ openTrade[s] = NoTrade
                           /\ exiting[s].trade = NoTrade
    BY DEF Init, Flat, NoClose
  <1>3. BookNamesOpen /\ ExitsOfSymbol
    BY <1>2, NoTradeAssumption DEF BookNamesOpen, ExitsOfSymbol
  <1>4. TodoWaits /\ OrphansOpen
    BY <1>1 DEF TodoWaits, OrphansOpen
  <1>5. CallOfRow
    BY <1>1, NoTradeAssumption DEF CallOfRow
  <1> QED
    BY <1>3, <1>4, <1>5 DEF RowsOwned

\* What the parts of RowsOwned depend on.
LEMMA BookKept ==
  ASSUME BookNamesOpen, UNCHANGED book,
         \A t \in Trades : row[t] = "open" => row'[t] = "open"
  PROVE  BookNamesOpen'
  BY DEF BookNamesOpen

LEMMA ExitsKept ==
  ASSUME ExitsOfSymbol, UNCHANGED <<openTrade, exiting>> PROVE ExitsOfSymbol'
  BY DEF ExitsOfSymbol

\* A step outside the pass: rows that wait or are open may only be closed.
LEMMA PassRowsKept ==
  ASSUME TodoWaits, OrphansOpen, CallOfRow, UNCHANGED passVars, TypeOK,
         \A t \in Trades : /\ row[t] \in {"pending", "closed"} => row'[t] \in {"pending", "closed"}
                           /\ row[t] \in {"open", "closed"} => row'[t] \in {"open", "closed"},
         pc = "phantom" /\ cur.trade \in Trades => book'[cur.sym].trade # cur.trade
  PROVE  TodoWaits' /\ OrphansOpen' /\ CallOfRow'
  <1>1. /\ pc' = pc /\ cur' = cur /\ local' = local /\ todo' = todo /\ orphans' = orphans
    BY DEF passVars, walkVars
  <1>2. TodoWaits'
    BY <1>1 DEF TodoWaits, TypeOK, PassTypes
  <1>3. OrphansOpen'
    BY <1>1 DEF OrphansOpen
  <1>4. CallOfRow'
    BY <1>1 DEF CallOfRow
  <1> QED
    BY <1>2, <1>3, <1>4

LEMMA RowsSame ==
  ASSUME RowsOwned, TypeOK, UNCHANGED <<row, book, openTrade, exiting, passVars>>
  PROVE  RowsOwned'
  <1>1. BookNamesOpen' /\ ExitsOfSymbol'
    BY BookKept, ExitsKept DEF RowsOwned
  <1>2. TodoWaits' /\ OrphansOpen' /\ CallOfRow'
    BY PassRowsKept DEF RowsOwned, CallOfRow
  <1> QED
    BY <1>1, <1>2 DEF RowsOwned

LEMMA ExchangeStepOwned == ASSUME RowsOwned, TypeOK, Exchange PROVE RowsOwned'
  <1>1. ASSUME NEW t \in Trades, ExFills(t) PROVE RowsOwned'
    BY <1>1, RowsSame DEF ExFills, rowVars, bookVars, execVars
  <1>2. ASSUME NEW s \in Symbols, ExTriggers(s) PROVE RowsOwned'
    BY <1>2, RowsSame DEF ExTriggers, rowVars, bookVars, execVars
  <1>3. ASSUME NEW s \in Symbols, NEW e \in Close, exiting' = [exiting EXCEPT ![s] = e],
               e.trade = exiting[s].trade, UNCHANGED <<row, book, openTrade, passVars>>
        PROVE  RowsOwned'
    <2>1. \A r \in Symbols : exiting'[r].trade = exiting[r].trade
      BY <1>3 DEF TypeOK, ExecTypes
    <2>2. ExitsOfSymbol'
      BY <1>3, <2>1 DEF RowsOwned, ExitsOfSymbol
    <2>3. BookNamesOpen'
      BY <1>3, BookKept DEF RowsOwned
    <2>4. TodoWaits' /\ OrphansOpen' /\ CallOfRow'
      BY <1>3, PassRowsKept DEF RowsOwned, CallOfRow
    <2> QED
      BY <2>2, <2>3, <2>4 DEF RowsOwned
  <1>4. ASSUME NEW s \in Symbols, ExExecutesClose(s) PROVE RowsOwned'
    <2>1. exiting[s] \in Close
      BY DEF TypeOK, ExecTypes
    <2> DEFINE e == [exiting[s] EXCEPT !.at = "executed"]
    <2>2. e \in Close /\ e.trade = exiting[s].trade
      BY <2>1 DEF Close
    <2>3. exiting' = [exiting EXCEPT ![s] = e]
      BY <1>4 DEF ExExecutesClose
    <2>4. UNCHANGED <<row, book, openTrade, passVars>>
      BY <1>4 DEF ExExecutesClose, rowVars, bookVars
    <2> HIDE DEF e
    <2> QED
      BY <1>3, <2>2, <2>3, <2>4
  <1>5. ASSUME NEW s \in Symbols, ExRefusesClose(s) PROVE RowsOwned'
    <2>1. exiting[s] \in Close
      BY DEF TypeOK, ExecTypes
    <2> DEFINE e == [exiting[s] EXCEPT !.at = "refused"]
    <2>2. e \in Close /\ e.trade = exiting[s].trade
      BY <2>1 DEF Close
    <2>3. exiting' = [exiting EXCEPT ![s] = e]
      BY <1>5 DEF ExRefusesClose
    <2>4. UNCHANGED <<row, book, openTrade, passVars>>
      BY <1>5 DEF ExRefusesClose, rowVars, bookVars
    <2> HIDE DEF e
    <2> QED
      BY <1>3, <2>2, <2>3, <2>4
  <1> QED
    BY <1>1, <1>2, <1>4, <1>5 DEF Exchange

\* A position that is credited carries an open row of its symbol.
LEMMA CreditOwned ==
  ASSUME BookNamesOpen, BookTypes, NEW s \in Symbols, NEW n \in Nat, NEW t \in MaybeTrade,
         NEW b \in Nat, Credit(s, n, t, b), t \in Trades => SymOf[t] = s /\ row'[t] = "open",
         \A u \in Trades : row[u] = "open" => row'[u] = "open"
  PROVE  /\ BookNamesOpen'
         /\ \A r \in Symbols : book'[r].trade \in {book[r].trade, t}
  <1>1. \A r \in Symbols : book[r] \in Position
    BY DEF BookTypes
  <1>2. \A r \in Symbols \ {s} : book'[r] = book[r]
    BY DEF Credit, BookTypes
  <1>3. book'[s].trade \in {book[s].trade, t}
    <2>1. CASE Held(s)
      <3>1. book'[s] = [book[s] EXCEPT !.lots = book[s].lots + n]
        BY <2>1 DEF Credit, BookTypes
      <3>2. book'[s].trade = book[s].trade
        BY <1>1, <3>1 DEF Position
      <3> QED
        BY <3>2
    <2>2. CASE ~Held(s)
      <3>1. book'[s] = [trade |-> t, lots |-> n, base |-> b]
        BY <2>2 DEF Credit, BookTypes
      <3> QED
        BY <3>1
    <2> QED
      BY <2>1, <2>2
  <1>4. \A r \in Symbols : book'[r].trade \in {book[r].trade, t}
    BY <1>2, <1>3
  <1>5. BookNamesOpen'
    BY <1>2, <1>3 DEF BookNamesOpen
  <1> QED
    BY <1>4, <1>5

\* A position that leaves the book: its row may get any status.
LEMMA FlatOwned ==
  ASSUME BookNamesOpen, BookTypes, NEW s \in Symbols, book' = [book EXCEPT ![s] = Flat],
         \A u \in Trades : SymOf[u] # s /\ row[u] = "open" => row'[u] = "open"
  PROVE  BookNamesOpen' /\ book'[s].trade = NoTrade
  <1>1. book'[s] = Flat
    BY DEF BookTypes
  <1>2. book'[s].trade = NoTrade
    BY <1>1 DEF Flat
  <1>3. \A r \in Symbols \ {s} : book'[r] = book[r]
    BY DEF BookTypes
  <1>4. BookNamesOpen'
    BY <1>2, <1>3, NoTradeAssumption DEF BookNamesOpen
  <1> QED
    BY <1>2, <1>4

LEMMA TradingStepOwned == ASSUME RowsOwned, TypeOK, Trading PROVE RowsOwned'
  <1> USE DEF RowsOwned
  <1>0. /\ BookTypes /\ RowTypes /\ cur.trade \in MaybeTrade /\ cur.sym \in Symbols
        /\ pc = "phantom" /\ cur.trade \in Trades =>
             /\ book[cur.sym].trade # cur.trade
             /\ row[cur.trade] \in {"open", "closed"} /\ SymOf[cur.trade] = cur.sym
    BY DEF TypeOK, PassTypes, Call, CallOfRow
  <1>1. ASSUME NEW t \in Trades, NEW status \in {"working", "unknown"}, Enter(t, status)
        PROVE  RowsOwned'
    <2>1. \A u \in Trades : row[u] # "none" => row'[u] = row[u]
      BY <1>0, <1>1 DEF Enter, RowTypes
    <2>2. BookNamesOpen' /\ ExitsOfSymbol'
      BY <1>1, <2>1, BookKept, ExitsKept DEF Enter, bookVars
    <2>3. TodoWaits' /\ OrphansOpen' /\ CallOfRow'
      BY <1>0, <1>1, <2>1, PassRowsKept DEF Enter, bookVars
    <2> QED
      BY <2>2, <2>3
  <1>2. ASSUME NEW t \in Trades, Lapses(t) PROVE RowsOwned'
    <2>1. \A u \in Trades : row[u] # "working" => row'[u] = row[u]
      BY <1>0, <1>2 DEF Lapses, RowTypes
    <2>2. BookNamesOpen' /\ ExitsOfSymbol'
      BY <1>2, <2>1, BookKept, ExitsKept DEF Lapses, bookVars, execVars
    <2>3. TodoWaits' /\ OrphansOpen' /\ CallOfRow'
      BY <1>0, <1>2, <2>1, PassRowsKept DEF Lapses, bookVars
    <2> QED
      BY <2>2, <2>3
  <1>3. ASSUME NEW t \in Trades, OmsCredits(t) PROVE RowsOwned'
    <2>1. /\ \A u \in Trades : row[u] # "working" => row'[u] = row[u]
          /\ row[t] = "working" /\ row'[t] = "open"
      BY <1>0, <1>3 DEF OmsCredits, RowTypes
    <2>2. SymOf[t] \in Symbols /\ t \in MaybeTrade /\ base[t] \in Nat
      BY <1>0, SymOfAssumption DEF MaybeTrade, RowTypes
    <2>3. Credit(SymOf[t], 1, t, base[t])
      BY <1>3 DEF OmsCredits
    <2>4. /\ BookNamesOpen'
          /\ \A r \in Symbols : book'[r].trade \in {book[r].trade, t}
      BY <1>0, <2>1, <2>2, <2>3, CreditOwned
    <2>5. ExitsOfSymbol'
      BY <1>3, <2>2 DEF OmsCredits, ExitsOfSymbol, TypeOK, ExecTypes
    <2>6. pc = "phantom" /\ cur.trade \in Trades => book'[cur.sym].trade # cur.trade
      BY <1>0, <2>1, <2>4
    <2>7. TodoWaits' /\ OrphansOpen' /\ CallOfRow'
      BY <1>3, <2>1, <2>6, PassRowsKept DEF OmsCredits
    <2> QED
      BY <2>4, <2>5, <2>7
  <1>4. ASSUME NEW s \in Symbols, ExitWithoutTrade(s) PROVE RowsOwned'
    <2>1. row' = row /\ book' = [book EXCEPT ![s] = Flat]
      BY <1>4 DEF ExitWithoutTrade, Refund, rowVars
    <2>2. BookNamesOpen' /\ book'[s].trade = NoTrade
      BY <1>0, <2>1, FlatOwned
    <2>3. ExitsOfSymbol'
      BY <1>4, ExitsKept DEF ExitWithoutTrade, execVars
    <2>4. pc = "phantom" /\ cur.trade \in Trades => book'[cur.sym].trade # cur.trade
      BY <1>0, <2>1, <2>2, NoTradeAssumption DEF BookTypes
    <2>5. TodoWaits' /\ OrphansOpen' /\ CallOfRow'
      BY <1>4, <2>1, <2>4, PassRowsKept DEF ExitWithoutTrade
    <2> QED
      BY <2>2, <2>3, <2>5
  <1>5. ASSUME NEW s \in Symbols, ExitSubmits(s) PROVE RowsOwned'
    <2>1. row' = row /\ book' = book
      BY <1>5 DEF ExitSubmits, rowVars, bookVars
    <2>2. /\ exiting'[s].trade = openTrade[s] /\ openTrade'[s] = NoTrade
          /\ \A r \in Symbols \ {s} : exiting'[r] = exiting[r] /\ openTrade'[r] = openTrade[r]
      BY <1>5 DEF ExitSubmits, Forget, TypeOK, ExecTypes
    <2>3. ExitsOfSymbol'
      BY <2>2, NoTradeAssumption DEF ExitsOfSymbol
    <2>4. BookNamesOpen'
      BY <2>1, BookKept
    <2>5. TodoWaits' /\ OrphansOpen' /\ CallOfRow'
      BY <1>0, <1>5, <2>1, PassRowsKept DEF ExitSubmits
    <2> QED
      BY <2>3, <2>4, <2>5
  <1>6. ASSUME NEW s \in Symbols, ExitEnds(s) PROVE RowsOwned'
    <2>1. exiting[s].trade \in MaybeTrade /\ exiting[s].trade \in Trades => SymOf[exiting[s].trade] = s
      BY DEF TypeOK, ExecTypes, Close, ExitsOfSymbol
    <2>2. \A u \in Trades : row'[u] = row[u] \/ (row'[u] = "closed" /\ SymOf[u] = s)
      BY <1>0, <1>6, <2>1 DEF ExitEnds, SetRow, RowTypes, ExitsOfSymbol
    <2>3. book' = [book EXCEPT ![s] = Flat]
      BY <1>6 DEF ExitEnds, Refund
    <2>4. BookNamesOpen' /\ book'[s].trade = NoTrade
      BY <1>0, <2>2, <2>3, FlatOwned
    <2>5. /\ exiting'[s] = NoClose /\ openTrade' = openTrade
          /\ \A r \in Symbols \ {s} : exiting'[r] = exiting[r]
      BY <1>6 DEF ExitEnds, TypeOK, ExecTypes
    <2>6. ExitsOfSymbol'
      BY <2>5, NoTradeAssumption DEF ExitsOfSymbol, NoClose
    <2>7. pc = "phantom" /\ cur.trade \in Trades => book'[cur.sym].trade # cur.trade
      BY <1>0, <2>3, <2>4, NoTradeAssumption DEF BookTypes
    <2>8. TodoWaits' /\ OrphansOpen' /\ CallOfRow'
      BY <1>6, <2>2, <2>7, PassRowsKept DEF ExitEnds
    <2> QED
      BY <2>4, <2>6, <2>8
  <1>7. ASSUME NEW s \in Symbols, ExitFails(s) PROVE RowsOwned'
    <2>1. row' = row /\ book' = book
      BY <1>7 DEF ExitFails, rowVars, bookVars
    <2>2. /\ exiting'[s] = NoClose /\ openTrade'[s] = exiting[s].trade
          /\ \A r \in Symbols \ {s} : exiting'[r] = exiting[r] /\ openTrade'[r] = openTrade[r]
      BY <1>7 DEF ExitFails, TypeOK, ExecTypes
    <2>3. ExitsOfSymbol'
      BY <2>2, NoTradeAssumption DEF ExitsOfSymbol, NoClose
    <2>4. BookNamesOpen'
      BY <2>1, BookKept
    <2>5. TodoWaits' /\ OrphansOpen' /\ CallOfRow'
      BY <1>0, <1>7, <2>1, PassRowsKept DEF ExitFails
    <2> QED
      BY <2>3, <2>4, <2>5
  <1> QED
    BY <1>1, <1>2, <1>3, <1>4, <1>5, <1>6, <1>7 DEF Trading

LEMMA NoCallFacts == NoCall.trade = NoTrade /\ NoCall.retry = FALSE /\ NoTrade \notin Trades
  BY NoTradeAssumption DEF NoCall

\* The steps of a pass that touch neither rows nor the book.
LEMMA WalkStepOwned ==
  ASSUME RowsOwned, TypeOK,
         \/ PassFails \/ ReadAccount \/ ReadOrders \/ StartWalk \/ FillsMatch \/ Protected
         \/ \E t \in Trades : Retry(t)
         \/ \E s \in Symbols, native \in BOOLEAN : OrphanLocal(s, native)
         \/ \E s \in Symbols : HaltOnStray(s) \/ FlattenStray(s)
         \/ \E liquidated \in BOOLEAN : CloseReturns(liquidated)
         \/ \E n \in 0 .. cur.lots, ok \in BOOLEAN : FlattenEnds(n, ok)
         \/ PassEnds
  PROVE  RowsOwned'
  <1> USE DEF RowsOwned
  <1>0. UNCHANGED <<row, book, openTrade, exiting>>
    BY DEF PassFails, ReadAccount, ReadOrders, StartWalk, FillsMatch, Protected, Retry,
       OrphanLocal, HaltOnStray, FlattenStray, CloseReturns, FlattenEnds, PassEnds,
       rowVars, bookVars, execVars
  <1>1. BookNamesOpen' /\ ExitsOfSymbol'
    BY <1>0, BookKept, ExitsKept
  <1> SUFFICES TodoWaits' /\ OrphansOpen' /\ CallOfRow'
    BY <1>1
  <1>2. CASE PassFails \/ PassEnds
    <2>1. todo' = {} /\ orphans' = {} /\ cur' = NoCall /\ pc' = "idle"
      BY <1>2 DEF PassFails, PassEnds, Idle
    <2> QED
      BY <2>1, NoCallFacts DEF TodoWaits, OrphansOpen, CallOfRow
  <1>3. CASE ReadAccount
    <2>1. /\ todo' = todo /\ orphans' = orphans /\ cur' = cur /\ local' = local
          /\ pc = "idle" /\ pc' = "orders"
      BY <1>3 DEF ReadAccount
    <2> QED
      BY <1>0, <2>1 DEF TodoWaits, OrphansOpen, CallOfRow
  <1>4. CASE ReadOrders
    <2>1. /\ orphans' = orphans /\ cur' = cur /\ local' = local
          /\ pc = "orders" /\ pc' = "retry" /\ \A t \in todo' : row[t] = "pending"
      BY <1>4 DEF ReadOrders
    <2> QED
      BY <1>0, <2>1 DEF TodoWaits, OrphansOpen, CallOfRow
  <1>5. CASE StartWalk
    <2>1. /\ pc = "retry" /\ pc' = "walk" /\ todo = {} /\ todo' = {} /\ cur' = cur
          /\ local' = book /\ orphans' \subseteq Symbols /\ orphans = {}
      BY <1>5 DEF StartWalk, OrphansOpen
    <2>2. cur.trade \notin Trades
      BY <2>1, NoTradeAssumption DEF CallOfRow
    <2> QED
      BY <1>0, <2>1, <2>2 DEF TodoWaits, OrphansOpen, CallOfRow, BookNamesOpen
  <1>6. CASE FillsMatch
    <2>1. /\ todo' = todo /\ orphans' = orphans /\ cur' = cur /\ local' = local
          /\ pc = "fills" /\ pc' = "sibling"
      BY <1>6 DEF FillsMatch, walkVars
    <2> QED
      BY <1>0, <2>1 DEF TodoWaits, OrphansOpen, CallOfRow
  <1>7. CASE Protected
    <2>1. /\ todo' = todo /\ orphans' = orphans /\ cur' = cur /\ local' = local
          /\ pc = "protect" /\ pc' = "walk"
      BY <1>7 DEF Protected, walkVars
    <2> QED
      BY <1>0, <2>1 DEF TodoWaits, OrphansOpen, CallOfRow
  <1>8. ASSUME NEW t \in Trades, Retry(t) PROVE TodoWaits' /\ OrphansOpen' /\ CallOfRow'
    <2>1. /\ pc = "retry" /\ t \in todo /\ todo' = todo \ {t} /\ orphans' = orphans
          /\ local' = local /\ orphans = {}
      BY <1>8 DEF Retry, OrphansOpen
    <2>2. CASE pc' = pc /\ cur' = cur
      BY <1>0, <2>1, <2>2 DEF TodoWaits, OrphansOpen, CallOfRow
    <2>3. CASE pc' = "fills" /\ cur'.trade = t /\ cur'.sym = SymOf[t] /\ cur'.retry = TRUE
      BY <1>0, <2>1, <2>3 DEF TodoWaits, OrphansOpen, CallOfRow
    <2>4. CASE row[t] = "closed"
      BY <1>8, <2>2, <2>4 DEF Retry
    <2>5. CASE row[t] # "closed"
      <3>1. pc' = "fills" /\ cur' = [trade |-> t, sym |-> SymOf[t], lots |-> 1, base |-> base[t],
                                    native |-> TRUE, retry |-> TRUE]
        BY <1>8, <2>5 DEF Retry
      <3>2. pc' = "fills" /\ cur'.trade = t /\ cur'.sym = SymOf[t] /\ cur'.retry = TRUE
        BY <3>1
      <3> QED
        BY <2>3, <3>2
    <2> QED
      BY <2>4, <2>5
  <1>9. ASSUME NEW s \in Symbols, NEW native \in BOOLEAN, OrphanLocal(s, native)
        PROVE  TodoWaits' /\ OrphansOpen' /\ CallOfRow'
    <2>1. /\ pc = "walk" /\ s \in orphans /\ todo' = todo /\ orphans' = orphans \ {s}
          /\ local' = local /\ todo = {}
      BY <1>9 DEF OrphanLocal, TodoWaits
    <2>2. CASE pc' = pc /\ cur' = cur
      BY <1>0, <2>1, <2>2 DEF TodoWaits, OrphansOpen, CallOfRow
    <2>3. CASE /\ pc' = "fills" /\ cur'.trade = local[s].trade /\ cur'.sym = s
               /\ cur'.retry = FALSE
      BY <1>0, <2>1, <2>3 DEF TodoWaits, OrphansOpen, CallOfRow
    <2>4. CASE RowClosed(local[s].trade)
      BY <1>9, <2>2, <2>4 DEF OrphanLocal
    <2>5. CASE ~RowClosed(local[s].trade)
      <3>1. /\ pc' = "fills"
            /\ cur' = [trade |-> local[s].trade, sym |-> s, lots |-> local[s].lots,
                       base |-> local[s].base, native |-> native, retry |-> FALSE]
        BY <1>9, <2>5 DEF OrphanLocal
      <3>2. /\ pc' = "fills" /\ cur'.trade = local[s].trade /\ cur'.sym = s
            /\ cur'.retry = FALSE
        BY <3>1
      <3> QED
        BY <2>3, <3>2
    <2> QED
      BY <2>4, <2>5
  <1>10. ASSUME NEW s \in Symbols, HaltOnStray(s)
         PROVE  TodoWaits' /\ OrphansOpen' /\ CallOfRow'
    <2>1. todo' = todo /\ orphans' = orphans /\ cur' = cur /\ local' = local /\ pc' = pc
      BY <1>10 DEF HaltOnStray
    <2> QED
      BY <1>0, <2>1 DEF TodoWaits, OrphansOpen, CallOfRow
  <1>11. ASSUME NEW s \in Symbols, FlattenStray(s)
         PROVE  TodoWaits' /\ OrphansOpen' /\ CallOfRow'
    <2>1. /\ todo' = todo /\ orphans' = orphans /\ local' = local /\ orphans = {}
          /\ pc = "walk" /\ pc' = "flatten"
      BY <1>11 DEF FlattenStray, Handles
    <2>2. cur'.trade = NoTrade /\ cur'.retry = FALSE
      BY <1>11 DEF FlattenStray, NoCall
    <2> QED
      BY <1>0, <2>1, <2>2, NoCallFacts DEF TodoWaits, OrphansOpen, CallOfRow
  <1>12. ASSUME NEW liquidated \in BOOLEAN, CloseReturns(liquidated)
         PROVE  TodoWaits' /\ OrphansOpen' /\ CallOfRow'
    <2>1. /\ todo' = todo /\ orphans' = orphans /\ local' = local /\ cur' = NoCall
          /\ pc = "unprotect" /\ pc' = IF cur.retry THEN "retry" ELSE "walk"
      BY <1>12 DEF CloseReturns, walkVars
    <2>2. TodoWaits' /\ OrphansOpen'
      BY <1>0, <2>1 DEF TodoWaits, OrphansOpen, CallOfRow
    <2>3. CallOfRow'
      BY <2>1, NoCallFacts DEF CallOfRow
    <2> QED
      BY <2>2, <2>3
  <1>13. ASSUME NEW n \in 0 .. cur.lots, NEW ok \in BOOLEAN, FlattenEnds(n, ok)
         PROVE  TodoWaits' /\ OrphansOpen' /\ CallOfRow'
    <2>1. /\ todo' = todo /\ orphans' = orphans /\ local' = local /\ cur' = NoCall
          /\ pc = "flatten" /\ pc' = "walk"
      BY <1>13 DEF FlattenEnds
    <2> QED
      BY <1>0, <2>1, NoCallFacts DEF TodoWaits, OrphansOpen, CallOfRow
  <1> QED
    BY <1>2, <1>3, <1>4, <1>5, <1>6, <1>7, <1>8, <1>9, <1>10, <1>11, <1>12, <1>13

\* The steps that change a row or the book.
LEMMA RepairStepOwned ==
  ASSUME RowsOwned, TypeOK,
         \/ CloseMatched \/ StillPending \/ CloseUnknown \/ DropPhantom \/ PhantomCancelled
         \/ \E s \in Symbols : Adopt(s)
  PROVE  RowsOwned'
  <1> USE DEF RowsOwned
  <1>0. /\ BookTypes /\ RowTypes /\ cur.trade \in MaybeTrade /\ cur.sym \in Symbols
        /\ cur.retry \in BOOLEAN
        /\ openTrade \in [Symbols -> MaybeTrade]
    BY DEF TypeOK, PassTypes, Call, ExecTypes
  <1>1. \A status \in Statuses : SetRow(cur.trade, status) =>
            /\ \A u \in Trades : u # cur.trade => row'[u] = row[u]
            /\ cur.trade \in Trades => row'[cur.trade] = status
            /\ \A u \in Trades : SymOf[u] # cur.sym => row'[u] = row[u]
    BY <1>0 DEF SetRow, RowTypes, CallOfRow
  <1>2. ASSUME Forget(cur.sym), UNCHANGED exiting PROVE ExitsOfSymbol'
    <2>1. /\ openTrade'[cur.sym] = NoTrade
          /\ \A r \in Symbols \ {cur.sym} : openTrade'[r] = openTrade[r]
      BY <1>0, <1>2 DEF Forget
    <2> QED
      BY <1>2, <2>1, NoTradeAssumption DEF ExitsOfSymbol
  <1>3. CASE CloseMatched
    <2>1. /\ pc = "sibling" /\ pc' = "unprotect" /\ todo' = todo /\ orphans' = orphans
          /\ local' = local /\ cur' = cur
      BY <1>3 DEF CloseMatched, walkVars
    <2>2. /\ \A u \in Trades : u # cur.trade => row'[u] = row[u]
          /\ cur.trade \in Trades => row'[cur.trade] = "closed"
          /\ \A u \in Trades : SymOf[u] # cur.sym => row'[u] = row[u]
      BY <1>1, <1>3 DEF CloseMatched, Statuses
    <2>3. BookNamesOpen'
      BY <1>0, <1>3, <2>2, FlatOwned DEF CloseMatched, Refund
    <2>4. ExitsOfSymbol'
      BY <1>2, <1>3 DEF CloseMatched
    <2>5. \A u \in Trades : row'[u] \in {row[u], "closed"}
      BY <2>2
    <2>6. TodoWaits' /\ OrphansOpen'
      BY <2>1, <2>5 DEF TodoWaits, OrphansOpen, TypeOK, PassTypes
    <2>7. CallOfRow'
      BY <2>1, <2>2 DEF CallOfRow
    <2> QED
      BY <2>3, <2>4, <2>6, <2>7
  <1>4. CASE StillPending
    <2>1. /\ pc = "fills" /\ pc' = "retry" /\ todo' = todo /\ orphans' = orphans
          /\ local' = local /\ cur' = NoCall /\ cur.retry
      BY <1>4 DEF StillPending, walkVars
    <2>2. /\ \A u \in Trades : u # cur.trade => row'[u] = row[u]
          /\ cur.trade \in Trades => row'[cur.trade] = "pending"
      BY <1>1, <1>4 DEF StillPending, Statuses
    <2>3. cur.trade \in Trades => row[cur.trade] \in {"pending", "closed"}
      BY <2>1 DEF CallOfRow
    <2>4. \A u \in Trades : row[u] = "open" => row'[u] = "open"
      BY <2>2, <2>3
    <2>5. BookNamesOpen' /\ ExitsOfSymbol'
      BY <1>4, <2>4, BookKept, ExitsKept DEF StillPending, bookVars, execVars
    <2>6. TodoWaits'
      BY <2>1, <2>2 DEF TodoWaits, TypeOK, PassTypes
    <2>7. OrphansOpen'
      BY <2>1 DEF OrphansOpen, CallOfRow
    <2>8. CallOfRow'
      BY <2>1, NoCallFacts DEF CallOfRow
    <2> QED
      BY <2>5, <2>6, <2>7, <2>8
  <1>5. CASE CloseUnknown
    <2>1. /\ pc = "fills" /\ pc' = "walk" /\ todo' = todo /\ orphans' = orphans
          /\ local' = local /\ cur' = NoCall /\ ~cur.retry /\ todo = {}
      BY <1>5 DEF CloseUnknown, walkVars, TodoWaits
    <2>2. /\ \A u \in Trades : SymOf[u] # cur.sym => row'[u] = row[u]
      BY <1>1, <1>5 DEF CloseUnknown, Statuses
    <2>3. BookNamesOpen'
      BY <1>0, <1>5, <2>2, FlatOwned DEF CloseUnknown, Suspend
    <2>4. ExitsOfSymbol'
      BY <1>2, <1>5 DEF CloseUnknown
    <2>5. cur.sym \notin orphans \/ cur.trade \notin Trades
      BY <2>1 DEF CallOfRow
    <2>6. \A u \in Trades : u # cur.trade => row'[u] = row[u]
      BY <1>1, <1>5 DEF CloseUnknown, Statuses
    <2>7. OrphansOpen'
      BY <2>1, <2>5, <2>6 DEF OrphansOpen, CallOfRow
    <2>8. TodoWaits' /\ CallOfRow'
      BY <2>1, NoCallFacts DEF TodoWaits, CallOfRow
    <2> QED
      BY <2>3, <2>4, <2>7, <2>8
  <1>6. CASE DropPhantom
    <2>1. /\ pc = "fills" /\ pc' = "phantom" /\ todo' = todo /\ orphans' = orphans
          /\ local' = local /\ cur' = cur /\ ~cur.retry /\ todo = {} /\ row' = row
      BY <1>6 DEF DropPhantom, walkVars, rowVars, TodoWaits
    <2>2. BookNamesOpen' /\ book'[cur.sym].trade = NoTrade
      BY <1>0, <1>6, <2>1, FlatOwned DEF DropPhantom, Refund
    <2>3. ExitsOfSymbol'
      BY <1>2, <1>6 DEF DropPhantom
    <2>4. TodoWaits' /\ OrphansOpen'
      BY <2>1 DEF TodoWaits, OrphansOpen
    <2>5. CallOfRow'
      BY <2>1, <2>2, NoTradeAssumption DEF CallOfRow
    <2> QED
      BY <2>2, <2>3, <2>4, <2>5
  <1>7. CASE PhantomCancelled
    <2>1. /\ pc = "phantom" /\ pc' = "walk" /\ todo' = todo /\ orphans' = orphans
          /\ local' = local /\ cur' = NoCall /\ ~cur.retry /\ todo = {}
      BY <1>7 DEF PhantomCancelled, walkVars, TodoWaits, CallOfRow
    <2>2. \A u \in Trades : u # cur.trade => row'[u] = row[u]
      BY <1>1, <1>7 DEF PhantomCancelled, Statuses
    <2>3. book' = book /\ UNCHANGED <<openTrade, exiting>>
      BY <1>7 DEF PhantomCancelled, bookVars, execVars
    <2>4. cur.trade \in Trades =>
              SymOf[cur.trade] = cur.sym /\ book[cur.sym].trade # cur.trade
      BY <2>1 DEF CallOfRow
    <2>5. BookNamesOpen'
      BY <2>2, <2>3, <2>4 DEF BookNamesOpen
    <2>6. ExitsOfSymbol'
      BY <2>3, ExitsKept
    <2>7. OrphansOpen'
      BY <2>1, <2>2 DEF OrphansOpen, CallOfRow
    <2>8. TodoWaits' /\ CallOfRow'
      BY <2>1, NoCallFacts DEF TodoWaits, CallOfRow
    <2> QED
      BY <2>5, <2>6, <2>7, <2>8
  <1>8. ASSUME NEW s \in Symbols, Adopt(s) PROVE RowsOwned'
    <2>1. /\ pc = "walk" /\ pc' = "protect" /\ todo' = todo /\ orphans' = orphans
          /\ local' = local /\ cur' = cur /\ row' = row /\ UNCHANGED <<openTrade, exiting>>
      BY <1>8 DEF Adopt, Handles, rowVars, execVars
    <2>2. PICK t \in IF OpenRows(s) = {} THEN {NoTrade} ELSE OpenRows(s) :
              Credit(s, seen[s], t, closed[s])
      BY <1>8 DEF Adopt
    <2>3. t \in MaybeTrade /\ (t \in Trades => SymOf[t] = s /\ row'[t] = "open")
      BY <2>1, <2>2, NoTradeAssumption DEF OpenRows, MaybeTrade
    <2>4. seen[s] \in Nat /\ closed[s] \in Nat
      BY DEF TypeOK, PassTypes, ExchangeTypes
    <2>5. BookNamesOpen'
      BY <1>0, <2>1, <2>2, <2>3, <2>4, CreditOwned
    <2>6. ExitsOfSymbol'
      BY <2>1, ExitsKept
    <2>7. TodoWaits' /\ OrphansOpen'
      BY <2>1 DEF TodoWaits, OrphansOpen
    <2>8. cur.trade = NoTrade
      BY <2>1 DEF CallOfRow
    <2>9. CallOfRow'
      BY <2>1, <2>8, NoTradeAssumption DEF CallOfRow
    <2> QED
      BY <2>5, <2>6, <2>7, <2>9
  <1> QED
    BY <1>3, <1>4, <1>5, <1>6, <1>7, <1>8

LEMMA OwnedKept == ASSUME RowsOwned, TypeOK, [Next]_vars PROVE RowsOwned'
  <1>1. CASE UNCHANGED vars
    BY <1>1, RowsSame DEF vars, rowVars, bookVars, execVars
  <1>2. CASE Exchange
    BY <1>2, ExchangeStepOwned
  <1>3. CASE Trading
    BY <1>3, TradingStepOwned
  <1>4. CASE Pass
    BY <1>4, WalkStepOwned, RepairStepOwned DEF Pass
  <1>5. CASE Ages
    BY <1>5, RowsSame DEF Ages, rowVars, bookVars, execVars
  <1> QED
    BY <1>1, <1>2, <1>3, <1>4, <1>5 DEF Next

\* A position of the book stands for an open row of its symbol, a row the pass retries
\* waits for its fills or was closed, and no orphan's row is one that waits: RowsOwned
\* holds in every state, whatever entries, fills and exits do between the awaits.
THEOREM RowsAreOwned == Spec => []RowsOwned
  <1>1. Init => RowsOwned
    BY InitOwned
  <1>2. TypeOK /\ RowsOwned /\ [Next]_vars => RowsOwned'
    BY OwnedKept
  <1> QED
    BY <1>1, <1>2, TypeCorrect, PTL DEF Spec

\* What one step does to a row that waits.
LEMMA PendingStep ==
  ASSUME RowsOwned, TypeOK, Next, NEW t \in Trades, row[t] = "pending"
  PROVE  row'[t] \in {"pending", "closed"}
  <1>0. RowTypes
    BY DEF TypeOK
  <1>1. CASE UNCHANGED row
    BY <1>1
  <1>2. ASSUME NEW u \in MaybeTrade, NEW status \in {"pending", "closed"}, SetRow(u, status)
        PROVE  row'[t] \in {"pending", "closed"}
    BY <1>0, <1>2 DEF SetRow, RowTypes
  <1>3. CASE Exchange
    BY <1>1, <1>3 DEF Exchange, ExFills, ExTriggers, ExExecutesClose, ExRefusesClose, rowVars
  <1>4. CASE Trading
    <2>1. ASSUME NEW u \in Trades, NEW status \in {"working", "unknown"}, Enter(u, status)
          PROVE  row'[t] \in {"pending", "closed"}
      BY <1>0, <2>1 DEF Enter, RowTypes
    <2>2. ASSUME NEW u \in Trades, Lapses(u) \/ OmsCredits(u)
          PROVE  row'[t] \in {"pending", "closed"}
      BY <1>0, <2>2 DEF Lapses, OmsCredits, RowTypes
    <2>3. ASSUME NEW s \in Symbols, ExitWithoutTrade(s) \/ ExitSubmits(s) \/ ExitFails(s)
          PROVE  row'[t] \in {"pending", "closed"}
      BY <1>1, <2>3 DEF ExitWithoutTrade, ExitSubmits, ExitFails, rowVars
    <2>4. ASSUME NEW s \in Symbols, ExitEnds(s) PROVE row'[t] \in {"pending", "closed"}
      <3>1. exiting[s].trade \in MaybeTrade
        BY DEF TypeOK, ExecTypes, Close
      <3> QED
        BY <1>2, <2>4, <3>1 DEF ExitEnds
    <2> QED
      BY <1>4, <2>1, <2>2, <2>3, <2>4 DEF Trading
  <1>5. CASE Pass
    <2>0. cur.trade \in MaybeTrade
      BY DEF TypeOK, PassTypes, Call
    <2>1. CASE CloseMatched
      BY <1>2, <2>0, <2>1 DEF CloseMatched
    <2>2. CASE StillPending
      BY <1>2, <2>0, <2>2 DEF StillPending
    <2>3. CASE CloseUnknown
      BY <1>2, <2>0, <2>3 DEF CloseUnknown
    <2>4. CASE PhantomCancelled
      <3>1. cur.trade # t
        BY <2>4 DEF PhantomCancelled, RowsOwned, CallOfRow
      <3> QED
        BY <1>0, <2>4, <3>1 DEF PhantomCancelled, SetRow, RowTypes
    <2>5. CASE /\ ~CloseMatched /\ ~StillPending /\ ~CloseUnknown /\ ~PhantomCancelled
      BY <1>1, <1>5, <2>5 DEF Pass, PassFails, ReadAccount, ReadOrders, StartWalk, Retry,
         OrphanLocal, HaltOnStray, Adopt, FlattenStray, FillsMatch, CloseReturns, DropPhantom,
         Protected, FlattenEnds, PassEnds, rowVars
    <2> QED
      BY <2>1, <2>2, <2>3, <2>4, <2>5
  <1>6. CASE Ages
    BY <1>1, <1>6 DEF Ages, rowVars
  <1> QED
    BY <1>3, <1>4, <1>5, <1>6 DEF Next

(***************************************************************************)
(* What a pass has found, until it ends.                                     *)
(***************************************************************************)
InCall == pc \in {"fills", "sibling", "unprotect", "phantom"}
Walking == \/ pc \in {"walk", "protect", "flatten", "phantom"}
           \/ pc \in {"fills", "sibling", "unprotect"} /\ ~cur.retry

ErrorsHalt == errors => Walking /\ halted
\* A stray is still on the list, is being flattened, or something came of it.
Attended(s) == s \in strays \/ (pc = "flatten" /\ cur.sym = s) \/ outcome[s] # "none"
StraysHandled ==
    Walking => \A s \in Symbols : seen[s] > 0 /\ local[s].lots = 0 => Attended(s) \/ halted
RowSettled(t) == row[t] \in {"closed", "cancelled"} \/ (row[t] = "pending" /\ halted)
OrphansSettled ==
    Walking => \A s \in Symbols :
                   /\ local[s].lots > 0 /\ seen[s] = 0 /\ s \notin orphans
                   /\ local[s].trade \in Trades
                   /\ ~(InCall /\ cur.trade = local[s].trade)
                   => RowSettled(local[s].trade)
MatchedClosed == pc = "unprotect" /\ cur.trade \in Trades => row[cur.trade] = "closed"
WalkInv == ErrorsHalt /\ StraysHandled /\ OrphansSettled /\ MatchedClosed

\* A step outside the pass: a settled row stays as it is or is closed once more.
LEMMA WalkSame ==
  ASSUME WalkInv, UNCHANGED <<passVars, halted>>,
         \A t \in Trades : row[t] \in {"closed", "cancelled", "pending"}
                              => row'[t] \in {row[t], "closed"}
  PROVE  WalkInv'
  <1>1. /\ pc' = pc /\ cur' = cur /\ seen' = seen /\ local' = local /\ orphans' = orphans
        /\ strays' = strays /\ errors' = errors /\ halted' = halted /\ outcome' = outcome
    BY DEF passVars, walkVars
  <1>2. ErrorsHalt' /\ StraysHandled'
    BY <1>1 DEF WalkInv, ErrorsHalt, StraysHandled, Attended, Walking
  <1>3. \A t \in Trades : RowSettled(t) => RowSettled(t)'
    BY <1>1 DEF RowSettled
  <1>4. OrphansSettled'
    BY <1>1, <1>3 DEF WalkInv, OrphansSettled, Walking, InCall
  <1>5. MatchedClosed'
    BY <1>1 DEF WalkInv, MatchedClosed
  <1> QED
    BY <1>2, <1>4, <1>5 DEF WalkInv

\* Outside the walk there is nothing to remember.
LEMMA NotWalking ==
  ASSUME ~Walking', ~errors', pc' # "unprotect"
  PROVE  WalkInv'
  BY DEF WalkInv, ErrorsHalt, StraysHandled, OrphansSettled, MatchedClosed

\* What entries, fills and exits do to the rows that are settled or wait.
LEMMA TradingRows ==
  ASSUME TypeOK, Trading, NEW t \in Trades
  PROVE  /\ row[t] \in {"closed", "cancelled", "pending"} => row'[t] \in {row[t], "closed"}
         /\ row'[t] = "pending" => row[t] = "pending"
  <1>0. row \in [Trades -> Statuses]
    BY DEF TypeOK, RowTypes
  <1> DEFINE Kept == /\ row[t] \in {"closed", "cancelled", "pending"}
                           => row'[t] \in {row[t], "closed"}
                     /\ row'[t] = "pending" => row[t] = "pending"
  <1>1. ASSUME NEW u \in Trades,
               \/ \E status \in {"working", "unknown"} : Enter(u, status)
               \/ Lapses(u) \/ OmsCredits(u)
        PROVE  Kept
    <2>1. row[u] \in {"none", "working"}
      BY <1>1 DEF Enter, Lapses, OmsCredits
    <2>2. \E status \in {"working", "unknown", "cancelled", "open"} :
             row' = [row EXCEPT ![u] = status]
      BY <1>1 DEF Enter, Lapses, OmsCredits
    <2> QED
      BY <1>0, <2>1, <2>2
  <1>2. ASSUME NEW s \in Symbols, ExitWithoutTrade(s) \/ ExitSubmits(s) \/ ExitFails(s)
        PROVE  Kept
    BY <1>2 DEF ExitWithoutTrade, ExitSubmits, ExitFails, rowVars
  <1>3. ASSUME NEW s \in Symbols, ExitEnds(s) PROVE Kept
    BY <1>0, <1>3 DEF ExitEnds, SetRow
  <1> QED
    BY <1>1, <1>2, <1>3 DEF Trading

LEMMA TradingWalks ==
  ASSUME WalkInv, TypeOK, Trading
  PROVE  WalkInv'
  <1>1. UNCHANGED <<passVars, halted, policy>>
    BY DEF Trading, Enter, Lapses, OmsCredits, ExitWithoutTrade, ExitSubmits, ExitEnds,
       ExitFails, healthVars
  <1> QED
    BY <1>1, TradingRows, WalkSame

LEMMA OutsideWalks ==
  ASSUME WalkInv, Exchange \/ Ages \/ UNCHANGED vars
  PROVE  WalkInv'
  <1>1. UNCHANGED <<passVars, halted, policy, row>>
    BY DEF Exchange, ExFills, ExTriggers, ExExecutesClose, ExRefusesClose, Ages, vars,
       healthVars, rowVars
  <1> QED
    BY <1>1, WalkSame

\* The steps before the walk, its first and its last.
LEMMA EdgeWalks ==
  ASSUME WalkInv, TypeOK, RowsOwned,
         \/ PassFails \/ ReadAccount \/ ReadOrders \/ StartWalk \/ PassEnds
         \/ \E t \in Trades : Retry(t)
         \/ StillPending
         \/ FillsMatch /\ cur.retry
         \/ CloseMatched /\ cur.retry
         \/ cur.retry /\ \E liquidated \in BOOLEAN : CloseReturns(liquidated)
  PROVE  WalkInv'
  <1>1. CASE PassFails \/ PassEnds
    <2>1. pc' = "idle" /\ ~errors'
      BY <1>1 DEF PassFails, PassEnds, Idle
    <2> QED
      BY <2>1, NotWalking DEF Walking
  <1>2. CASE ReadAccount \/ ReadOrders
    <2>1. pc \in {"idle", "orders"} /\ pc' \in {"orders", "retry"} /\ errors' = errors
      BY <1>2 DEF ReadAccount, ReadOrders
    <2> QED
      BY <2>1, NotWalking DEF Walking, WalkInv, ErrorsHalt
  <1>3. ASSUME NEW t \in Trades, Retry(t) PROVE WalkInv'
    <2>1. pc = "retry" /\ errors' = errors
      BY <1>3 DEF Retry
    <2>2. pc' = "retry" \/ (pc' = "fills" /\ cur'.retry = TRUE)
      <3>1. CASE row[t] = "closed"
        BY <1>3, <2>1, <3>1 DEF Retry
      <3>2. CASE row[t] # "closed"
        <4>1. pc' = "fills" /\ cur' = [trade |-> t, sym |-> SymOf[t], lots |-> 1,
                                      base |-> base[t], native |-> TRUE, retry |-> TRUE]
          BY <1>3, <3>2 DEF Retry
        <4> QED
          BY <4>1
      <3> QED
        BY <3>1, <3>2
    <2> QED
      BY <2>1, <2>2, NotWalking DEF Walking, WalkInv, ErrorsHalt
  <1>4. CASE StillPending \/ (FillsMatch /\ cur.retry)
    <2>1. pc = "fills" /\ cur.retry /\ errors' = errors
      BY <1>4 DEF StillPending, FillsMatch, walkVars
    <2>2. pc' = "retry" \/ (pc' = "sibling" /\ cur' = cur)
      BY <1>4 DEF StillPending, FillsMatch
    <2> QED
      BY <2>1, <2>2, NotWalking DEF Walking, WalkInv, ErrorsHalt
  <1>5. CASE CloseMatched /\ cur.retry
    <2>1. /\ pc = "sibling" /\ pc' = "unprotect" /\ cur' = cur /\ cur.retry
          /\ errors' = errors /\ SetRow(cur.trade, "closed")
      BY <1>5 DEF CloseMatched, walkVars
    <2>2. MatchedClosed'
      BY <2>1 DEF MatchedClosed, SetRow, TypeOK, RowTypes
    <2>3. ~errors' /\ ~Walking'
      BY <2>1 DEF Walking, WalkInv, ErrorsHalt
    <2> QED
      BY <2>2, <2>3 DEF WalkInv, ErrorsHalt, StraysHandled, OrphansSettled
  <1>6. ASSUME NEW liquidated \in BOOLEAN, CloseReturns(liquidated), cur.retry PROVE WalkInv'
    <2>1. pc = "unprotect" /\ pc' = "retry" /\ errors' = errors
      BY <1>6 DEF CloseReturns, walkVars
    <2> QED
      BY <1>6, <2>1, NotWalking DEF Walking, WalkInv, ErrorsHalt
  <1>7. CASE StartWalk
    <2>1. /\ pc = "retry" /\ pc' = "walk" /\ local' = book /\ seen' = seen /\ errors' = errors
          /\ orphans' = {s \in Symbols : Held(s) /\ seen[s] = 0}
          /\ strays' = {s \in Symbols : ~Held(s) /\ seen[s] > 0}
      BY <1>7 DEF StartWalk
    <2>2. ~errors'
      BY <2>1 DEF WalkInv, ErrorsHalt, Walking
    <2>3. StraysHandled' /\ OrphansSettled'
      BY <2>1 DEF StraysHandled, Attended, OrphansSettled, Held
    <2> QED
      BY <2>1, <2>2, <2>3 DEF WalkInv, ErrorsHalt, MatchedClosed
  <1> QED
    BY <1>1, <1>2, <1>3, <1>4, <1>5, <1>6, <1>7

\* A repair of the walk: other rows stay, no halt is taken back, and what leaves the
\* lists of the pass, or its call, is settled.
LEMMA RepairWalks ==
  ASSUME WalkInv, Walking, Walking', UNCHANGED <<seen, local>>,
         halted => halted', errors' => errors \/ halted',
         \A s \in Symbols : Attended(s) => Attended(s)' \/ halted',
         \A t \in Trades : row'[t] = row[t] \/ (InCall /\ t = cur.trade),
         \A s \in orphans, t \in Trades :
            local[s].trade = t => s \in orphans' \/ (InCall' /\ cur'.trade = t) \/ RowSettled(t)',
         \A t \in Trades :
            InCall /\ cur.trade = t => (InCall' /\ cur'.trade = t) \/ RowSettled(t)',
         MatchedClosed'
  PROVE  WalkInv'
  <1>1. ErrorsHalt'
    BY DEF WalkInv, ErrorsHalt
  <1>2. StraysHandled'
    BY DEF WalkInv, StraysHandled
  <1>3. ASSUME NEW s \in Symbols, local[s].lots > 0, seen[s] = 0, s \notin orphans',
               NEW t \in Trades, local[s].trade = t, ~(InCall' /\ cur'.trade = t)
        PROVE  RowSettled(t)'
    <2>1. CASE s \in orphans
      BY <1>3, <2>1
    <2>2. CASE s \notin orphans /\ InCall /\ cur.trade = t
      BY <1>3, <2>2
    <2>3. CASE s \notin orphans /\ ~(InCall /\ cur.trade = t)
      <3>1. RowSettled(t)
        BY <1>3, <2>3 DEF WalkInv, OrphansSettled
      <3>2. row'[t] = row[t]
        BY <1>3, <2>3
      <3> QED
        BY <3>1, <3>2 DEF RowSettled
    <2> QED
      BY <2>1, <2>2, <2>3
  <1>4. OrphansSettled'
    BY <1>3 DEF OrphansSettled
  <1> QED
    BY <1>1, <1>2, <1>4 DEF WalkInv

LEMMA WalkStepWalks ==
  ASSUME WalkInv, TypeOK, RowsOwned,
         \/ \E s \in Symbols, native \in BOOLEAN : OrphanLocal(s, native)
         \/ \E s \in Symbols : HaltOnStray(s) \/ Adopt(s) \/ FlattenStray(s)
         \/ FillsMatch \/ CloseMatched \/ CloseUnknown \/ DropPhantom \/ PhantomCancelled
         \/ \E liquidated \in BOOLEAN : CloseReturns(liquidated)
         \/ Protected \/ \E n \in 0 .. cur.lots, ok \in BOOLEAN : FlattenEnds(n, ok),
         pc \in {"fills", "sibling", "unprotect"} => ~cur.retry
  PROVE  WalkInv'
  <1>0. /\ row \in [Trades -> Statuses] /\ cur.retry \in BOOLEAN /\ halted \in BOOLEAN
        /\ outcome \in [Symbols -> Outcomes]
    BY DEF TypeOK, RowTypes, PassTypes, Call, HealthTypes
  <1>1. ASSUME NEW status, SetRow(cur.trade, status)
        PROVE  /\ \A t \in Trades : row'[t] = row[t] \/ t = cur.trade
               /\ cur.trade \in Trades => row'[cur.trade] = status
    BY <1>0, <1>1 DEF SetRow
  <1>2. ASSUME NEW s \in Symbols, NEW native \in BOOLEAN, OrphanLocal(s, native) PROVE WalkInv'
    <2>1. /\ pc = "walk" /\ s \in orphans /\ orphans' = orphans \ {s}
          /\ UNCHANGED <<seen, local, outcome, row, halted, errors, strays>>
      BY <1>2 DEF OrphanLocal, rowVars, healthVars
    <2>2. CASE RowClosed(local[s].trade)
      <3>1. pc' = pc
        BY <1>2, <2>2 DEF OrphanLocal
      <3>2. \A t \in Trades : local[s].trade = t => RowSettled(t)'
        BY <2>1, <2>2 DEF RowSettled, RowClosed
      <3> QED
        BY <2>1, <3>1, <3>2, RepairWalks DEF Walking, InCall, MatchedClosed, Attended
    <2>3. CASE ~RowClosed(local[s].trade)
      <3>1. /\ pc' = "fills"
            /\ cur' = [trade |-> local[s].trade, sym |-> s, lots |-> local[s].lots,
                       base |-> local[s].base, native |-> native, retry |-> FALSE]
        BY <1>2, <2>3 DEF OrphanLocal
      <3>2. pc' = "fills" /\ cur'.trade = local[s].trade /\ ~cur'.retry
        BY <3>1
      <3> QED
        BY <2>1, <3>2, RepairWalks DEF Walking, InCall, MatchedClosed, Attended
    <2> QED
      BY <2>2, <2>3
  <1>3. ASSUME NEW s \in Symbols, HaltOnStray(s) PROVE WalkInv'
    <2>1. /\ pc = "walk" /\ pc' = "walk" /\ halted' = TRUE /\ strays' = strays \ {s}
          /\ UNCHANGED <<seen, local, outcome, row, errors, orphans>>
      BY <1>3 DEF HaltOnStray, Handles, rowVars
    <2> QED
      BY <2>1, RepairWalks DEF Walking, InCall, MatchedClosed, Attended
  <1>4. ASSUME NEW s \in Symbols, Adopt(s) PROVE WalkInv'
    <2>1. /\ pc = "walk" /\ pc' = "protect" /\ strays' = strays \ {s}
          /\ outcome' = [outcome EXCEPT ![s] = "repaired"]
          /\ UNCHANGED <<seen, local, row, errors, orphans, halted>>
      BY <1>4 DEF Adopt, Handles, rowVars, healthVars
    <2>2. \A r \in Symbols : Attended(r) => Attended(r)'
      BY <1>0, <2>1 DEF Attended
    <2> QED
      BY <2>1, <2>2, RepairWalks DEF Walking, InCall, MatchedClosed
  <1>13. ASSUME NEW s \in Symbols, FlattenStray(s) PROVE WalkInv'
    <2>1. /\ pc = "walk" /\ pc' = "flatten" /\ strays' = strays \ {s}
          /\ UNCHANGED <<seen, local, outcome, row, errors, orphans, halted>>
      BY <1>13 DEF FlattenStray, Handles, rowVars, healthVars
    <2>2. cur'.sym = s
      BY <1>13, NoCallIsCall DEF FlattenStray, Call
    <2>3. \A r \in Symbols : Attended(r) => Attended(r)'
      BY <2>1, <2>2 DEF Attended
    <2> QED
      BY <2>1, <2>3, RepairWalks DEF Walking, InCall, MatchedClosed
  <1>5. CASE FillsMatch
    <2>1. /\ pc = "fills" /\ pc' = "sibling" /\ cur' = cur
          /\ UNCHANGED <<seen, local, outcome, row, errors, orphans, strays, halted>>
      BY <1>5 DEF FillsMatch, rowVars, walkVars, healthVars
    <2> QED
      BY <2>1, RepairWalks DEF Walking, InCall, MatchedClosed, Attended
  <1>6. CASE CloseMatched
    <2>1. /\ pc = "sibling" /\ pc' = "unprotect" /\ cur' = cur /\ SetRow(cur.trade, "closed")
          /\ UNCHANGED <<seen, local, outcome, errors, orphans, strays, halted>>
      BY <1>6 DEF CloseMatched, walkVars, healthVars
    <2>2. MatchedClosed'
      BY <1>1, <2>1 DEF MatchedClosed
    <2>3. \A t \in Trades : row'[t] = row[t] \/ t = cur.trade
      BY <1>1, <2>1
    <2>4. Walking /\ Walking' /\ InCall /\ InCall'
      BY <2>1 DEF Walking, InCall
    <2>5. \A s \in Symbols : Attended(s) => Attended(s)'
      BY <2>1 DEF Attended
    <2> QED
      BY <2>1, <2>2, <2>3, <2>4, <2>5, RepairWalks
  <1>7. CASE CloseUnknown
    <2>1. /\ pc = "fills" /\ pc' = "walk" /\ halted' = TRUE /\ SetRow(cur.trade, "pending")
          /\ UNCHANGED <<seen, local, outcome, errors, orphans, strays>>
      BY <1>7 DEF CloseUnknown, walkVars
    <2>2. /\ \A t \in Trades : row'[t] = row[t] \/ t = cur.trade
          /\ cur.trade \in Trades => row'[cur.trade] = "pending"
      BY <1>1, <2>1
    <2>3. \A t \in Trades : cur.trade = t => RowSettled(t)'
      BY <2>1, <2>2 DEF RowSettled
    <2>4. Walking /\ Walking' /\ InCall /\ MatchedClosed'
      BY <2>1 DEF Walking, InCall, MatchedClosed
    <2>5. \A s \in Symbols : Attended(s) => Attended(s)'
      BY <2>1 DEF Attended
    <2> QED
      BY <2>1, <2>2, <2>3, <2>4, <2>5, RepairWalks
  <1>8. CASE DropPhantom
    <2>1. /\ pc = "fills" /\ pc' = "phantom" /\ cur' = cur
          /\ UNCHANGED <<seen, local, outcome, row, errors, orphans, strays, halted>>
      BY <1>8 DEF DropPhantom, rowVars, walkVars, healthVars
    <2> QED
      BY <2>1, RepairWalks DEF Walking, InCall, MatchedClosed, Attended
  <1>9. CASE PhantomCancelled
    <2>1. /\ pc = "phantom" /\ pc' = "walk" /\ SetRow(cur.trade, "cancelled")
          /\ UNCHANGED <<seen, local, outcome, errors, orphans, strays, halted>>
      BY <1>9 DEF PhantomCancelled, walkVars, healthVars
    <2>2. /\ \A t \in Trades : row'[t] = row[t] \/ t = cur.trade
          /\ cur.trade \in Trades => row'[cur.trade] = "cancelled"
      BY <1>1, <2>1
    <2>3. \A t \in Trades : cur.trade = t => RowSettled(t)'
      BY <2>2 DEF RowSettled
    <2>4. Walking /\ Walking' /\ InCall /\ MatchedClosed'
      BY <2>1 DEF Walking, InCall, MatchedClosed
    <2>5. \A s \in Symbols : Attended(s) => Attended(s)'
      BY <2>1 DEF Attended
    <2> QED
      BY <2>1, <2>2, <2>3, <2>4, <2>5, RepairWalks
  <1>10. ASSUME NEW liquidated \in BOOLEAN, CloseReturns(liquidated) PROVE WalkInv'
    <2>1. /\ pc = "unprotect" /\ pc' = "walk" /\ (halted => halted')
          /\ UNCHANGED <<seen, local, outcome, row, errors, orphans, strays>>
      BY <1>10 DEF CloseReturns, rowVars, walkVars
    <2>2. \A t \in Trades : cur.trade = t => RowSettled(t)'
      BY <2>1 DEF WalkInv, MatchedClosed, RowSettled
    <2>3. Walking /\ Walking' /\ InCall /\ MatchedClosed'
      BY <2>1 DEF Walking, InCall, MatchedClosed
    <2>4. \A s \in Symbols : Attended(s) => Attended(s)'
      BY <2>1 DEF Attended
    <2> QED
      BY <2>1, <2>2, <2>3, <2>4, RepairWalks
  <1>11. CASE Protected
    <2>1. /\ pc = "protect" /\ pc' = "walk"
          /\ UNCHANGED <<seen, local, outcome, row, errors, orphans, strays, halted>>
      BY <1>11 DEF Protected, rowVars, walkVars, healthVars
    <2> QED
      BY <2>1, RepairWalks DEF Walking, InCall, MatchedClosed, Attended
  <1>12. ASSUME NEW n \in 0 .. cur.lots, NEW ok \in BOOLEAN, FlattenEnds(n, ok)
         PROVE  WalkInv'
    <2>1. /\ pc = "flatten" /\ pc' = "walk" /\ (halted => halted')
          /\ (errors' => errors \/ halted')
          /\ UNCHANGED <<seen, local, row, orphans, strays>>
          /\ \E o \in {"repaired", "unfilled"} : outcome' = [outcome EXCEPT ![cur.sym] = o]
      BY <1>12 DEF FlattenEnds, rowVars
    <2>2. \A s \in Symbols : Attended(s) => Attended(s)'
      BY <1>0, <2>1 DEF Attended
    <2> QED
      BY <2>1, <2>2, RepairWalks DEF Walking, InCall, MatchedClosed
  <1> QED
    BY <1>2, <1>3, <1>4, <1>5, <1>6, <1>7, <1>8, <1>9, <1>10, <1>11, <1>12, <1>13

LEMMA WalkKept == ASSUME WalkInv, TypeOK, RowsOwned, [Next]_vars PROVE WalkInv'
  <1>1. CASE Exchange \/ Ages \/ UNCHANGED vars
    BY <1>1, OutsideWalks
  <1>2. CASE Trading
    BY <1>2, TradingWalks
  <1>3. CASE Pass
    <2>1. CASE pc \in {"fills", "sibling", "unprotect"} /\ cur.retry
      <3>1. \/ FillsMatch \/ CloseMatched \/ StillPending
            \/ \E liquidated \in BOOLEAN : CloseReturns(liquidated)
        BY <1>3, <2>1 DEF Pass, PassFails, ReadAccount, ReadOrders, StartWalk, Retry,
           OrphanLocal, HaltOnStray, Adopt, FlattenStray, Handles, CloseUnknown, DropPhantom,
           PhantomCancelled, Protected, FlattenEnds, PassEnds
      <3> QED
        BY <2>1, <3>1, EdgeWalks
    <2>2. CASE ~(pc \in {"fills", "sibling", "unprotect"} /\ cur.retry)
      BY <1>3, <2>2, EdgeWalks, WalkStepWalks DEF Pass
    <2> QED
      BY <2>1, <2>2
  <1> QED
    BY <1>1, <1>2, <1>3 DEF Next

\* The end of a pass is PassEnds, whose lists are empty.
LEMMA EndDealt ==
  ASSUME WalkInv, TypeOK, [Next]_vars, pc = "walk", pc' = "idle", ~EntriesBlocked',
         NEW s \in Symbols
  PROVE  DealtWith(s) \/ Unfilled(s)
  <1>1. PassEnds
    BY DEF Next, Exchange, ExFills, ExTriggers, ExExecutesClose, ExRefusesClose, Trading,
       Enter, Lapses, OmsCredits, ExitWithoutTrade, ExitSubmits, ExitEnds, ExitFails, Ages,
       Pass, PassFails, ReadAccount, ReadOrders, StartWalk, Retry, OrphanLocal, HaltOnStray,
       Adopt, FlattenStray, Handles, FillsMatch, CloseMatched, CloseReturns, StillPending,
       CloseUnknown, DropPhantom, PhantomCancelled, Protected, FlattenEnds, vars, passVars
  <1>2. /\ orphans = {} /\ strays = {} /\ (halted => halted')
        /\ Mismatches # {} => halted'
    BY <1>1 DEF PassEnds
  <1>3. ~halted /\ Mismatches = {}
    BY <1>2 DEF EntriesBlocked
  <1>5. local[s].lots \in Nat /\ seen[s] \in Nat
    BY DEF TypeOK, PassTypes, Position
  <1>6. CASE local[s].lots > 0 /\ seen[s] > 0
    BY <1>3, <1>5, <1>6 DEF Mismatches, DealtWith
  <1>7. CASE local[s].lots = 0 /\ seen[s] > 0
    <2>1. outcome[s] # "none"
      BY <1>2, <1>3, <1>7 DEF WalkInv, StraysHandled, Attended, Walking
    <2>2. outcome[s] \in {"repaired", "unfilled"}
      BY <2>1 DEF TypeOK, PassTypes, Outcomes
    <2> QED
      BY <1>7, <2>2 DEF DealtWith, Unfilled
  <1>8. CASE local[s].lots > 0 /\ seen[s] = 0
    <2>1. local[s].trade \in Trades => RowSettled(local[s].trade)
      BY <1>2, <1>8 DEF WalkInv, OrphansSettled, Walking, InCall
    <2> QED
      BY <1>3, <1>8, <2>1 DEF DealtWith, RowSettled
  <1> QED
    BY <1>5, <1>6, <1>7, <1>8 DEF DealtWith

LEMMA WalkHeld == Spec => []WalkInv
  <1>1. Init => WalkInv
    BY DEF Init, WalkInv, ErrorsHalt, StraysHandled, OrphansSettled, MatchedClosed, Walking
  <1>2. WalkInv /\ TypeOK /\ RowsOwned /\ [Next]_vars => WalkInv'
    BY WalkKept
  <1> QED
    BY <1>1, <1>2, TypeCorrect, RowsAreOwned, PTL DEF Spec

\* A pass that leaves entries open has dealt with every difference it compared, for any
\* symbols and trades: orphans have a closed or cancelled row, strays are adopted or their
\* close has filled, what could not be repaired raised a halt, and neither the repairs that
\* follow in the pass nor what moves during their awaits takes that halt back.  Only a
\* flattening close that is refused, or fills in part, with an answer that raises nothing
\* leaves its stray and no halt (_handle_orphan_exchange under FLATTEN).
THEOREM DifferencesDealt == Spec => DriftDealtWith
  <1>1. WalkInv /\ TypeOK /\ [Next]_vars =>
            [pc = "walk" /\ pc' = "idle" /\ ~EntriesBlocked' =>
                 \A s \in Symbols : DealtWith(s) \/ Unfilled(s)]_vars
    BY EndDealt
  <1> QED
    BY <1>1, WalkHeld, TypeCorrect, PTL DEF Spec, DriftDealtWith

(***************************************************************************)
(* The halt of a row that waits.                                             *)
(***************************************************************************)
\* A row that waits, or is being retried and may be set to wait again.
Waits(t) == row[t] = "pending" \/ (cur.retry /\ cur.trade = t)
WaitInv == \A t \in Trades : Waits(t) => halted \/ t \in lifted

\* A step that takes no halt back and makes no row wait without one.
LEMMA WaitFrame ==
  ASSUME WaitInv, halted => halted', lifted' = lifted,
         \A t \in Trades : Waits(t)' => Waits(t) \/ halted'
  PROVE  WaitInv'
  BY DEF WaitInv

LEMMA OutsideWaits ==
  ASSUME WaitInv, TypeOK, Exchange \/ Trading \/ Ages \/ UNCHANGED vars
  PROVE  WaitInv'
  <1>1. UNCHANGED <<cur, halted, lifted>>
    BY DEF Exchange, ExFills, ExTriggers, ExExecutesClose, ExRefusesClose, Ages, vars,
       Trading, Enter, Lapses, OmsCredits, ExitWithoutTrade, ExitSubmits, ExitEnds,
       ExitFails, healthVars, passVars
  <1>2. CASE Trading
    BY <1>1, <1>2, TradingRows, WaitFrame DEF Waits
  <1>3. CASE Exchange \/ Ages \/ UNCHANGED vars
    <2>1. UNCHANGED row
      BY <1>3 DEF Exchange, ExFills, ExTriggers, ExExecutesClose, ExRefusesClose, Ages,
         vars, rowVars
    <2> QED
      BY <1>1, <2>1, WaitFrame DEF Waits
  <1> QED
    BY <1>2, <1>3

\* The steps of the pass that write no row.
LEMMA ReadingWaits ==
  ASSUME WaitInv, TypeOK, RowsOwned,
         \/ PassFails \/ ReadAccount \/ ReadOrders \/ StartWalk \/ PassEnds
         \/ \E t \in Trades : Retry(t)
         \/ \E s \in Symbols, native \in BOOLEAN : OrphanLocal(s, native)
         \/ \E s \in Symbols : HaltOnStray(s) \/ Adopt(s) \/ FlattenStray(s)
         \/ FillsMatch \/ DropPhantom \/ Protected
         \/ \E n \in 0 .. cur.lots, ok \in BOOLEAN : FlattenEnds(n, ok)
  PROVE  WaitInv'
  <1>0. halted \in BOOLEAN
    BY DEF TypeOK, HealthTypes
  <1>1. UNCHANGED <<row, lifted>> /\ (halted => halted')
    <2>1. CASE PassFails \/ PassEnds
      BY <1>0, <2>1 DEF PassFails, RecordFailure, PassEnds, rowVars
    <2>2. CASE \E n \in 0 .. cur.lots, ok \in BOOLEAN : FlattenEnds(n, ok)
      BY <1>0, <2>2 DEF FlattenEnds, rowVars
    <2>3. CASE \/ ReadAccount \/ ReadOrders \/ StartWalk \/ FillsMatch \/ DropPhantom
               \/ Protected \/ \E t \in Trades : Retry(t)
      BY <2>3 DEF ReadAccount, ReadOrders, StartWalk, Retry, FillsMatch, DropPhantom,
         Protected, rowVars, healthVars
    <2>4. ASSUME NEW s \in Symbols,
                 \/ \E native \in BOOLEAN : OrphanLocal(s, native)
                 \/ HaltOnStray(s) \/ Adopt(s) \/ FlattenStray(s)
          PROVE  UNCHANGED <<row, lifted>> /\ (halted => halted')
      <3>1. row' = row /\ lifted' = lifted
        BY <2>4 DEF OrphanLocal, HaltOnStray, Adopt, FlattenStray, rowVars, healthVars
      <3>2. halted' \in {halted, TRUE}
        BY <2>4 DEF OrphanLocal, HaltOnStray, Adopt, FlattenStray, healthVars
      <3> QED
        BY <1>0, <3>1, <3>2
    <2> QED
      BY <2>1, <2>2, <2>3, <2>4
  <1>2. CASE \/ ReadAccount \/ ReadOrders \/ StartWalk \/ FillsMatch \/ DropPhantom
             \/ Protected \/ \E s \in Symbols : HaltOnStray(s) \/ Adopt(s)
    <2>1. cur' = cur
      BY <1>2 DEF ReadAccount, ReadOrders, StartWalk, FillsMatch, DropPhantom, Protected,
         HaltOnStray, Adopt
    <2> QED
      BY <1>1, <2>1, WaitFrame DEF Waits
  <1>3. CASE \/ PassFails \/ PassEnds
             \/ \E n \in 0 .. cur.lots, ok \in BOOLEAN : FlattenEnds(n, ok)
    <2>1. cur' = NoCall
      BY <1>3 DEF PassFails, PassEnds, FlattenEnds, Idle
    <2> QED
      BY <1>1, <2>1, NoCallFacts, WaitFrame DEF Waits
  <1>4. ASSUME NEW t \in Trades, Retry(t) PROVE WaitInv'
    <2>1. t \in todo
      BY <1>4 DEF Retry
    <2>2. CASE row[t] = "closed"
      BY <1>1, <1>4, <2>2, WaitFrame DEF Retry, Waits
    <2>3. CASE row[t] # "closed"
      <3>1. row[t] = "pending"
        BY <2>1, <2>3 DEF RowsOwned, TodoWaits
      <3>2. cur' = [trade |-> t, sym |-> SymOf[t], lots |-> 1, base |-> base[t],
                    native |-> TRUE, retry |-> TRUE]
        BY <1>4, <2>3 DEF Retry
      <3>3. cur'.trade = t
        BY <3>2
      <3> QED
        BY <1>1, <3>1, <3>3, WaitFrame DEF Waits
    <2> QED
      BY <2>2, <2>3
  <1>5. ASSUME NEW s \in Symbols, NEW native \in BOOLEAN, OrphanLocal(s, native)
        PROVE  WaitInv'
    <2>1. \/ cur' = cur
          \/ cur' = [trade |-> local[s].trade, sym |-> s, lots |-> local[s].lots,
                      base |-> local[s].base, native |-> native, retry |-> FALSE]
      BY <1>5 DEF OrphanLocal
    <2>2. cur' = cur \/ cur'.retry = FALSE
      BY <2>1
    <2> QED
      BY <1>1, <2>2, WaitFrame DEF Waits
  <1>6. ASSUME NEW s \in Symbols, FlattenStray(s) PROVE WaitInv'
    <2>1. cur'.retry = FALSE
      BY <1>6 DEF FlattenStray, NoCall
    <2> QED
      BY <1>1, <2>1, WaitFrame DEF Waits
  <1> QED
    BY <1>2, <1>3, <1>4, <1>5, <1>6

\* The steps of the pass that write a row, and the return of a close.
LEMMA WritingWaits ==
  ASSUME WaitInv, WalkInv, TypeOK, RowsOwned,
         \/ CloseMatched \/ StillPending \/ CloseUnknown \/ PhantomCancelled
         \/ \E liquidated \in BOOLEAN : CloseReturns(liquidated)
  PROVE  WaitInv'
  <1>0. /\ row \in [Trades -> Statuses] /\ halted \in BOOLEAN /\ cur.retry \in BOOLEAN
        /\ cur.trade \in MaybeTrade
    BY DEF TypeOK, RowTypes, HealthTypes, PassTypes, Call
  <1>1. ASSUME NEW status, SetRow(cur.trade, status), NEW t \in Trades
        PROVE  row'[t] = IF t = cur.trade THEN status ELSE row[t]
    BY <1>0, <1>1 DEF SetRow
  <1>2. CASE CloseMatched
    <2>1. UNCHANGED <<cur, halted, lifted>> /\ SetRow(cur.trade, "closed")
      BY <1>2 DEF CloseMatched, healthVars
    <2> QED
      BY <1>1, <2>1, WaitFrame DEF Waits
  <1>3. CASE StillPending \/ CloseUnknown
    <2>1. /\ cur' = NoCall /\ lifted' = lifted /\ SetRow(cur.trade, "pending")
          /\ (halted => halted') /\ (cur.retry \/ halted')
      BY <1>3 DEF StillPending, CloseUnknown, healthVars
    <2> QED
      BY <1>1, <2>1, NoCallFacts, WaitFrame DEF Waits
  <1>4. CASE PhantomCancelled
    <2>1. cur' = NoCall /\ UNCHANGED <<halted, lifted>> /\ SetRow(cur.trade, "cancelled")
      BY <1>4 DEF PhantomCancelled, healthVars
    <2> QED
      BY <1>1, <2>1, NoCallFacts, WaitFrame DEF Waits
  <1>5. ASSUME NEW liquidated \in BOOLEAN, CloseReturns(liquidated) PROVE WaitInv'
    <2>1. pc = "unprotect" /\ cur' = NoCall /\ row' = row
      BY <1>5 DEF CloseReturns, rowVars
    <2>2. CASE ~cur.retry
      <3>1. lifted' = lifted /\ (halted => halted')
        BY <1>0, <1>5, <2>2 DEF CloseReturns
      <3> QED
        BY <2>1, <3>1, NoCallFacts, WaitFrame DEF Waits
    \* The row of the retry itself is closed by now.
    <2>3. CASE cur.retry
      <3>1. cur.trade \in Trades => row[cur.trade] = "closed"
        BY <2>1 DEF WalkInv, MatchedClosed
      <3>2. lifted' = lifted \cup {t \in Trades \ {cur.trade} : row[t] = "pending"}
        BY <1>5, <2>3 DEF CloseReturns
      <3>3. \A t \in Trades : Waits(t)' => row[t] = "pending"
        BY <2>1, NoCallFacts DEF Waits
      <3> QED
        BY <3>1, <3>2, <3>3 DEF WaitInv
    <2> QED
      BY <1>0, <2>2, <2>3
  <1> QED
    BY <1>2, <1>3, <1>4, <1>5

LEMMA WaitKept == ASSUME WaitInv, WalkInv, TypeOK, RowsOwned, [Next]_vars PROVE WaitInv'
  BY OutsideWaits, ReadingWaits, WritingWaits DEF Next, Pass

\* A row that waits for the fill tape is never cancelled and never opened again, by any
\* interleaving of the pass with fills and exits, and entries stay halted until it is
\* closed, unless the retry of another row lifts all halts: PendingEndsClosed for any
\* instance.
THEOREM PendingEnds == Spec => PendingEndsClosed
  <1>1. Init => WaitInv
    BY NoCallFacts DEF Init, WaitInv, Waits
  <1>2. WaitInv /\ WalkInv /\ TypeOK /\ RowsOwned /\ [Next]_vars => WaitInv'
    BY WaitKept
  <1>3. WaitInv /\ TypeOK /\ RowsOwned /\ [Next]_vars =>
            [\A t \in Trades : row[t] = "pending" =>
                /\ row'[t] \in {"pending", "closed"}
                /\ halted \/ t \in lifted]_vars
    BY PendingStep DEF WaitInv, Waits
  <1> QED
    BY <1>1, <1>2, <1>3, WalkHeld, TypeCorrect, RowsAreOwned, PTL DEF Spec, PendingEndsClosed
=============================================================================
