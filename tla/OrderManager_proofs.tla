------------------------- MODULE OrderManager_proofs -------------------------
(***************************************************************************)
(* Theorems about OrderManager, for any symbols, any number of orders, any   *)
(* order size and any number of restarts and kills.                          *)
(*                                                                           *)
(* IInv is the inductive invariant.  Each action has a lemma that it keeps   *)
(* IInv, with one step for the parts whose variables it leaves alone and one *)
(* step per part it can disturb; the theorems at the end follow from IInv.   *)
(***************************************************************************)
EXTENDS OrderManager, TLAPS, LeastElement

\* What the exchange holds of an order, by its state.
ExchangeInv ==
    \A o \in Orders : /\ exSt[o] \in {"none", "sent", "refused"} => exFill[o] = 0
                      /\ o >= nextId => exSt[o] = "none"

\* An order being submitted, or not yet submitted, has left no trace.
EntryInv ==
    /\ \A o \in Orders : o >= nextId => db[o] = "none"
    /\ \A o \in Orders : db[o] = "none" =>
          /\ ~tracked[o] /\ o \notin tasks
          /\ filled[o] = 0 /\ credited[o] = 0 /\ dbFilled[o] = 0
    /\ \A s \in Symbols : entering[s] # NoOrder =>
          /\ SymOf[entering[s]] = s /\ entering[s] < nextId
          /\ db[entering[s]] = "none"

\* A record, its row and the exchange agree on what was filled.
RecordInv ==
    \A o \in Orders :
       /\ db[o] = "resting" => dbFilled[o] = 0
       /\ db[o] = "partial" => dbFilled[o] > 0
       /\ db[o] \in WorkingRows => dbFilled[o] <= exFill[o]
       /\ ~tracked[o] <=> status[o] = "none"
       /\ status[o] \in Working \cup {"timeout"} =>
             db[o] \in WorkingRows /\ filled[o] = dbFilled[o]
       /\ status[o] = "open" => filled[o] = 0
       /\ status[o] = "partial" => filled[o] > 0
       /\ status[o] # "cancelled"
       /\ handled[o] <=> status[o] \in {"timeout", "filled"}

\* The poller's round and await are about records it still owns.
PollInv ==
    /\ \A o \in round : status[o] \in Working /\ o # pollOrder
    /\ pollAt = "idle" <=> pollOrder = NoOrder
    /\ pollAt = "query" => status[pollOrder] \in Working
    /\ pollAt \in {"cancelOpen", "cancelPartial"} => status[pollOrder] = "timeout"
    /\ pollAt = "cancelOpen" => filled[pollOrder] = 0
    /\ pollAt = "cancelPartial" => filled[pollOrder] > 0
    /\ killed => ~loopUp /\ pollAt = "idle" /\ round = {}

\* Trades that are open or being closed name distinct open rows of the symbol.
TradesOf(s) ==
    /\ openTrade[s] # NoOrder =>
          SymOf[openTrade[s]] = s /\ db[openTrade[s]] = "open"
    /\ closing[s] # "none" =>
          /\ closeTrade[s] \in Orders
          /\ SymOf[closeTrade[s]] = s
          /\ db[closeTrade[s]] = "open"
          /\ closeTrade[s] # openTrade[s]
          /\ entering[s] = NoOrder

TradeInv == \A s \in Symbols : TradesOf(s)

IInv == TypeOK /\ ExchangeInv /\ EntryInv /\ RecordInv /\ PollInv /\ TradeInv

USE MaxOrdersAssumption, SymOfAssumption, FullAssumption, PartialIocAssumption,
    BoundsAssumption DEF Orders, NoOrder

-----------------------------------------------------------------------------
(***************************************************************************)
(* Lemmas shared by several actions.                                        *)
(***************************************************************************)
\* A part of IInv none of whose variables an action changes still holds.
LEMMA TypesKept ==
  ASSUME TypeOK, UNCHANGED vars PROVE TypeOK'
BY DEF TypeOK, ExchangeType, EntryType, RecordType, PollType, PositionType, RowType,
       KillType, vars, exchVars, entryVars, recordVars, pollVars, positionVars,
       closeVars, dbVars, killVars

LEMMA ExchangeKept ==
  ASSUME ExchangeInv, UNCHANGED <<exSt, exFill, nextId>>
  PROVE  ExchangeInv'
BY DEF ExchangeInv

LEMMA EntryKept ==
  ASSUME EntryInv, UNCHANGED <<nextId, entering, db, dbFilled, tracked, tasks,
                               filled, credited>>
  PROVE  EntryInv'
BY DEF EntryInv

LEMMA RecordKept ==
  ASSUME RecordInv, UNCHANGED <<db, dbFilled, exFill, tracked, status, filled, handled>>
  PROVE  RecordInv'
BY DEF RecordInv

LEMMA PollKept ==
  ASSUME PollInv, UNCHANGED <<status, filled, round, pollOrder, pollAt, killed, loopUp>>
  PROVE  PollInv'
BY DEF PollInv

LEMMA TradeKept ==
  ASSUME TradeInv, UNCHANGED <<openTrade, closing, closeTrade, db, entering>>
  PROVE  TradeInv'
BY DEF TradeInv, TradesOf

\* So does TradeInv if entries may end and open rows stay open.
LEMMA TradesStayOpen ==
  ASSUME PositionType, TradeInv,
         \A o \in Orders : db[o] = "open" => db'[o] = "open",
         \A s \in Symbols : entering'[s] \in {entering[s], NoOrder},
         UNCHANGED <<openTrade, closing, closeTrade>>
  PROVE  TradeInv'
<1>. SUFFICES ASSUME NEW s \in Symbols PROVE TradesOf(s)'
  BY DEF TradeInv
<1>1. TradesOf(s) /\ openTrade[s] \in Orders \cup {NoOrder}
  BY DEF TradeInv, PositionType
<1>2. /\ openTrade'[s] = openTrade[s] /\ closing'[s] = closing[s]
      /\ closeTrade'[s] = closeTrade[s] /\ entering'[s] \in {entering[s], NoOrder}
  OBVIOUS
<1>3. openTrade'[s] # NoOrder =>
         SymOf[openTrade'[s]] = s /\ db'[openTrade'[s]] = "open"
  BY <1>1, <1>2 DEF TradesOf
<1>4. closing'[s] # "none" =>
         /\ closeTrade'[s] \in Orders
         /\ SymOf[closeTrade'[s]] = s
         /\ db'[closeTrade'[s]] = "open"
         /\ closeTrade'[s] # openTrade'[s]
         /\ entering'[s] = NoOrder
  BY <1>1, <1>2 DEF TradesOf
<1>. QED
  BY <1>3, <1>4 DEF TradesOf

\* Filling an order more keeps what its record and its row say of it.
LEMMA FillKeepsRecords ==
  ASSUME ExchangeType, RowType, RecordInv,
         NEW o \in Orders, NEW n \in 1..Full, exFill[o] + n <= Full, Fill(o, n),
         UNCHANGED recordVars, UNCHANGED dbVars
  PROVE  RecordInv'
<1>1. \A p \in Orders : /\ exFill[p] \in Nat /\ exFill'[p] \in Nat
                        /\ dbFilled[p] \in Nat /\ exFill[p] <= exFill'[p]
  BY SMTT(30) DEF ExchangeType, RowType, Fill, Lots
<1>. SUFFICES ASSUME NEW p \in Orders, db[p] \in WorkingRows
              PROVE  dbFilled[p] <= exFill'[p]
  BY DEF RecordInv, recordVars, dbVars
<1>. QED
  BY <1>1 DEF RecordInv

LEMMA FillTypes ==
  ASSUME ExchangeType, NEW o \in Orders, NEW n \in 1..Full,
         exFill[o] + n <= Full, Fill(o, n)
  PROVE  exFill' \in [Orders -> Lots] /\ exPos' \in [Symbols -> Nat]
<1>1. exFill[o] + n \in Lots /\ exPos[SymOf[o]] + n \in Nat
  BY DEF ExchangeType, Lots
<1>. QED
  BY <1>1 DEF Fill, ExchangeType

-----------------------------------------------------------------------------
(*****************************************************************************)
(* The exchange.                                                             *)
(*****************************************************************************)
LEMMA ExRestInv ==
  ASSUME NEW o \in Orders, IInv, ExRest(o)
  PROVE  IInv'
<1>1. RecordType' /\ PollType' /\ PositionType' /\ RowType' /\ KillType'
  BY DEF IInv, TypeOK, ExRest, recordVars, pollVars, positionVars, closeVars, dbVars,
     killVars, RecordType, PollType, PositionType, RowType, KillType
<1>2. EntryInv' /\ RecordInv' /\ PollInv' /\ TradeInv'
  BY EntryKept, RecordKept, PollKept, TradeKept
     DEF IInv, ExRest, recordVars, dbVars, pollVars, killVars, positionVars, closeVars
<1>3. ExchangeType'
  BY DEF IInv, TypeOK, ExRest, Answer, ExchangeType, ExStates, Lots
<1>4. EntryType'
  BY DEF IInv, TypeOK, ExRest, Answer, EntryType, Acks
<1>5. ExchangeInv'
  BY DEF IInv, TypeOK, ExRest, Answer, ExchangeInv, ExchangeType, EntryType, ExStates,
     Acks, Lots
<1>. QED
  BY <1>1, <1>2, <1>3, <1>4, <1>5 DEF IInv, TypeOK

LEMMA ExFillAtOnceInv ==
  ASSUME NEW o \in Orders, IInv, ExFillAtOnce(o)
  PROVE  IInv'
<1>1. RecordType' /\ PollType' /\ PositionType' /\ RowType' /\ KillType'
  BY DEF IInv, TypeOK, ExFillAtOnce, recordVars, pollVars, positionVars, closeVars,
     dbVars, killVars, RecordType, PollType, PositionType, RowType, KillType
<1>2. EntryInv' /\ PollInv' /\ TradeInv'
  BY EntryKept, PollKept, TradeKept
     DEF IInv, ExFillAtOnce, recordVars, dbVars, pollVars, killVars, positionVars,
        closeVars
<1>3. ExchangeType'
  <2>1. exSt' \in [Orders -> ExStates]
    BY DEF IInv, TypeOK, ExchangeType, ExFillAtOnce, ExStates
  <2>2. PICK n \in 1..Full : Fill(o, n)
    BY DEF ExFillAtOnce, IocFills
  <2>3. exFill[o] + n <= Full
    BY DEF IInv, TypeOK, ExchangeType, ExchangeInv, ExFillAtOnce
  <2>. QED
    BY <2>1, <2>2, <2>3, FillTypes DEF IInv, TypeOK, ExchangeType
<1>4. EntryType'
  BY DEF IInv, TypeOK, ExFillAtOnce, Answer, Fill, IocFills, EntryType, Acks
<1>5. ExchangeInv'
  BY DEF IInv, TypeOK, ExFillAtOnce, Answer, Fill, IocFills, ExchangeInv, ExchangeType,
     EntryType, ExStates, Acks, Lots
<1>6. RecordInv'
  <2>1. PICK n \in 1..Full : Fill(o, n)
    BY DEF ExFillAtOnce, IocFills
  <2>2. exFill[o] + n <= Full
    BY DEF IInv, TypeOK, ExchangeType, ExchangeInv, ExFillAtOnce
  <2>. QED
    BY <2>1, <2>2, FillKeepsRecords DEF IInv, TypeOK, ExFillAtOnce
<1>. QED
  BY <1>1, <1>2, <1>3, <1>4, <1>5, <1>6 DEF IInv, TypeOK

LEMMA ExRefuseInv ==
  ASSUME NEW o \in Orders, IInv, ExRefuse(o)
  PROVE  IInv'
<1>1. RecordType' /\ PollType' /\ PositionType' /\ RowType' /\ KillType'
  BY DEF IInv, TypeOK, ExRefuse, recordVars, pollVars, positionVars, closeVars, dbVars,
     killVars, RecordType, PollType, PositionType, RowType, KillType
<1>2. EntryInv' /\ RecordInv' /\ PollInv' /\ TradeInv'
  BY EntryKept, RecordKept, PollKept, TradeKept
     DEF IInv, ExRefuse, recordVars, dbVars, pollVars, killVars, positionVars, closeVars
<1>3. ExchangeType'
  BY DEF IInv, TypeOK, ExRefuse, Answer, ExchangeType, ExStates, Lots
<1>4. EntryType'
  BY DEF IInv, TypeOK, ExRefuse, Answer, EntryType, Acks
<1>5. ExchangeInv'
  BY DEF IInv, TypeOK, ExRefuse, Answer, ExchangeInv, ExchangeType, EntryType, ExStates,
     Acks, Lots
<1>. QED
  BY <1>1, <1>2, <1>3, <1>4, <1>5 DEF IInv, TypeOK

LEMMA ExFillRestingInv ==
  ASSUME NEW o \in Orders, IInv, ExFillResting(o)
  PROVE  IInv'
<1>1. EntryType' /\ RecordType' /\ PollType' /\ PositionType' /\ RowType' /\
     KillType'
  BY DEF IInv, TypeOK, ExFillResting, entryVars, recordVars, pollVars, positionVars,
     closeVars, dbVars, killVars, EntryType, RecordType, PollType, PositionType, RowType,
     KillType
<1>2. EntryInv' /\ PollInv' /\ TradeInv'
  BY EntryKept, PollKept, TradeKept
     DEF IInv, ExFillResting, entryVars, recordVars, dbVars, pollVars, killVars,
        positionVars, closeVars
<1>3. ExchangeType'
  <2>1. exSt' \in [Orders -> ExStates]
    BY DEF IInv, TypeOK, ExchangeType, ExFillResting, ExStates
  <2>2. PICK n \in 1..Full : exFill[o] + n <= Full /\ Fill(o, n)
    BY DEF ExFillResting
  <2>. QED
    BY <2>1, <2>2, FillTypes DEF IInv, TypeOK, ExchangeType
<1>4. ExchangeInv'
  BY DEF IInv, TypeOK, ExFillResting, Fill, entryVars, ExchangeInv, ExchangeType,
     EntryType, ExStates, Acks, Lots
<1>5. RecordInv'
  <2>1. PICK n \in 1..Full : exFill[o] + n <= Full /\ Fill(o, n)
    BY DEF ExFillResting
  <2>. QED
    BY <2>1, FillKeepsRecords DEF IInv, TypeOK, ExFillResting
<1>. QED
  BY <1>1, <1>2, <1>3, <1>4, <1>5 DEF IInv, TypeOK

LEMMA ExDropInv ==
  ASSUME NEW o \in Orders, IInv, ExDrop(o)
  PROVE  IInv'
<1>1. EntryType' /\ RecordType' /\ PollType' /\ PositionType' /\ RowType' /\
     KillType'
  BY DEF IInv, TypeOK, ExDrop, entryVars, recordVars, pollVars, positionVars, closeVars,
     dbVars, killVars, EntryType, RecordType, PollType, PositionType, RowType, KillType
<1>2. EntryInv' /\ RecordInv' /\ PollInv' /\ TradeInv'
  BY EntryKept, RecordKept, PollKept, TradeKept
     DEF IInv, ExDrop, entryVars, recordVars, dbVars, pollVars, killVars, positionVars,
        closeVars
<1>3. ExchangeType'
  BY DEF IInv, TypeOK, ExDrop, ExchangeType, ExStates, Lots
<1>4. ExchangeInv'
  BY DEF IInv, TypeOK, ExDrop, entryVars, ExchangeInv, ExchangeType, EntryType, ExStates,
     Acks, Lots
<1>. QED
  BY <1>1, <1>2, <1>3, <1>4 DEF IInv, TypeOK

LEMMA ExCloseInv ==
  ASSUME NEW s \in Symbols, IInv, ExClose(s)
  PROVE  IInv'
<1>1. EntryType' /\ RecordType' /\ PollType' /\ RowType' /\ KillType'
  BY DEF IInv, TypeOK, ExClose, entryVars, recordVars, pollVars, dbVars, killVars,
     EntryType, RecordType, PollType, RowType, KillType
<1>2. ExchangeInv' /\ EntryInv' /\ RecordInv' /\ PollInv'
  BY ExchangeKept, EntryKept, RecordKept, PollKept
     DEF IInv, ExClose, entryVars, recordVars, dbVars, pollVars, killVars
<1>3. ExchangeType'
  <2>1. exPos[s] - Least(exPos[s], closeSize[s]) \in Nat
    BY DEF IInv, TypeOK, ExchangeType, PositionType, Least
  <2>. QED
    BY <2>1 DEF IInv, TypeOK, ExchangeType, ExClose
<1>4. PositionType'
  BY DEF IInv, TypeOK, ExClose, Least, PositionType, CloseStages
<1>5. TradeInv'
  BY DEF IInv, TypeOK, PositionType, TradeInv, TradesOf, ExClose, entryVars, dbVars
<1>. QED
  BY <1>1, <1>2, <1>3, <1>4, <1>5 DEF IInv, TypeOK

LEMMA ExRefuseCloseInv ==
  ASSUME NEW s \in Symbols, IInv, ExRefuseClose(s)
  PROVE  IInv'
<1>1. ExchangeType' /\ EntryType' /\ RecordType' /\ PollType' /\ RowType' /\
     KillType'
  BY DEF IInv, TypeOK, ExRefuseClose, exchVars, entryVars, recordVars, pollVars, dbVars,
     killVars, ExchangeType, EntryType, RecordType, PollType, RowType, KillType
<1>2. ExchangeInv' /\ EntryInv' /\ RecordInv' /\ PollInv'
  BY ExchangeKept, EntryKept, RecordKept, PollKept
     DEF IInv, ExRefuseClose, exchVars, entryVars, recordVars, dbVars, pollVars, killVars
<1>3. PositionType'
  BY DEF IInv, TypeOK, ExRefuseClose, PositionType, CloseStages
<1>4. TradeInv'
  BY DEF IInv, TypeOK, PositionType, TradeInv, TradesOf, ExRefuseClose, entryVars, dbVars
<1>. QED
  BY <1>1, <1>2, <1>3, <1>4 DEF IInv, TypeOK

-----------------------------------------------------------------------------
(*****************************************************************************)
(* Entry.                                                                    *)
(*****************************************************************************)
LEMMA EnterSubmitInv ==
  ASSUME NEW s \in Symbols, IInv, EnterSubmit(s)
  PROVE  IInv'
<1>1. RecordType' /\ PollType' /\ PositionType' /\ RowType' /\ KillType'
  BY DEF IInv, TypeOK, EnterSubmit, recordVars, pollVars, positionVars, closeVars, dbVars,
     killVars, RecordType, PollType, PositionType, RowType, KillType
<1>2. RecordInv' /\ PollInv'
  BY RecordKept, PollKept
     DEF IInv, EnterSubmit, recordVars, dbVars, pollVars, killVars
<1>3. ExchangeType'
  BY DEF IInv, TypeOK, EnterSubmit, SymbolFree, OpenRow, ExchangeType, ExStates, Lots
<1>4. EntryType'
  BY DEF IInv, TypeOK, EnterSubmit, SymbolFree, OpenRow, EntryType, Acks
<1>5. ExchangeInv'
  BY DEF IInv, TypeOK, EnterSubmit, SymbolFree, OpenRow, ExchangeInv, ExchangeType,
     EntryType, ExStates, Acks, Lots
<1>6. EntryInv'
  BY DEF IInv, TypeOK, EnterSubmit, SymbolFree, OpenRow, recordVars, dbVars, EntryInv,
     EntryType, RecordType, RowType, Acks, Statuses, DbStatuses, Lots
<1>7. TradeInv'
  BY SMTT(30) DEF IInv, TypeOK, EnterSubmit, SymbolFree, OpenRow, positionVars, closeVars, dbVars,
     TradeInv, EntryType, PositionType, RowType, TradesOf, Acks, DbStatuses, CloseStages,
     Lots
<1>. QED
  BY <1>1, <1>2, <1>3, <1>4, <1>5, <1>6, <1>7 DEF IInv, TypeOK

LEMMA EnterRaisesInv ==
  ASSUME NEW s \in Symbols, IInv, EnterRaises(s)
  PROVE  IInv'
<1>1. ExchangeType' /\ RecordType' /\ PollType' /\ PositionType' /\ RowType' /\
     KillType'
  BY DEF IInv, TypeOK, EnterRaises, exchVars, recordVars, pollVars, positionVars,
     closeVars, dbVars, killVars, ExchangeType, RecordType, PollType, PositionType,
     RowType, KillType
<1>2. ExchangeInv' /\ RecordInv' /\ PollInv'
  BY ExchangeKept, RecordKept, PollKept
     DEF IInv, EnterRaises, exchVars, recordVars, dbVars, pollVars, killVars
<1>3. EntryType'
  BY DEF IInv, TypeOK, EnterRaises, EntryType, Acks
<1>4. EntryInv'
  BY DEF IInv, TypeOK, EnterRaises, recordVars, dbVars, EntryInv, EntryType, RecordType,
     RowType, Acks, Statuses, DbStatuses, Lots
<1>5. TradeInv'
  BY TradesStayOpen DEF IInv, TypeOK, EntryType, EnterRaises, positionVars, closeVars, dbVars
<1>. QED
  BY <1>1, <1>2, <1>3, <1>4, <1>5 DEF IInv, TypeOK

LEMMA EnterAmbiguousInv ==
  ASSUME NEW s \in Symbols, IInv, EnterAmbiguous(s)
  PROVE  IInv'
<1>1. ExchangeType' /\ RecordType' /\ PollType' /\ PositionType' /\ KillType'
  BY DEF IInv, TypeOK, EnterAmbiguous, exchVars, recordVars, pollVars, positionVars,
     closeVars, killVars, ExchangeType, RecordType, PollType, PositionType, KillType
<1>2. ExchangeInv' /\ PollInv'
  BY ExchangeKept, PollKept
     DEF IInv, EnterAmbiguous, exchVars, recordVars, pollVars, killVars
<1>3. EntryType'
  BY DEF IInv, TypeOK, EnterAmbiguous, EntryType, Acks
<1>4. RowType'
  BY DEF IInv, TypeOK, EnterAmbiguous, RowType, DbStatuses, Lots
<1>5. EntryInv'
  BY DEF IInv, TypeOK, EnterAmbiguous, recordVars, EntryInv, EntryType, RecordType,
     RowType, Acks, Statuses, DbStatuses, Lots
<1>6. RecordInv'
  BY SMTT(30) DEF IInv, TypeOK, EnterAmbiguous, exchVars, recordVars, RecordInv, ExchangeType,
     RecordType, RowType, EntryType, EntryInv, ExStates, Acks, Statuses, DbStatuses, Lots,
     Working, WorkingRows
<1>7. TradeInv'
  <2>1. \A p \in Orders : db[p] = "open" => db'[p] = "open"
    BY DEF IInv, TypeOK, EntryType, RowType, EntryInv, EnterAmbiguous
  <2>. QED
    BY <2>1, TradesStayOpen DEF IInv, TypeOK, EntryType, EnterAmbiguous, positionVars, closeVars
<1>. QED
  BY <1>1, <1>2, <1>3, <1>4, <1>5, <1>6, <1>7 DEF IInv, TypeOK

LEMMA EnterRestsInv ==
  ASSUME NEW s \in Symbols, IInv, EnterRests(s)
  PROVE  IInv'
<1>1. ExchangeType' /\ PollType' /\ PositionType' /\ KillType'
  BY DEF IInv, TypeOK, EnterRests, exchVars, pollVars, positionVars, closeVars, killVars,
     ExchangeType, PollType, PositionType, KillType
<1>2. ExchangeInv'
  BY ExchangeKept
     DEF IInv, EnterRests, exchVars
<1>3. EntryType'
  BY DEF IInv, TypeOK, EnterRests, EntryType, Acks
<1>4. RecordType'
  BY DEF IInv, TypeOK, EnterRests, RecordType, Statuses, Lots
<1>5. RowType'
  BY DEF IInv, TypeOK, EnterRests, RowType, DbStatuses, Lots
<1>6. EntryInv'
  BY DEF IInv, TypeOK, EnterRests, EntryInv, EntryType, RecordType, RowType, Acks,
     Statuses, DbStatuses, Lots
<1>7. RecordInv'
  BY SMTT(30) DEF IInv, TypeOK, EnterRests, exchVars, RecordInv, ExchangeType, RecordType, RowType,
     EntryType, EntryInv, ExStates, Acks, Statuses, DbStatuses, Lots, Working, WorkingRows
<1>8. PollInv'
  BY SMTT(30) DEF IInv, TypeOK, EnterRests, pollVars, killVars, PollInv, RecordType, PollType,
     KillType, EntryType, RowType, EntryInv, RecordInv, Acks, Statuses, DbStatuses,
     PollPoints, KillPoints, Lots, Working, WorkingRows
<1>9. TradeInv'
  <2>1. \A p \in Orders : db[p] = "open" => db'[p] = "open"
    BY DEF IInv, TypeOK, EntryType, RowType, EntryInv, EnterRests
  <2>. QED
    BY <2>1, TradesStayOpen DEF IInv, TypeOK, EntryType, EnterRests, positionVars, closeVars
<1>. QED
  BY <1>1, <1>2, <1>3, <1>4, <1>5, <1>6, <1>7, <1>8, <1>9 DEF IInv, TypeOK

LEMMA EnterFilledInv ==
  ASSUME NEW s \in Symbols, IInv, EnterFilled(s)
  PROVE  IInv'
<1>1. ExchangeType' /\ PollType' /\ KillType'
  BY DEF IInv, TypeOK, EnterFilled, exchVars, pollVars, killVars, ExchangeType, PollType,
     KillType
<1>2. ExchangeInv'
  BY ExchangeKept
     DEF IInv, EnterFilled, exchVars
<1>3. EntryType'
  BY DEF IInv, TypeOK, EnterFilled, Saved, EntryType, Acks
<1>4. RecordType'
  <2>1. filled' \in [Orders -> Lots]
    BY DEF IInv, TypeOK, RecordType, EntryType, EnterFilled, Lots
  <2>2. tasks' \in SUBSET Orders
    BY DEF IInv, TypeOK, RecordType, EntryType, EnterFilled
  <2>3. /\ tracked' \in [Orders -> BOOLEAN] /\ status' \in [Orders -> Statuses]
        /\ handled' \in [Orders -> BOOLEAN]
    BY DEF IInv, TypeOK, RecordType, EntryType, EnterFilled, Statuses
  <2>. QED
    BY <2>1, <2>2, <2>3 DEF IInv, TypeOK, RecordType, EnterFilled
<1>5. PositionType'
  BY DEF IInv, TypeOK, EnterFilled, Saved, closeVars, PositionType, CloseStages
<1>6. RowType'
  BY DEF IInv, TypeOK, EnterFilled, Saved, RowType, DbStatuses, Lots
<1>7. EntryInv'
  BY SMTT(30) DEF IInv, TypeOK, EnterFilled, Saved, EntryInv, EntryType, RecordType, RowType, Acks,
     Statuses, DbStatuses, Lots
<1>8. RecordInv'
  BY DEF IInv, TypeOK, EnterFilled, Saved, exchVars, RecordInv, ExchangeType, RecordType,
     RowType, ExStates, Statuses, DbStatuses, Lots, Working, WorkingRows
<1>9. PollInv'
  <2>. DEFINE o == entering[s]
  <2>1. o \in Orders /\ status[o] = "none"
    BY DEF IInv, TypeOK, RecordType, EntryType, EntryInv, RecordInv, EnterFilled, Working
  <2>2. \A p \in Orders : p # o => status'[p] = status[p] /\ filled'[p] = filled[p]
    BY <2>1 DEF IInv, TypeOK, RecordType, EnterFilled
  <2>3. o \notin round /\ o # pollOrder
    BY SMTT(30), <2>1 DEF IInv, TypeOK, RecordType, PollType, PollInv, Working, PollPoints
  <2>. QED
    BY <2>1, <2>2, <2>3
       DEF IInv, TypeOK, PollType, PollInv, PollPoints, EnterFilled, pollVars, killVars
<1>10. TradeInv'
  <2>1. \A o \in Orders : db[o] = "open" => db'[o] = "open"
    BY DEF IInv, TypeOK, EntryType, RowType, EntryInv, EnterFilled
  <2>2. /\ SymOf[entering[s]] = s /\ db'[entering[s]] = "open"
        /\ closing[s] = "none" /\ entering[s] # NoOrder
    BY DEF IInv, TypeOK, EntryType, RowType, EntryInv, EnterFilled, TradeInv, TradesOf
  <2>. QED
    BY SMTT(30), <2>1, <2>2 DEF IInv, TypeOK, EntryType, PositionType, TradeInv, TradesOf,
                      EnterFilled, closeVars, CloseStages
<1>. QED
  BY <1>1, <1>2, <1>3, <1>4, <1>5, <1>6, <1>7, <1>8, <1>9, <1>10 DEF IInv, TypeOK

LEMMA UnblockInv ==
  ASSUME NEW s \in Symbols, IInv, Unblock(s)
  PROVE  IInv'
<1>1. ExchangeType' /\ RecordType' /\ PollType' /\ PositionType' /\ RowType' /\
     KillType'
  BY DEF IInv, TypeOK, Unblock, exchVars, recordVars, pollVars, positionVars, closeVars,
     dbVars, killVars, ExchangeType, RecordType, PollType, PositionType, RowType, KillType
<1>2. ExchangeInv' /\ EntryInv' /\ RecordInv' /\ PollInv' /\ TradeInv'
  BY ExchangeKept, EntryKept, RecordKept, PollKept, TradeKept
     DEF IInv, Unblock, exchVars, recordVars, dbVars, pollVars, killVars, positionVars,
        closeVars
<1>3. EntryType'
  BY DEF IInv, TypeOK, Unblock, EntryType, Acks
<1>. QED
  BY <1>1, <1>2, <1>3 DEF IInv, TypeOK

-----------------------------------------------------------------------------
(*****************************************************************************)
(* The poller: rounds and timeouts.                                          *)
(*****************************************************************************)
LEMMA PollRoundInv ==
  ASSUME IInv, PollRound
  PROVE  IInv'
<1>1. ExchangeType' /\ EntryType' /\ RecordType' /\ PositionType' /\ RowType' /\
     KillType'
  BY DEF IInv, TypeOK, PollRound, exchVars, entryVars, recordVars, positionVars,
     closeVars, dbVars, killVars, ExchangeType, EntryType, RecordType, PositionType,
     RowType, KillType
<1>2. ExchangeInv' /\ EntryInv' /\ RecordInv' /\ TradeInv'
  BY ExchangeKept, EntryKept, RecordKept, TradeKept
     DEF IInv, PollRound, exchVars, entryVars, recordVars, dbVars, positionVars, closeVars
<1>3. PollType'
  BY DEF IInv, TypeOK, PollRound, PollType, PollPoints, Working
<1>4. PollInv'
  BY DEF IInv, TypeOK, PollRound, recordVars, killVars, PollInv, RecordType, PollType,
     KillType, Statuses, PollPoints, KillPoints, Lots, Working
<1>. QED
  BY <1>1, <1>2, <1>3, <1>4 DEF IInv, TypeOK

LEMMA PollStatusInv ==
  ASSUME NEW o \in Orders, IInv, PollStatus(o)
  PROVE  IInv'
<1>1. ExchangeType' /\ EntryType' /\ RecordType' /\ PositionType' /\ RowType' /\
     KillType'
  BY DEF IInv, TypeOK, PollStatus, exchVars, entryVars, recordVars, positionVars,
     closeVars, dbVars, killVars, ExchangeType, EntryType, RecordType, PositionType,
     RowType, KillType
<1>2. ExchangeInv' /\ EntryInv' /\ RecordInv' /\ TradeInv'
  BY ExchangeKept, EntryKept, RecordKept, TradeKept
     DEF IInv, PollStatus, exchVars, entryVars, recordVars, dbVars, positionVars,
        closeVars
<1>3. PollType'
  BY DEF IInv, TypeOK, PollStatus, PollType, PollPoints
<1>4. PollInv'
  BY DEF IInv, TypeOK, PollStatus, recordVars, killVars, PollInv, RecordType, PollType,
     KillType, Statuses, PollPoints, KillPoints, Lots, Working
<1>. QED
  BY <1>1, <1>2, <1>3, <1>4 DEF IInv, TypeOK

LEMMA TimeoutRollbackInv ==
  ASSUME NEW o \in Orders, IInv, TimeoutRollback(o)
  PROVE  IInv'
<1>1. EntryType' /\ KillType'
  BY DEF IInv, TypeOK, TimeoutRollback, CancelReturns, Rollback, killVars, EntryType,
     KillType
<1>2. ExchangeType'
  BY DEF IInv, TypeOK, TimeoutRollback, CancelReturns, PollIdle, Rollback, Untrack,
     ExchangeType, ExStates, Lots
<1>3. RecordType'
  BY DEF IInv, TypeOK, TimeoutRollback, CancelReturns, PollIdle, Rollback, Untrack,
     RecordType, Statuses, Lots
<1>4. PollType'
  BY DEF IInv, TypeOK, TimeoutRollback, CancelReturns, PollIdle, Rollback, Untrack,
     PollType, PollPoints
<1>5. PositionType'
  BY DEF IInv, TypeOK, TimeoutRollback, CancelReturns, PollIdle, Rollback, Untrack,
     closeVars, PositionType, CloseStages
<1>6. RowType'
  BY DEF IInv, TypeOK, TimeoutRollback, CancelReturns, PollIdle, Rollback, Untrack,
     RowType, DbStatuses, Lots
<1>7. ExchangeInv'
  BY SMTT(30) DEF IInv, TypeOK, TimeoutRollback, CancelReturns, PollIdle, Rollback, Untrack,
     ExchangeInv, ExchangeType, EntryType, ExStates, Acks, Lots
<1>8. EntryInv'
  BY DEF IInv, TypeOK, TimeoutRollback, CancelReturns, PollIdle, Rollback, Untrack,
     EntryInv, EntryType, RecordType, RowType, PollType, PollInv, RecordInv, Acks,
     Statuses, DbStatuses, PollPoints, Lots, Working, WorkingRows
<1>9. RecordInv'
  BY SMTT(30) DEF IInv, TypeOK, TimeoutRollback, CancelReturns, PollIdle, Rollback, Untrack,
     RecordInv, ExchangeType, RecordType, RowType, ExStates, Statuses, DbStatuses, Lots,
     Working, WorkingRows
<1>10. PollInv'
  BY DEF IInv, TypeOK, TimeoutRollback, CancelReturns, PollIdle, Rollback, Untrack,
     killVars, PollInv, RecordType, PollType, KillType, Statuses, PollPoints, KillPoints,
     Lots, Working
<1>11. TradeInv'
  <2>1. db[o] \in WorkingRows
    BY DEF IInv, TypeOK, PollType, PollInv, RecordInv, TimeoutRollback, CancelReturns, Working
  <2>2. \A p \in Orders : db[p] = "open" => db'[p] = "open"
    BY <2>1 DEF IInv, TypeOK, RowType, TimeoutRollback, Rollback, WorkingRows
  <2>. QED
    BY SMTT(30), <2>2 DEF IInv, TypeOK, PositionType, TradeInv, TradesOf, TimeoutRollback,
                Rollback, CancelReturns, closeVars
<1>. QED
  BY <1>1, <1>2, <1>3, <1>4, <1>5, <1>6, <1>7, <1>8, <1>9, <1>10, <1>11 DEF IInv, TypeOK

LEMMA TimeoutKeepPartialInv ==
  ASSUME NEW o \in Orders, IInv, TimeoutKeepPartial(o)
  PROVE  IInv'
<1>1. EntryType' /\ KillType'
  BY DEF IInv, TypeOK, TimeoutKeepPartial, CancelReturns, Reinsert, killVars, EntryType,
     KillType
<1>2. ExchangeType'
  BY DEF IInv, TypeOK, TimeoutKeepPartial, CancelReturns, PollIdle, Untrack, Reinsert,
     ExchangeType, ExStates, Lots
<1>3. RecordType'
  BY DEF IInv, TypeOK, TimeoutKeepPartial, CancelReturns, PollIdle, Untrack, Reinsert,
     RecordType, Statuses, Lots
<1>4. PollType'
  BY DEF IInv, TypeOK, TimeoutKeepPartial, CancelReturns, PollIdle, Untrack, Reinsert,
     PollType, PollPoints
<1>5. PositionType'
  BY DEF IInv, TypeOK, TimeoutKeepPartial, CancelReturns, PollIdle, Untrack, Reinsert,
     closeVars, PositionType, CloseStages
<1>6. RowType'
  <2>1. filled[o] \in Lots
    BY DEF IInv, TypeOK, RecordType
  <2>. QED
    BY <2>1 DEF IInv, TypeOK, RowType, TimeoutKeepPartial, Reinsert, dbVars, DbStatuses
<1>7. ExchangeInv'
  BY DEF IInv, TypeOK, TimeoutKeepPartial, CancelReturns, PollIdle, Untrack, Reinsert,
     ExchangeInv, ExchangeType, EntryType, ExStates, Acks, Lots
<1>8. EntryInv'
  BY SMTT(30) DEF IInv, TypeOK, TimeoutKeepPartial, CancelReturns, PollIdle, Untrack, Reinsert,
     dbVars, EntryInv, EntryType, RecordType, RowType, PollType, PollInv, RecordInv, Acks,
     Statuses, DbStatuses, PollPoints, Lots, Working, WorkingRows
<1>9. RecordInv'
  <2>1. db[o] \in WorkingRows /\ ~killed
    BY DEF IInv, TypeOK, PollType, PollInv, RecordInv, TimeoutKeepPartial, CancelReturns, Working
  <2>2. \A p \in Orders : p # o =>
           /\ db'[p] = db[p] /\ dbFilled'[p] = dbFilled[p] /\ status'[p] = status[p]
           /\ tracked'[p] = tracked[p] /\ handled'[p] = handled[p]
    BY <2>1 DEF IInv, TypeOK, RecordType, RowType, TimeoutKeepPartial, Reinsert, Untrack
  <2>3. db'[o] = "open" /\ status'[o] = "none" /\ tracked'[o] = FALSE /\ handled'[o] = FALSE
    BY <2>1 DEF IInv, TypeOK, RecordType, RowType, TimeoutKeepPartial, Reinsert, Untrack
  <2>. QED
    BY <2>2, <2>3 DEF IInv, RecordInv, Working, WorkingRows, TimeoutKeepPartial, CancelReturns
<1>10. PollInv'
  BY DEF IInv, TypeOK, TimeoutKeepPartial, CancelReturns, PollIdle, Untrack, Reinsert,
     killVars, PollInv, RecordType, PollType, KillType, Statuses, PollPoints, KillPoints,
     Lots, Working
<1>11. TradeInv'
  <2>1. db[o] \in WorkingRows /\ ~killed
    BY DEF IInv, TypeOK, PollType, PollInv, RecordInv, TimeoutKeepPartial, CancelReturns, Working
  <2>2. openTrade' = [openTrade EXCEPT ![SymOf[o]] = o]
    BY <2>1 DEF TimeoutKeepPartial, Reinsert
  <2>3. /\ db'[o] = "open"
        /\ \A p \in Orders : db[p] = "open" => db'[p] = "open"
    BY <2>1 DEF IInv, TypeOK, RowType, TimeoutKeepPartial, Reinsert
  <2>4. UNCHANGED <<closing, closeTrade, entering>>
    BY DEF TimeoutKeepPartial, CancelReturns, closeVars
  <2>5. \A p \in Symbols : closing[p] # "none" => closeTrade[p] # o
    BY <2>1 DEF IInv, TradeInv, TradesOf, WorkingRows
  <2>. SUFFICES ASSUME NEW p \in Symbols PROVE TradesOf(p)'
    BY DEF TradeInv
  <2>6. TradesOf(p) /\ openTrade[p] \in Orders \cup {NoOrder}
    BY DEF IInv, TypeOK, PositionType, TradeInv
  <2>7. openTrade'[p] = IF p = SymOf[o] THEN o ELSE openTrade[p]
    BY <2>2 DEF IInv, TypeOK, PositionType
  <2>. QED
    BY <2>3, <2>4, <2>5, <2>6, <2>7 DEF TradesOf
<1>. QED
  BY <1>1, <1>2, <1>3, <1>4, <1>5, <1>6, <1>7, <1>8, <1>9, <1>10, <1>11 DEF IInv, TypeOK

-----------------------------------------------------------------------------
(*****************************************************************************)
(* Exit.                                                                     *)
(*****************************************************************************)
LEMMA ExitWithoutTradeInv ==
  ASSUME NEW s \in Symbols, IInv, ExitWithoutTrade(s)
  PROVE  IInv'
<1>1. ExchangeType' /\ EntryType' /\ RecordType' /\ PollType' /\ RowType' /\
     KillType'
  BY DEF IInv, TypeOK, ExitWithoutTrade, exchVars, entryVars, recordVars, pollVars,
     dbVars, killVars, ExchangeType, EntryType, RecordType, PollType, RowType, KillType
<1>2. ExchangeInv' /\ EntryInv' /\ RecordInv' /\ PollInv' /\ TradeInv'
  BY ExchangeKept, EntryKept, RecordKept, PollKept, TradeKept
     DEF IInv, ExitWithoutTrade, exchVars, entryVars, recordVars, dbVars, pollVars,
        killVars, closeVars
<1>3. PositionType'
  BY DEF IInv, TypeOK, ExitWithoutTrade, SymbolFree, Saved, closeVars, PositionType,
     CloseStages
<1>. QED
  BY <1>1, <1>2, <1>3 DEF IInv, TypeOK

LEMMA ExitSubmitInv ==
  ASSUME NEW s \in Symbols, IInv, ExitSubmit(s)
  PROVE  IInv'
<1>1. ExchangeType' /\ EntryType' /\ RecordType' /\ PollType' /\ RowType' /\
     KillType'
  BY DEF IInv, TypeOK, ExitSubmit, exchVars, entryVars, recordVars, pollVars, dbVars,
     killVars, ExchangeType, EntryType, RecordType, PollType, RowType, KillType
<1>2. ExchangeInv' /\ EntryInv' /\ RecordInv' /\ PollInv'
  BY ExchangeKept, EntryKept, RecordKept, PollKept
     DEF IInv, ExitSubmit, exchVars, entryVars, recordVars, dbVars, pollVars, killVars
<1>3. PositionType'
  BY DEF IInv, TypeOK, ExitSubmit, SymbolFree, PositionType, CloseStages
<1>4. TradeInv'
  BY SMTT(30) DEF IInv, TypeOK, ExitSubmit, SymbolFree, entryVars, dbVars, TradeInv, EntryType,
     PositionType, RowType, TradesOf, Acks, DbStatuses, CloseStages, Lots
<1>. QED
  BY <1>1, <1>2, <1>3, <1>4 DEF IInv, TypeOK

LEMMA ExitClosedInv ==
  ASSUME NEW s \in Symbols, IInv, ExitClosed(s)
  PROVE  IInv'
<1>1. ExchangeType' /\ EntryType' /\ RecordType' /\ PollType' /\ KillType'
  BY DEF IInv, TypeOK, ExitClosed, exchVars, entryVars, recordVars, pollVars, killVars,
     ExchangeType, EntryType, RecordType, PollType, KillType
<1>2. ExchangeInv' /\ PollInv'
  BY ExchangeKept, PollKept
     DEF IInv, ExitClosed, exchVars, entryVars, recordVars, pollVars, killVars
<1>3. PositionType'
  BY DEF IInv, TypeOK, ExitClosed, NotClosing, Saved, PositionType, CloseStages
<1>4. RowType'
  BY DEF IInv, TypeOK, ExitClosed, NotClosing, Saved, RowType, DbStatuses, Lots
<1>5. EntryInv'
  <2>. DEFINE t == closeTrade[s]
  <2>1. /\ t \in Orders /\ db[t] = "open" /\ SymOf[t] = s
        /\ \A p \in Orders : p # t => db'[p] = db[p]
        /\ db'[t] = "closed"
    BY DEF IInv, TypeOK, PositionType, RowType, TradeInv, TradesOf, ExitClosed
  <2>2. \A p \in Orders : db'[p] = "none" <=> db[p] = "none"
    BY <2>1
  <2>3. \A p \in Orders : p >= nextId => db'[p] = "none"
    BY <2>2 DEF IInv, EntryInv
  <2>. QED
    BY <2>2, <2>3 DEF IInv, TypeOK, EntryType, EntryInv, ExitClosed, entryVars, recordVars
<1>6. RecordInv'
  <2>. DEFINE t == closeTrade[s]
  <2>1. /\ t \in Orders /\ db[t] = "open" /\ SymOf[t] = s
        /\ \A p \in Orders : p # t => db'[p] = db[p]
        /\ db'[t] = "closed"
    BY DEF IInv, TypeOK, PositionType, RowType, TradeInv, TradesOf, ExitClosed
  <2>. QED
    BY <2>1 DEF IInv, RecordInv, WorkingRows, ExitClosed, exchVars, recordVars
<1>7. TradeInv'
  <2>. DEFINE t == closeTrade[s]
  <2>1. /\ t \in Orders /\ db[t] = "open" /\ SymOf[t] = s
        /\ \A p \in Orders : p # t => db'[p] = db[p]
        /\ db'[t] = "closed"
    BY DEF IInv, TypeOK, PositionType, RowType, TradeInv, TradesOf, ExitClosed
  <2>2. UNCHANGED <<openTrade, entering>> /\ NotClosing(s)
    BY DEF ExitClosed, entryVars
  <2>. SUFFICES ASSUME NEW p \in Symbols PROVE TradesOf(p)'
    BY DEF TradeInv
  <2>3. TradesOf(p) /\ openTrade[p] \in Orders \cup {NoOrder}
    BY DEF IInv, TypeOK, PositionType, TradeInv
  <2>4. openTrade[p] # NoOrder => openTrade[p] # t
    BY <2>1, <2>3 DEF IInv, TradeInv, TradesOf, ExitClosed
  <2>5. CASE p = s
    <3>1. closing'[p] = "none"
      BY <2>2, <2>5 DEF IInv, TypeOK, PositionType, NotClosing
    <3>. QED
      BY <2>1, <2>2, <2>3, <2>4, <3>1 DEF TradesOf
  <2>6. CASE p # s
    <3>1. closing'[p] = closing[p] /\ closeTrade'[p] = closeTrade[p]
      BY <2>2, <2>6 DEF IInv, TypeOK, PositionType, NotClosing
    <3>2. closing[p] # "none" => closeTrade[p] # t
      BY <2>1, <2>3, <2>6 DEF TradesOf
    <3>. QED
      BY <2>1, <2>2, <2>3, <2>4, <3>1, <3>2 DEF TradesOf
  <2>. QED
    BY <2>5, <2>6
<1>. QED
  BY <1>1, <1>2, <1>3, <1>4, <1>5, <1>6, <1>7 DEF IInv, TypeOK

LEMMA ExitFailsInv ==
  ASSUME NEW s \in Symbols, IInv, ExitFails(s)
  PROVE  IInv'
<1>1. ExchangeType' /\ RecordType' /\ PollType' /\ RowType' /\ KillType'
  BY DEF IInv, TypeOK, ExitFails, exchVars, recordVars, pollVars, dbVars, killVars,
     ExchangeType, RecordType, PollType, RowType, KillType
<1>2. ExchangeInv' /\ EntryInv' /\ RecordInv' /\ PollInv'
  BY ExchangeKept, EntryKept, RecordKept, PollKept
     DEF IInv, ExitFails, exchVars, recordVars, dbVars, pollVars, killVars
<1>3. EntryType'
  BY DEF IInv, TypeOK, ExitFails, NotClosing, EntryType, Acks
<1>4. PositionType'
  BY DEF IInv, TypeOK, ExitFails, NotClosing, PositionType, CloseStages
<1>5. TradeInv'
  <2>1. UNCHANGED <<db, entering>> /\ NotClosing(s)
        /\ openTrade' = [openTrade EXCEPT ![s] = closeTrade[s]]
    BY DEF ExitFails, dbVars
  <2>2. closing[s] # "none"
    BY DEF ExitFails
  <2>. SUFFICES ASSUME NEW p \in Symbols PROVE TradesOf(p)'
    BY DEF TradeInv
  <2>3. TradesOf(p) /\ TradesOf(s)
    BY DEF IInv, TradeInv
  <2>4. CASE p = s
    <3>1. closing'[p] = "none" /\ openTrade'[p] = closeTrade[s]
      BY <2>1, <2>4 DEF IInv, TypeOK, PositionType, NotClosing
    <3>. QED
      BY <2>1, <2>2, <2>3, <2>4, <3>1 DEF TradesOf
  <2>5. CASE p # s
    <3>1. /\ closing'[p] = closing[p] /\ closeTrade'[p] = closeTrade[p]
          /\ openTrade'[p] = openTrade[p]
      BY <2>1, <2>5 DEF IInv, TypeOK, PositionType, NotClosing
    <3>. QED
      BY <2>1, <2>3, <3>1 DEF TradesOf
  <2>. QED
    BY <2>4, <2>5
<1>. QED
  BY <1>1, <1>2, <1>3, <1>4, <1>5 DEF IInv, TypeOK

LEMMA SaveSnapshotInv ==
  ASSUME IInv, SaveSnapshot
  PROVE  IInv'
<1>1. ExchangeType' /\ EntryType' /\ RecordType' /\ PollType' /\ RowType' /\
     KillType'
  BY DEF IInv, TypeOK, SaveSnapshot, exchVars, entryVars, recordVars, pollVars, dbVars,
     killVars, ExchangeType, EntryType, RecordType, PollType, RowType, KillType
<1>2. ExchangeInv' /\ EntryInv' /\ RecordInv' /\ PollInv' /\ TradeInv'
  BY ExchangeKept, EntryKept, RecordKept, PollKept, TradeKept
     DEF IInv, SaveSnapshot, exchVars, entryVars, recordVars, dbVars, pollVars, killVars,
        closeVars
<1>3. PositionType'
  BY DEF IInv, TypeOK, SaveSnapshot, Saved, closeVars, PositionType, CloseStages
<1>. QED
  BY <1>1, <1>2, <1>3 DEF IInv, TypeOK

-----------------------------------------------------------------------------
(*****************************************************************************)
(* The kill switch.                                                          *)
(*****************************************************************************)
LEMMA KillBeginInv ==
  ASSUME IInv, KillBegin
  PROVE  IInv'
<1>1. ExchangeType' /\ EntryType' /\ PositionType' /\ RowType'
  BY DEF IInv, TypeOK, KillBegin, exchVars, entryVars, positionVars, closeVars, dbVars,
     ExchangeType, EntryType, PositionType, RowType
<1>2. ExchangeInv' /\ TradeInv'
  BY ExchangeKept, TradeKept
     DEF IInv, KillBegin, exchVars, entryVars, positionVars, closeVars, dbVars
<1>3. RecordType'
  BY DEF IInv, TypeOK, KillBegin, PollIdle, RecordType, Statuses, Lots
<1>4. PollType'
  BY DEF IInv, TypeOK, KillBegin, PollIdle, PollType, PollPoints
<1>5. KillType'
  BY DEF IInv, TypeOK, KillBegin, PollIdle, KillType, KillPoints
<1>6. EntryInv'
  BY DEF IInv, TypeOK, KillBegin, PollIdle, entryVars, dbVars, EntryInv, EntryType,
     RecordType, RowType, Acks, Statuses, DbStatuses, Lots
<1>7. RecordInv'
  BY DEF IInv, TypeOK, KillBegin, PollIdle, exchVars, dbVars, RecordInv, ExchangeType,
     RecordType, RowType, ExStates, Statuses, DbStatuses, Lots, Working, WorkingRows
<1>8. PollInv'
  BY DEF IInv, TypeOK, KillBegin, PollIdle, PollInv, RecordType, PollType, KillType,
     Statuses, PollPoints, KillPoints, Lots, Working
<1>. QED
  BY <1>1, <1>2, <1>3, <1>4, <1>5, <1>6, <1>7, <1>8 DEF IInv, TypeOK

LEMMA KillCancelAllInv ==
  ASSUME IInv, KillCancelAll
  PROVE  IInv'
<1>1. EntryType' /\ RecordType' /\ PollType' /\ PositionType' /\ RowType'
  BY DEF IInv, TypeOK, KillCancelAll, entryVars, recordVars, pollVars, positionVars,
     closeVars, dbVars, EntryType, RecordType, PollType, PositionType, RowType
<1>2. EntryInv' /\ RecordInv' /\ PollInv' /\ TradeInv'
  BY EntryKept, RecordKept, PollKept, TradeKept
     DEF IInv, KillCancelAll, entryVars, recordVars, dbVars, pollVars, positionVars,
        closeVars
<1>3. ExchangeType'
  BY DEF IInv, TypeOK, KillCancelAll, ExchangeType, ExStates, Lots
<1>4. KillType'
  BY DEF IInv, TypeOK, KillCancelAll, KillType, KillPoints
<1>5. ExchangeInv'
  BY DEF IInv, TypeOK, KillCancelAll, entryVars, ExchangeInv, ExchangeType, EntryType,
     ExStates, Acks, Lots
<1>. QED
  BY <1>1, <1>2, <1>3, <1>4, <1>5 DEF IInv, TypeOK

LEMMA KillFlattenInv ==
  ASSUME IInv, KillFlatten
  PROVE  IInv'
<1>1. EntryType' /\ RecordType' /\ PollType' /\ PositionType' /\ RowType'
  BY DEF IInv, TypeOK, KillFlatten, entryVars, recordVars, pollVars, positionVars,
     closeVars, dbVars, EntryType, RecordType, PollType, PositionType, RowType
<1>2. ExchangeInv' /\ EntryInv' /\ RecordInv' /\ PollInv' /\ TradeInv'
  BY ExchangeKept, EntryKept, RecordKept, PollKept, TradeKept
     DEF IInv, KillFlatten, entryVars, recordVars, dbVars, pollVars, positionVars,
        closeVars
<1>3. ExchangeType'
  BY DEF IInv, TypeOK, KillFlatten, ExchangeType, ExStates, Lots
<1>4. KillType'
  BY DEF IInv, TypeOK, KillFlatten, KillType, KillPoints
<1>. QED
  BY <1>1, <1>2, <1>3, <1>4 DEF IInv, TypeOK

LEMMA KillClearInv ==
  ASSUME IInv, KillClear
  PROVE  IInv'
<1>1. ExchangeType' /\ EntryType' /\ RecordType' /\ PollType' /\ RowType'
  BY DEF IInv, TypeOK, KillClear, exchVars, entryVars, recordVars, pollVars, dbVars,
     ExchangeType, EntryType, RecordType, PollType, RowType
<1>2. ExchangeInv' /\ EntryInv' /\ RecordInv' /\ PollInv'
  BY ExchangeKept, EntryKept, RecordKept, PollKept
     DEF IInv, KillClear, exchVars, entryVars, recordVars, dbVars, pollVars
<1>3. PositionType'
  BY DEF IInv, TypeOK, KillClear, closeVars, PositionType, CloseStages
<1>4. KillType'
  BY DEF IInv, TypeOK, KillClear, KillType, KillPoints
<1>5. TradeInv'
  BY DEF IInv, TypeOK, KillClear, entryVars, closeVars, dbVars, TradeInv, EntryType,
     PositionType, RowType, TradesOf, Acks, DbStatuses, CloseStages, Lots
<1>. QED
  BY <1>1, <1>2, <1>3, <1>4, <1>5 DEF IInv, TypeOK

-----------------------------------------------------------------------------
(*****************************************************************************)
(* Time, callbacks and restarts.                                             *)
(*****************************************************************************)
LEMMA OrderAgesInv ==
  ASSUME NEW o \in Orders, IInv, OrderAges(o)
  PROVE  IInv'
<1>1. ExchangeType' /\ EntryType' /\ PollType' /\ PositionType' /\ RowType' /\
     KillType'
  BY DEF IInv, TypeOK, OrderAges, exchVars, entryVars, pollVars, positionVars, closeVars,
     dbVars, killVars, ExchangeType, EntryType, PollType, PositionType, RowType, KillType
<1>2. ExchangeInv' /\ EntryInv' /\ RecordInv' /\ PollInv' /\ TradeInv'
  BY ExchangeKept, EntryKept, RecordKept, PollKept, TradeKept
     DEF IInv, OrderAges, exchVars, entryVars, dbVars, pollVars, killVars, positionVars,
        closeVars
<1>3. RecordType'
  BY DEF IInv, TypeOK, OrderAges, RecordType, Statuses, Lots
<1>. QED
  BY <1>1, <1>2, <1>3 DEF IInv, TypeOK

LEMMA CallbackInv ==
  ASSUME NEW o \in Orders, IInv, Callback(o)
  PROVE  IInv'
<1>1. ExchangeType' /\ EntryType' /\ PollType' /\ RowType' /\ KillType'
  BY DEF IInv, TypeOK, Callback, exchVars, entryVars, pollVars, dbVars, killVars,
     ExchangeType, EntryType, PollType, RowType, KillType
<1>2. ExchangeInv' /\ RecordInv' /\ PollInv' /\ TradeInv'
  BY ExchangeKept, RecordKept, PollKept, TradeKept
     DEF IInv, Callback, exchVars, entryVars, dbVars, pollVars, killVars, closeVars
<1>3. RecordType'
  BY ZenonT(40) DEF IInv, TypeOK, Callback, RecordType, Statuses, Lots
<1>4. PositionType'
  <2>1. CASE filled[o] > credited[o]
    <3>1. book[SymOf[o]] \in Nat
      BY SymOfAssumption DEF IInv, TypeOK, PositionType
    <3>2. filled[o] \in Nat /\ credited[o] \in Nat
      BY DEF IInv, TypeOK, RecordType, Lots
    <3>3. book[SymOf[o]] + (filled[o] - credited[o]) \in Nat
      BY <2>1, <3>1, <3>2
    <3>. QED
      BY <2>1, <3>3 DEF IInv, TypeOK, PositionType, Callback, closeVars
  <2>2. CASE ~(filled[o] > credited[o])
    BY <2>2 DEF IInv, TypeOK, PositionType, Callback, closeVars
  <2>. QED
    BY <2>1, <2>2
<1>5. EntryInv'
  BY SMTT(30) DEF IInv, TypeOK, Callback, entryVars, dbVars, EntryInv, EntryType, RecordType,
     RowType, Acks, Statuses, DbStatuses, Lots
<1>. QED
  BY <1>1, <1>2, <1>3, <1>4, <1>5 DEF IInv, TypeOK

\* A death leaves the rows as they are, or one of them as the first of the commits
\* of a step wrote it.
DiedWriting(o) ==
    \E n \in Lots, d \in {"nameless", "open", "closed"} :
       /\ o < nextId
       /\ db' = [db EXCEPT ![o] = d]
       /\ dbFilled' = [dbFilled EXCEPT ![o] = n]
       /\ \/ d = "nameless" /\ db[o] = "none" /\ n = 0
          \/ d = "open" /\ db[o] = "none" /\ n = Full /\ ack[o] = "filled"
          \/ d = "closed" /\ db[o] = "open" /\ n = dbFilled[o]

LEMMA DeathWrites ==
  ASSUME IInv, RowsAtDeath
  PROVE  (\E o \in Orders : DiedWriting(o)) \/ UNCHANGED dbVars
<1>t. db \in [Orders -> DbStatuses] /\ dbFilled \in [Orders -> Lots] /\ Full \in Lots
  BY DEF IInv, TypeOK, RowType, Lots
<1>1. ASSUME NEW s \in Symbols, entering[s] \in Orders, ack[entering[s]] = "resting",
             db' = [db EXCEPT ![entering[s]] = "nameless"], UNCHANGED dbFilled
      PROVE  DiedWriting(entering[s])
  <2>1. /\ entering[s] < nextId /\ db[entering[s]] = "none"
        /\ dbFilled[entering[s]] = 0 /\ 0 \in Lots
    BY <1>1, <1>t DEF IInv, EntryInv, Lots
  <2>2. dbFilled' = [dbFilled EXCEPT ![entering[s]] = 0]
    BY <1>1, <1>t, <2>1
  <2>. QED
    BY <1>1, <2>1, <2>2 DEF DiedWriting
<1>2. ASSUME NEW s \in Symbols, entering[s] \in Orders, ack[entering[s]] = "filled",
             db' = [db EXCEPT ![entering[s]] = "open"],
             dbFilled' = [dbFilled EXCEPT ![entering[s]] = Full]
      PROVE  DiedWriting(entering[s])
  <2>1. entering[s] < nextId /\ db[entering[s]] = "none"
    BY <1>2 DEF IInv, EntryInv
  <2>. QED
    BY <1>2, <1>t, <2>1 DEF DiedWriting
<1>3. ASSUME NEW s \in Symbols, closing[s] = "executed",
             db' = [db EXCEPT ![closeTrade[s]] = "closed"], UNCHANGED dbFilled
      PROVE  \E o \in Orders : DiedWriting(o)
  <2>1. PICK o \in Orders : o = closeTrade[s] /\ db[o] = "open"
    BY <1>3 DEF IInv, TradeInv, TradesOf
  <2>2. o < nextId
    BY <2>1 DEF IInv, TypeOK, EntryType, EntryInv
  <2>3. dbFilled' = [dbFilled EXCEPT ![o] = dbFilled[o]] /\ dbFilled[o] \in Lots
    BY <1>3, <1>t
  <2>. QED
    BY <1>3, <2>1, <2>2, <2>3 DEF DiedWriting
<1>. QED
  BY <1>1, <1>2, <1>3 DEF RowsAtDeath

\* So a working row after a death is as it was before, and a row that is still
\* missing was missing.
LEMMA DeathRows ==
  ASSUME IInv, RowsAtDeath
  PROVE  /\ RowType'
         /\ \A o \in Orders : /\ db'[o] \in WorkingRows \cup {"none"} =>
                                     db[o] = db'[o] /\ dbFilled'[o] = dbFilled[o]
                              /\ o >= nextId => db'[o] = "none"
<1>t. /\ db \in [Orders -> DbStatuses] /\ dbFilled \in [Orders -> Lots]
      /\ nextId \in Int /\ \A o \in Orders : o >= nextId => db[o] = "none"
  BY DEF IInv, TypeOK, RowType, EntryType, EntryInv
<1>1. CASE UNCHANGED dbVars
  BY <1>1, <1>t DEF RowType, dbVars
<1>2. ASSUME NEW o \in Orders, DiedWriting(o)
      PROVE  /\ RowType'
             /\ \A p \in Orders : /\ db'[p] \in WorkingRows \cup {"none"} =>
                                         db[p] = db'[p] /\ dbFilled'[p] = dbFilled[p]
                                  /\ p >= nextId => db'[p] = "none"
  <2>1. PICK n \in Lots, d \in {"nameless", "open", "closed"} :
           /\ o < nextId
           /\ db' = [db EXCEPT ![o] = d]
           /\ dbFilled' = [dbFilled EXCEPT ![o] = n]
    BY <1>2 DEF DiedWriting
  <2>2. d \in DbStatuses /\ d \notin WorkingRows \cup {"none"}
    BY DEF DbStatuses, WorkingRows
  <2>. QED
    BY <1>t, <2>1, <2>2 DEF RowType
<1>. QED
  BY <1>1, <1>2, DeathWrites

LEMMA CrashRestartInv ==
  ASSUME IInv, CrashRestart
  PROVE  IInv'
<1>d. /\ RowType'
      /\ \A o \in Orders : /\ db'[o] \in WorkingRows \cup {"none"} =>
                                  db[o] = db'[o] /\ dbFilled'[o] = dbFilled[o]
                           /\ o >= nextId => db'[o] = "none"
  BY DeathRows DEF CrashRestart
<1>1. ExchangeType'
  BY DEF IInv, TypeOK, CrashRestart, exchVars, ExchangeType
<1>2. ExchangeInv'
  BY ExchangeKept
     DEF IInv, CrashRestart, exchVars
<1>3. EntryType'
  BY DEF IInv, TypeOK, CrashRestart, EntryType, Acks
<1>4. RecordType'
  BY <1>d DEF IInv, TypeOK, CrashRestart, LoadPendingOrders, Reloaded, RecordType, RowType,
     Statuses, DbStatuses, Lots, WorkingRows
<1>5. PollType'
  BY DEF IInv, TypeOK, CrashRestart, PollIdle, PollType, PollPoints
<1>6. PositionType'
  BY <1>d DEF IInv, TypeOK, CrashRestart, RestoredBook, PositionType, RowType, DbStatuses,
     CloseStages, Lots
<1>7. KillType'
  <2>1. crashes' \in Nat /\ kills' \in Nat
    BY DEF IInv, TypeOK, KillType, CrashRestart
  <2>. QED
    BY <2>1 DEF IInv, TypeOK, KillType, CrashRestart, KillPoints
<1>8. EntryInv'
  <2>1. /\ nextId' = nextId /\ tasks' = {} /\ \A s \in Symbols : entering'[s] = NoOrder
        /\ \A o \in Orders : /\ tracked'[o] = (db'[o] \in WorkingRows) /\ credited'[o] = 0
                             /\ db'[o] \notin WorkingRows => filled'[o] = 0
    BY DEF CrashRestart, LoadPendingOrders, Reloaded
  <2>2. \A o \in Orders : db[o] = "none" => dbFilled[o] = 0
    BY DEF IInv, EntryInv
  <2>. QED
    BY <1>d, <2>1, <2>2 DEF EntryInv, WorkingRows
<1>9. RecordInv'
  <2>1. /\ exFill' = exFill
        /\ \A o \in Orders :
              /\ tracked'[o] = (db'[o] \in WorkingRows) /\ handled'[o] = FALSE
              /\ status'[o] = IF db'[o] \notin WorkingRows THEN "none"
                              ELSE IF db'[o] = "partial" THEN "partial" ELSE "open"
              /\ filled'[o] = IF db'[o] \in WorkingRows THEN dbFilled'[o] ELSE 0
    BY DEF CrashRestart, LoadPendingOrders, Reloaded, exchVars
  <2>2. \A o \in Orders : /\ db[o] = "resting" => dbFilled[o] = 0
                          /\ db[o] = "partial" => dbFilled[o] > 0
                          /\ db[o] \in WorkingRows => dbFilled[o] <= exFill[o]
    BY DEF IInv, RecordInv
  <2>. QED
    BY <1>d, <2>1, <2>2 DEF RecordInv, RowType, DbStatuses, Lots, Working, WorkingRows
<1>10. PollInv'
  BY DEF CrashRestart, PollIdle, PollInv
<1>11. TradeInv'
  BY DEF CrashRestart, LoadsTrade, TradeInv, TradesOf
<1>. QED
  BY <1>d, <1>1, <1>2, <1>3, <1>4, <1>5, <1>6, <1>7, <1>8, <1>9, <1>10, <1>11
     DEF IInv, TypeOK

-----------------------------------------------------------------------------
(***************************************************************************)
(* The poller's answers.  What it processes is sound: it is about a record   *)
(* it owns and lies between what that record says and what the exchange      *)
(* filled.                                                                   *)
(***************************************************************************)
SnapshotSound(o, st, f) ==
    /\ status[o] \in Working /\ ~handled[o] /\ pollOrder = o
    /\ db[o] \in WorkingRows /\ ~killed
    /\ f \in Lots /\ filled[o] <= f /\ f <= exFill[o]
    /\ st \in {"open", "partial", "filled", "cancelled"}
    /\ st \in {"open", "cancelled"} => f = 0
    /\ st \in {"partial", "filled"} => f > 0

LEMMA AnswerSound ==
  ASSUME IInv, NEW o \in Orders, PollAnswered(o)
  PROVE  SnapshotSound(o, SnapshotStatus(exFill[o], pollCanceled), exFill[o])
<1>1. /\ status[o] \in Working /\ ~handled[o] /\ db[o] \in WorkingRows /\ ~killed
      /\ filled[o] <= exFill[o] /\ pollOrder = o
  BY DEF IInv, TypeOK, RecordType, PollInv, RecordInv, PollAnswered, Working
<1>2. exFill[o] \in Lots
  BY DEF IInv, TypeOK, ExchangeType
<1>. QED
  BY <1>1, <1>2 DEF SnapshotSound, SnapshotStatus, Lots

LEMMA FailureSound ==
  ASSUME IInv, NEW o \in Orders, PollFailed(o)
  PROVE  SnapshotSound(o, status[o], filled[o])
<1>1. /\ status[o] \in Working /\ ~handled[o] /\ db[o] \in WorkingRows /\ ~killed
      /\ filled[o] <= exFill[o] /\ pollOrder = o
      /\ status[o] = "open" => filled[o] = 0
      /\ status[o] = "partial" => filled[o] > 0
  BY DEF IInv, TypeOK, RecordType, PollInv, RecordInv, PollFailed, Working
<1>2. filled[o] \in Lots
  BY DEF IInv, TypeOK, RecordType
<1>. QED
  BY <1>1, <1>2 DEF SnapshotSound, Working, Lots

\* The parts of IInv the poller's answers leave alone.
LEMMA SnapshotKept ==
  ASSUME IInv, NEW o, NEW st, NEW f, ProcessSnapshot(o, st, f)
  PROVE  ExchangeType' /\ EntryType' /\ KillType' /\ ExchangeInv'
<1>1. ExchangeType' /\ EntryType' /\ KillType'
  BY DEF IInv, TypeOK, ProcessSnapshot, exchVars, killVars, ExchangeType, EntryType,
         KillType
<1>2. ExchangeInv'
  BY ExchangeKept DEF IInv, ProcessSnapshot, exchVars
<1>. QED
  BY <1>1, <1>2

LEMMA PollSkipInv ==
  ASSUME IInv, NEW o \in Orders, NEW st, NEW f, SnapshotSound(o, st, f),
         ProcessSnapshot(o, st, f), PollSkip(o, st, f)
  PROVE  IInv'
<1>1. RecordType' /\ PollType' /\ PositionType' /\ RowType'
  BY DEF IInv, TypeOK, ProcessSnapshot, PollSkip, PollIdle, recordVars, dbVars, closeVars,
         RecordType, PollType, PositionType, RowType, PollPoints
<1>2. EntryInv' /\ RecordInv' /\ TradeInv'
  BY EntryKept, RecordKept, TradeKept
     DEF IInv, ProcessSnapshot, PollSkip, exchVars, recordVars, dbVars, closeVars
<1>3. PollInv'
  BY DEF IInv, TypeOK, PollType, PollInv, ProcessSnapshot, PollSkip, PollIdle, recordVars,
         killVars, PollPoints
<1>. QED
  BY <1>1, <1>2, <1>3, SnapshotKept DEF IInv, TypeOK

\* A record that leaves the poller's hands.
LEMMA PollUntracked ==
  ASSUME IInv, NEW o \in Orders, pollOrder = o, Untrack(o), PollIdle,
         UNCHANGED <<round, killed, loopUp>>
  PROVE  PollInv'
<1>1. \A p \in Orders : p # o => status'[p] = status[p]
  BY DEF IInv, TypeOK, RecordType, Untrack
<1>2. \A p \in round : p # o
  BY DEF IInv, PollInv
<1>. QED
  BY <1>1, <1>2 DEF IInv, TypeOK, PollType, PollInv, PollIdle

LEMMA PollFilledInv ==
  ASSUME IInv, NEW o \in Orders, NEW st, NEW f, SnapshotSound(o, st, f),
         ProcessSnapshot(o, st, f), PollFilled(o, st, f)
  PROVE  IInv'
<1>1. /\ db' = [db EXCEPT ![o] = "open"] /\ dbFilled' = [dbFilled EXCEPT ![o] = f]
      /\ openTrade' = [openTrade EXCEPT ![SymOf[o]] = IF openTrade[SymOf[o]] = NoOrder
                                                         THEN o ELSE openTrade[SymOf[o]]]
      /\ filled' = [filled EXCEPT ![o] = f] /\ tasks' = tasks \cup {o}
      /\ Untrack(o) /\ PollIdle /\ UNCHANGED <<credited, book>>
      /\ db[o] \in WorkingRows /\ f \in Lots
  BY DEF SnapshotSound, PollFilled, Reinsert
<1>2. UNCHANGED <<exFill, nextId, entering, loopUp, round, closing, closeTrade, closeSize,
                  snap, closeLost, killed>>
  BY DEF ProcessSnapshot, exchVars, closeVars, killVars
<1>3. RecordType'
  BY <1>1 DEF IInv, TypeOK, RecordType, Untrack, Statuses
<1>4. PollType'
  BY <1>1, <1>2 DEF IInv, TypeOK, PollType, PollIdle, PollPoints
<1>5. PositionType'
  BY <1>1, <1>2 DEF IInv, TypeOK, PositionType
<1>6. RowType'
  BY <1>1 DEF IInv, TypeOK, RowType, DbStatuses
<1>7. EntryInv'
  BY <1>1, <1>2 DEF IInv, TypeOK, EntryType, RecordType, RowType, EntryInv, Untrack, WorkingRows
<1>8. RecordInv'
  BY <1>1, <1>2 DEF IInv, TypeOK, RecordType, RowType, RecordInv, Untrack, Working, WorkingRows
<1>9. PollInv'
  BY <1>1, <1>2, PollUntracked DEF SnapshotSound
<1>10. TradeInv'
  <2>. SUFFICES ASSUME NEW s \in Symbols PROVE TradesOf(s)'
    BY DEF TradeInv
  <2>1. TradesOf(s) /\ openTrade[s] \in Orders \cup {NoOrder}
    BY DEF IInv, TypeOK, PositionType, TradeInv
  <2>2. /\ db'[o] = "open" /\ \A p \in Orders : db[p] = "open" => db'[p] = "open"
        /\ closing[s] # "none" => closeTrade[s] # o
    BY <1>1, <2>1 DEF IInv, TypeOK, RowType, TradesOf, WorkingRows
  <2>3. \/ openTrade'[s] = openTrade[s]
        \/ openTrade'[s] = o /\ SymOf[o] = s
    BY <1>1 DEF IInv, TypeOK, PositionType
  <2>. QED
    BY <1>2, <2>1, <2>2, <2>3 DEF TradesOf
<1>. QED
  BY <1>3, <1>4, <1>5, <1>6, <1>7, <1>8, <1>9, <1>10, SnapshotKept DEF IInv, TypeOK

LEMMA PollTerminalInv ==
  ASSUME IInv, NEW o \in Orders, NEW st, NEW f, SnapshotSound(o, st, f),
         ProcessSnapshot(o, st, f), PollTerminal(o, st, f)
  PROVE  IInv'
<1>1. /\ Untrack(o) /\ PollIdle /\ filled' = [filled EXCEPT ![o] = f]
      /\ db' = [db EXCEPT ![o] = "cancelled"]
      /\ book' = [book EXCEPT ![SymOf[o]] = 0]
      /\ openTrade' = [openTrade EXCEPT ![SymOf[o]] = NoOrder]
      /\ UNCHANGED <<dbFilled, credited, tasks>>
      /\ db[o] \in WorkingRows /\ f \in Lots
  BY DEF SnapshotSound, PollTerminal, Rollback
<1>2. UNCHANGED <<exFill, nextId, entering, loopUp, round, closing, closeTrade, closeSize,
                  snap, closeLost, killed>>
  BY DEF ProcessSnapshot, exchVars, closeVars, killVars
<1>3. RecordType'
  BY <1>1 DEF IInv, TypeOK, RecordType, Untrack, Statuses
<1>4. PollType'
  BY <1>1, <1>2 DEF IInv, TypeOK, PollType, PollIdle, PollPoints
<1>5. PositionType'
  BY <1>1, <1>2 DEF IInv, TypeOK, PositionType
<1>6. RowType'
  BY <1>1 DEF IInv, TypeOK, RowType, DbStatuses
<1>7. EntryInv'
  BY <1>1, <1>2 DEF IInv, TypeOK, EntryType, RecordType, RowType, EntryInv, Untrack, WorkingRows
<1>8. RecordInv'
  BY <1>1, <1>2 DEF IInv, TypeOK, RecordType, RowType, RecordInv, Untrack, Working, WorkingRows
<1>9. PollInv'
  BY <1>1, <1>2, PollUntracked DEF SnapshotSound
<1>10. TradeInv'
  <2>. SUFFICES ASSUME NEW s \in Symbols PROVE TradesOf(s)'
    BY DEF TradeInv
  <2>1. TradesOf(s) /\ openTrade[s] \in Orders \cup {NoOrder}
    BY DEF IInv, TypeOK, PositionType, TradeInv
  <2>2. \A p \in Orders : db[p] = "open" => db'[p] = "open"
    BY <1>1 DEF IInv, TypeOK, RowType, WorkingRows
  <2>3. openTrade'[s] = openTrade[s] \/ openTrade'[s] = NoOrder
    BY <1>1 DEF IInv, TypeOK, PositionType
  <2>. QED
    BY <1>2, <2>1, <2>2, <2>3 DEF TradesOf
<1>. QED
  BY <1>3, <1>4, <1>5, <1>6, <1>7, <1>8, <1>9, <1>10, SnapshotKept DEF IInv, TypeOK

LEMMA ApplyTypes ==
  ASSUME RecordType, NEW o \in Orders, NEW st \in Statuses, NEW f \in Lots, Apply(o, st, f)
  PROVE  /\ status' \in [Orders -> Statuses] /\ filled' \in [Orders -> Lots]
         /\ seen' \in [Orders -> SUBSET Lots]
<1>1. (IF st \in Working THEN seen[o] \cup {f} ELSE seen[o]) \in SUBSET Lots
  BY DEF RecordType
<1>. QED
  BY <1>1 DEF Apply, RecordType

\* A record that stays: it is written back, and given up once it is too old.
LEMMA PollApplied ==
  ASSUME IInv, NEW o \in Orders, NEW f, NEW st \in Working, SnapshotSound(o, st, f),
         UNCHANGED <<tracked, exFill, round, killed, loopUp>>,
         \/ /\ Apply(o, "timeout", f) /\ handled' = [handled EXCEPT ![o] = TRUE]
            /\ pollAt' = (IF st = "open" THEN "cancelOpen" ELSE "cancelPartial")
            /\ UNCHANGED pollOrder
         \/ Apply(o, st, f) /\ UNCHANGED handled /\ PollIdle,
         \/ st = "open" /\ UNCHANGED <<db, dbFilled>>
         \/ /\ st = "partial" /\ db' = [db EXCEPT ![o] = "partial"]
            /\ dbFilled' = [dbFilled EXCEPT ![o] = f]
  PROVE  RecordInv' /\ PollInv'
<1>1. /\ f \in Lots /\ filled' = [filled EXCEPT ![o] = f] /\ f <= exFill[o]
      /\ db[o] \in WorkingRows /\ dbFilled[o] = filled[o] /\ status[o] = "open" => filled[o] = 0
      /\ tracked[o] = TRUE /\ status[o] \in Working /\ handled[o] = FALSE
  BY DEF IInv, TypeOK, RecordType, RecordInv, SnapshotSound, Apply, Working
<1>2. /\ \A p \in Orders : p # o => db'[p] = db[p] /\ dbFilled'[p] = dbFilled[p]
      /\ db'[o] \in WorkingRows /\ dbFilled'[o] = f
      /\ db'[o] = "resting" => f = 0
      /\ db'[o] = "partial" => f > 0
  BY <1>1 DEF IInv, TypeOK, RowType, RecordInv, SnapshotSound, WorkingRows, Working, Lots
<1>3. /\ \A p \in Orders : p # o => status'[p] = status[p] /\ handled'[p] = handled[p]
                                   /\ filled'[p] = filled[p]
      /\ status'[o] \in {st, "timeout"} /\ filled'[o] = f
      /\ handled'[o] <=> status'[o] = "timeout"
  BY <1>1 DEF IInv, TypeOK, RecordType, Apply, Working
<1>4. RecordInv'
  BY <1>1, <1>2, <1>3 DEF IInv, RecordInv, SnapshotSound, Working
<1>5. PollInv'
  <2>1. \A p \in round : p # o /\ status[p] \in Working
    BY DEF IInv, PollInv, SnapshotSound
  <2>. QED
    BY <1>1, <1>3, <2>1 DEF IInv, TypeOK, RecordType, PollType, PollInv, PollIdle,
                            SnapshotSound, Apply, Working
<1>. QED
  BY <1>4, <1>5

LEMMA PollPartialInv ==
  ASSUME IInv, NEW o \in Orders, NEW st, NEW f, SnapshotSound(o, st, f),
         ProcessSnapshot(o, st, f), PollPartial(o, st, f)
  PROVE  IInv'
<1>1. /\ UNCHANGED <<exFill, nextId, entering, loopUp, round, closing, closeTrade, closeSize,
                     snap, closeLost, killed, tracked, credited, aged, openTrade, book>>
      /\ tasks' = tasks \cup {o}
      /\ db' = [db EXCEPT ![o] = "partial"] /\ dbFilled' = [dbFilled EXCEPT ![o] = f]
      /\ db[o] \in WorkingRows /\ f \in Lots /\ st = "partial"
  BY DEF ProcessSnapshot, PollPartial, SnapshotSound, exchVars, closeVars, killVars
<1>2. \/ /\ Apply(o, "timeout", f) /\ handled' = [handled EXCEPT ![o] = TRUE]
         /\ pollAt' = "cancelPartial"
         /\ UNCHANGED <<pollOrder, pollCanceled>>
      \/ Apply(o, st, f) /\ UNCHANGED handled /\ PollIdle
  BY DEF PollPartial
<1>3. RecordType'
  BY <1>1, <1>2, ApplyTypes DEF IInv, TypeOK, RecordType, Statuses
<1>4. PollType'
  BY <1>1, <1>2 DEF IInv, TypeOK, PollType, PollIdle, PollPoints
<1>5. PositionType' /\ RowType'
  BY <1>1 DEF IInv, TypeOK, PositionType, RowType, DbStatuses
<1>6. EntryInv'
  BY <1>1, <1>2 DEF IInv, TypeOK, EntryType, RecordType, RowType, EntryInv, Apply, WorkingRows
<1>7. RecordInv' /\ PollInv'
  BY <1>1, <1>2, PollApplied DEF Working
<1>8. TradeInv'
  <2>1. \A p \in Orders : db[p] = "open" => db'[p] = "open"
    BY <1>1 DEF IInv, TypeOK, RowType, WorkingRows
  <2>. QED
    BY <1>1, <2>1, TradesStayOpen DEF IInv, TypeOK, EntryType
<1>. QED
  BY <1>3, <1>4, <1>5, <1>6, <1>7, <1>8, SnapshotKept DEF IInv, TypeOK

LEMMA PollOpenInv ==
  ASSUME IInv, NEW o \in Orders, NEW st, NEW f, SnapshotSound(o, st, f),
         ProcessSnapshot(o, st, f), PollOpen(o, st, f)
  PROVE  IInv'
<1>1. /\ UNCHANGED <<exFill, nextId, entering, loopUp, round, closing, closeTrade, closeSize,
                     snap, closeLost, killed, tracked, credited, aged, openTrade, book,
                     tasks, db, dbFilled>>
      /\ db[o] \in WorkingRows /\ f \in Lots /\ st = "open"
  BY DEF ProcessSnapshot, PollOpen, SnapshotSound, exchVars, closeVars, killVars, dbVars
<1>2. \/ /\ Apply(o, "timeout", f) /\ handled' = [handled EXCEPT ![o] = TRUE]
         /\ pollAt' = "cancelOpen"
         /\ UNCHANGED <<pollOrder, pollCanceled>>
      \/ Apply(o, st, f) /\ UNCHANGED handled /\ PollIdle
  BY DEF PollOpen
<1>3. RecordType'
  BY <1>1, <1>2, ApplyTypes DEF IInv, TypeOK, RecordType, Statuses
<1>4. PollType'
  BY <1>1, <1>2 DEF IInv, TypeOK, PollType, PollIdle, PollPoints
<1>5. PositionType' /\ RowType'
  BY <1>1 DEF IInv, TypeOK, PositionType, RowType
<1>6. EntryInv'
  BY <1>1, <1>2 DEF IInv, TypeOK, EntryType, RecordType, RowType, EntryInv, Apply, WorkingRows
<1>7. RecordInv' /\ PollInv'
  BY <1>1, <1>2, PollApplied DEF Working
<1>8. TradeInv'
  BY <1>1, TradeKept DEF IInv
<1>. QED
  BY <1>3, <1>4, <1>5, <1>6, <1>7, <1>8, SnapshotKept DEF IInv, TypeOK

LEMMA ProcessSnapshotInv ==
  ASSUME IInv, NEW o \in Orders, NEW st, NEW f, SnapshotSound(o, st, f),
         ProcessSnapshot(o, st, f)
  PROVE  IInv'
BY PollSkipInv, PollFilledInv, PollTerminalInv, PollPartialInv, PollOpenInv
   DEF ProcessSnapshot

LEMMA PollAnsweredInv ==
  ASSUME NEW o \in Orders, IInv, PollAnswered(o)
  PROVE  IInv'
BY AnswerSound, ProcessSnapshotInv DEF PollAnswered

LEMMA PollFailedInv ==
  ASSUME NEW o \in Orders, IInv, PollFailed(o)
  PROVE  IInv'
BY FailureSound, ProcessSnapshotInv DEF PollFailed

-----------------------------------------------------------------------------
LEMMA InitInv == Init => IInv
<1>. SUFFICES ASSUME Init PROVE IInv
  OBVIOUS
<1>. 0 \in Lots /\ 1 \in 1..(MaxOrders + 1)
  BY DEF Lots
<1>1. /\ ExchangeType /\ EntryType /\ KillType /\ RecordType
      /\ PollType /\ PositionType /\ RowType
  <2>1. ExchangeType
    BY DEF Init, ExchangeType, ExStates
  <2>2. EntryType
    BY DEF Init, EntryType, Acks
  <2>3. KillType
    BY DEF Init, KillType, KillPoints
  <2>4. RecordType
    BY DEF Init, RecordType, Statuses
  <2>5. PollType /\ RowType
    BY DEF Init, PollType, RowType, DbStatuses, PollPoints
  <2>6. PositionType
    BY DEF Init, PositionType, CloseStages
  <2>. QED
    BY <2>1, <2>2, <2>3, <2>4, <2>5, <2>6
<1>2. ExchangeInv /\ EntryInv /\ RecordInv
  BY DEF Init, ExchangeInv, EntryInv, RecordInv, Working, WorkingRows
<1>3. PollInv
  BY DEF Init, PollInv
<1>4. TradeInv
  BY DEF Init, TradeInv, TradesOf
<1>. QED
  BY <1>1, <1>2, <1>3, <1>4 DEF IInv, TypeOK

LEMMA StutterInv == ASSUME IInv, UNCHANGED vars PROVE IInv'
<1>1. TypeOK'
  BY TypesKept DEF IInv
<1>2. ExchangeInv' /\ EntryInv' /\ RecordInv' /\ PollInv' /\ TradeInv'
  BY ExchangeKept, EntryKept, RecordKept, PollKept, TradeKept
     DEF IInv, vars, exchVars, entryVars, recordVars, pollVars, positionVars, closeVars,
         dbVars, killVars
<1>. QED
  BY <1>1, <1>2 DEF IInv

LEMMA NextInv == ASSUME IInv, [Next]_vars PROVE IInv'
<1>1. CASE Exchange
  BY <1>1, ExRestInv, ExFillAtOnceInv, ExRefuseInv, ExFillRestingInv, ExDropInv, ExCloseInv,
     ExRefuseCloseInv DEF Exchange
<1>2. CASE Entry
  BY <1>2, EnterSubmitInv, EnterRaisesInv, EnterAmbiguousInv, EnterRestsInv, EnterFilledInv,
     UnblockInv DEF Entry
<1>3. CASE Oms
  BY <1>3, PollRoundInv, PollStatusInv, PollAnsweredInv, PollFailedInv, TimeoutRollbackInv,
     TimeoutKeepPartialInv DEF Oms
<1>4. CASE Exit
  BY <1>4, ExitWithoutTradeInv, ExitSubmitInv, ExitClosedInv, ExitFailsInv, SaveSnapshotInv
     DEF Exit
<1>5. CASE Kill
  BY <1>5, KillBeginInv, KillCancelAllInv, KillFlattenInv, KillClearInv DEF Kill
<1>6. CASE \E o \in Orders : OrderAges(o) \/ Callback(o)
  BY <1>6, OrderAgesInv, CallbackInv
<1>7. CASE CrashRestart
  BY <1>7, CrashRestartInv
<1>8. CASE UNCHANGED vars
  BY <1>8, StutterInv
<1>. QED
  BY <1>1, <1>2, <1>3, <1>4, <1>5, <1>6, <1>7, <1>8 DEF Next

\* IInv holds in every reachable state, however many orders, restarts and kills.
THEOREM Invariance == Spec => []IInv
<1>1. Init => IInv
  BY InitInv
<1>2. IInv /\ [Next]_vars => IInv'
  BY NextInv
<1>. QED
  BY <1>1, <1>2, PTL DEF Spec

\* Every variable keeps its type: in particular no size ever exceeds what its
\* order asks for, and no position or book entry goes below zero.
THEOREM TypeCorrect == Spec => []TypeOK
<1>1. IInv => TypeOK
  BY DEF IInv
<1>. QED
  BY <1>1, Invariance, PTL

\* The trade an exit closes, and every open trade the executor holds in memory,
\* is a row the table has as open, through polls, rollbacks, kills and restarts.
THEOREM ExitsAreOfOpenRows == Spec => []ExitsCloseOpenRows
<1>1. IInv => ExitsCloseOpenRows
  BY DEF IInv, TradeInv, TradesOf, ExitsCloseOpenRows
<1>. QED
  BY <1>1, Invariance, PTL

-----------------------------------------------------------------------------
(***************************************************************************)
(* The steps that write the trades table, as steps of TradeLifecycle.        *)
(***************************************************************************)
\* One step moves one row, from what it was to what TradeLifecycle allows.
RowMoves(o) ==
    \E n \in Lots, d \in DbStatuses :
       /\ db' = [db EXCEPT ![o] = d]
       /\ dbFilled' = [dbFilled EXCEPT ![o] = n]
       /\ \/ db[o] = "none" /\ d \in {"resting", "unknown", "nameless"} /\ n = 0
          \/ db[o] = "none" /\ d = "open" /\ n = Full
          \/ db[o] \in WorkingRows /\ d \in {"partial", "open"} /\ n >= dbFilled[o] /\ n > 0
          \/ db[o] \in WorkingRows /\ d = "cancelled" /\ n = 0 /\ dbFilled[o] = 0
          \/ db[o] = "open" /\ d = "closed" /\ n = dbFilled[o]

\* Such a step is one of TradeLifecycle.
LEMMA RowMoveAllowed ==
  ASSUME RowType, NEW o \in Orders, RowMoves(o)
  PROVE  Row!Next
<1>1. PICK n \in Lots, d \in DbStatuses :
       /\ db' = [db EXCEPT ![o] = d]
       /\ dbFilled' = [dbFilled EXCEPT ![o] = n]
       /\ \/ db[o] = "none" /\ d \in {"resting", "unknown", "nameless"} /\ n = 0
          \/ db[o] = "none" /\ d = "open" /\ n = Full
          \/ db[o] \in WorkingRows /\ d \in {"partial", "open"} /\ n >= dbFilled[o] /\ n > 0
          \/ db[o] \in WorkingRows /\ d = "cancelled" /\ n = 0 /\ dbFilled[o] = 0
          \/ db[o] = "open" /\ d = "closed" /\ n = dbFilled[o]
  BY DEF RowMoves
<1>. DEFINE ph == [p \in Orders |-> PhaseOf[db[p]]]
<1>2. [p \in Orders |-> PhaseOf[db'[p]]] = [ph EXCEPT ![o] = PhaseOf[d]]
  BY <1>1 DEF RowType
<1>3. Row!Move(o, PhaseOf[d], n)
  BY <1>1, <1>2 DEF Row!Move
<1>4. n \in Nat /\ (n > 0 => n \in 1..Full)
  BY DEF Lots
<1>5. CASE db[o] = "none" /\ d \in {"resting", "unknown", "nameless"} /\ n = 0
  BY <1>3, <1>5 DEF Row!Next, Row!Create, PhaseOf
<1>6. CASE db[o] = "none" /\ d = "open" /\ n = Full
  BY <1>3, <1>6 DEF Row!Next, Row!Create, PhaseOf
<1>7. CASE db[o] \in WorkingRows /\ d \in {"partial", "open"} /\ n >= dbFilled[o] /\ n > 0
  <2>1. dbFilled[o] <= n /\ n \in 1..Full
    BY <1>4, <1>7 DEF RowType, Lots
  <2>. QED
    BY <1>3, <1>7, <2>1 DEF Row!Next, Row!Record, Row!Hold, PhaseOf, WorkingRows
<1>8. CASE db[o] \in WorkingRows /\ d = "cancelled" /\ n = 0 /\ dbFilled[o] = 0
  BY <1>3, <1>8 DEF Row!Next, Row!Void, PhaseOf, WorkingRows
<1>9. CASE db[o] = "open" /\ d = "closed" /\ n = dbFilled[o]
  <2>1. ph[o] = "held" /\ PhaseOf[d] = "closed"
    BY <1>9 DEF PhaseOf
  <2>2. Row!Move(o, "closed", dbFilled[o])
    BY <1>1, <1>2, <1>9, <2>1 DEF Row!Move
  <2>. QED
    BY <2>1, <2>2 DEF Row!Next, Row!Close
<1>. QED
  BY <1>1, <1>5, <1>6, <1>7, <1>8, <1>9

\* Every step moves one row so, or leaves the table alone.
LEMMA StepsMoveRows ==
  ASSUME IInv, [Next]_vars
  PROVE  (\E o \in Orders : RowMoves(o)) \/ UNCHANGED dbVars
<1>. USE DEF IInv, TypeOK, RowType
<1>1. CASE Exchange
  BY <1>1 DEF Exchange, ExRest, ExFillAtOnce, ExRefuse, ExFillResting, ExDrop, ExClose,
              ExRefuseClose
<1>2. CASE Entry
  <2>. SUFFICES ASSUME NEW s \in Symbols,
                       \/ EnterSubmit(s) \/ EnterRaises(s) \/ EnterAmbiguous(s)
                       \/ EnterRests(s) \/ EnterFilled(s) \/ Unblock(s)
                PROVE  (\E o \in Orders : RowMoves(o)) \/ UNCHANGED dbVars
    BY <1>2 DEF Entry
  <2>1. CASE EnterAmbiguous(s)
    <3>1. entering[s] \in Orders /\ db[entering[s]] = "none" /\ dbFilled[entering[s]] = 0
      BY <2>1 DEF EnterAmbiguous, EntryInv
    <3>2. db' = [db EXCEPT ![entering[s]] = "unknown"]
          /\ dbFilled' = [dbFilled EXCEPT ![entering[s]] = 0]
      BY <2>1, <3>1 DEF EnterAmbiguous
    <3>. QED
      BY <3>1, <3>2 DEF RowMoves, DbStatuses, Lots
  <2>2. CASE EnterRests(s)
    <3>1. entering[s] \in Orders /\ db[entering[s]] = "none" /\ dbFilled[entering[s]] = 0
      BY <2>2 DEF EnterRests, EntryInv
    <3>2. db' = [db EXCEPT ![entering[s]] = "resting"]
          /\ dbFilled' = [dbFilled EXCEPT ![entering[s]] = 0]
      BY <2>2, <3>1 DEF EnterRests
    <3>. QED
      BY <3>1, <3>2 DEF RowMoves, DbStatuses, Lots
  <2>3. CASE EnterFilled(s)
    <3>1. entering[s] \in Orders /\ db[entering[s]] = "none"
      BY <2>3 DEF EnterFilled, EntryInv
    <3>2. db' = [db EXCEPT ![entering[s]] = "open"]
          /\ dbFilled' = [dbFilled EXCEPT ![entering[s]] = Full]
      BY <2>3 DEF EnterFilled
    <3>3. Full \in Lots /\ "open" \in DbStatuses
      BY DEF Lots, DbStatuses
    <3>4. RowMoves(entering[s])
      BY <3>1, <3>2, <3>3 DEF RowMoves
    <3>. QED
      BY <3>1, <3>4
  <2>4. CASE EnterSubmit(s) \/ EnterRaises(s) \/ Unblock(s)
    BY <2>4 DEF EnterSubmit, EnterRaises, Unblock
  <2>. QED
    BY <2>1, <2>2, <2>3, <2>4
<1>3. CASE Oms
  <2>1. CASE PollRound
    BY <2>1 DEF PollRound
  <2>. SUFFICES ASSUME NEW o \in Orders,
                       \/ PollStatus(o) \/ PollAnswered(o) \/ PollFailed(o)
                       \/ TimeoutRollback(o) \/ TimeoutKeepPartial(o)
                PROVE  RowMoves(o) \/ UNCHANGED dbVars
    BY <1>3, <2>1 DEF Oms
  <2>2. CASE PollStatus(o)
    BY <2>2 DEF PollStatus
  <2>3. ASSUME NEW st, NEW f, SnapshotSound(o, st, f), ProcessSnapshot(o, st, f)
        PROVE  RowMoves(o) \/ UNCHANGED dbVars
    <3>1. /\ db[o] \in WorkingRows /\ f \in Lots /\ dbFilled[o] = filled[o] /\ ~killed
          /\ filled[o] <= f
          /\ st \in {"open", "cancelled"} => f = 0
          /\ st \in {"partial", "filled"} => f > 0
      BY <2>3 DEF SnapshotSound, RecordInv
    <3>2. CASE PollSkip(o, st, f) \/ PollOpen(o, st, f)
      BY <3>2 DEF PollSkip, PollOpen
    <3>3. CASE PollFilled(o, st, f)
      <4>1. /\ db' = [db EXCEPT ![o] = "open"] /\ dbFilled' = [dbFilled EXCEPT ![o] = f]
            /\ st = "filled"
        BY <3>1, <3>3 DEF PollFilled, Reinsert
      <4>. QED
        BY <3>1, <4>1 DEF RowMoves, DbStatuses
    <3>4. CASE PollTerminal(o, st, f)
      <4>1. /\ db' = [db EXCEPT ![o] = "cancelled"] /\ dbFilled' = [dbFilled EXCEPT ![o] = 0]
            /\ dbFilled[o] = 0
        BY <3>1, <3>4 DEF PollTerminal, Rollback, Lots
      <4>. QED
        BY <3>1, <4>1 DEF RowMoves, DbStatuses, Lots
    <3>5. CASE PollPartial(o, st, f)
      <4>1. /\ db' = [db EXCEPT ![o] = "partial"] /\ dbFilled' = [dbFilled EXCEPT ![o] = f]
            /\ st = "partial"
        BY <3>5 DEF PollPartial
      <4>. QED
        BY <3>1, <4>1 DEF RowMoves, DbStatuses
    <3>. QED
      BY <2>3, <3>2, <3>3, <3>4, <3>5 DEF ProcessSnapshot
  <2>4. CASE PollAnswered(o)
    BY <2>3, <2>4, AnswerSound DEF PollAnswered
  <2>5. CASE PollFailed(o)
    BY <2>3, <2>5, FailureSound DEF PollFailed
  <2>6. CASE TimeoutRollback(o)
    <3>1. db[o] \in WorkingRows /\ dbFilled[o] = 0
      BY <2>6 DEF TimeoutRollback, CancelReturns, PollType, PollInv, RecordInv
    <3>2. db' = [db EXCEPT ![o] = "cancelled"] /\ dbFilled' = [dbFilled EXCEPT ![o] = 0]
      BY <2>6, <3>1 DEF TimeoutRollback, Rollback
    <3>. QED
      BY <3>1, <3>2 DEF RowMoves, DbStatuses, Lots
  <2>7. CASE TimeoutKeepPartial(o)
    <3>1. /\ db[o] \in WorkingRows /\ dbFilled[o] = filled[o] /\ filled[o] > 0 /\ ~killed
          /\ filled[o] \in Lots
      BY <2>7 DEF TimeoutKeepPartial, CancelReturns, PollType, PollInv, RecordInv, RecordType
    <3>2. db' = [db EXCEPT ![o] = "open"] /\ dbFilled' = [dbFilled EXCEPT ![o] = filled[o]]
      BY <2>7, <3>1 DEF TimeoutKeepPartial, Reinsert
    <3>3. filled[o] >= dbFilled[o] /\ "open" \in DbStatuses
      BY <3>1 DEF Lots, DbStatuses
    <3>. QED
      BY <3>1, <3>2, <3>3 DEF RowMoves
  <2>. QED
    BY <2>2, <2>4, <2>5, <2>6, <2>7
<1>4. CASE Exit
  <2>1. CASE SaveSnapshot
    BY <2>1 DEF SaveSnapshot
  <2>. SUFFICES ASSUME NEW s \in Symbols,
                       \/ ExitWithoutTrade(s) \/ ExitSubmit(s) \/ ExitClosed(s) \/ ExitFails(s)
                PROVE  (\E o \in Orders : RowMoves(o)) \/ UNCHANGED dbVars
    BY <1>4, <2>1 DEF Exit
  <2>2. CASE ExitClosed(s)
    <3>1. closeTrade[s] \in Orders /\ db[closeTrade[s]] = "open"
      BY <2>2 DEF ExitClosed, TradeInv, TradesOf
    <3>2. /\ db' = [db EXCEPT ![closeTrade[s]] = "closed"]
          /\ dbFilled' = [dbFilled EXCEPT ![closeTrade[s]] = dbFilled[closeTrade[s]]]
      BY <2>2, <3>1 DEF ExitClosed
    <3>3. RowMoves(closeTrade[s])
      BY <3>1, <3>2 DEF RowMoves, DbStatuses
    <3>. QED
      BY <3>1, <3>3
  <2>3. CASE ExitWithoutTrade(s) \/ ExitSubmit(s) \/ ExitFails(s)
    BY <2>3 DEF ExitWithoutTrade, ExitSubmit, ExitFails
  <2>. QED
    BY <2>2, <2>3
<1>5. CASE Kill
  BY <1>5 DEF Kill, KillBegin, KillCancelAll, KillFlatten, KillClear
<1>6. CASE \E o \in Orders : OrderAges(o) \/ Callback(o)
  BY <1>6 DEF OrderAges, Callback
<1>7. CASE CrashRestart
  <2>1. ASSUME NEW o \in Orders, DiedWriting(o) PROVE RowMoves(o)
    BY <2>1 DEF DiedWriting, RowMoves, DbStatuses
  <2>. QED
    BY <1>7, <2>1, DeathWrites DEF CrashRestart
<1>8. CASE UNCHANGED vars
  BY <1>8 DEF vars
<1>. QED
  BY <1>1, <1>2, <1>3, <1>4, <1>5, <1>6, <1>7, <1>8 DEF Next

\* The trades table implements TradeLifecycle: no row is reopened, loses recorded
\* fills or is voided with a fill recorded, through kills, cancels and restarts.
THEOREM RowsRefineLifecycle == Spec => RowsImplementLifecycle
<1>1. Init => Row!Init
  BY DEF Init, Row!Init, PhaseOf
<1>2. IInv /\ [Next]_vars => [Row!Next]_Row!rowVars
  <2>. SUFFICES ASSUME IInv, [Next]_vars PROVE [Row!Next]_Row!rowVars
    OBVIOUS
  <2>1. CASE \E o \in Orders : RowMoves(o)
    BY <2>1, RowMoveAllowed DEF IInv, TypeOK
  <2>2. CASE UNCHANGED dbVars
    BY <2>2 DEF dbVars, Row!rowVars
  <2>. QED
    BY <2>1, <2>2, StepsMoveRows
<1>. QED
  BY <1>1, <1>2, Invariance, PTL DEF Spec, RowsImplementLifecycle, Row!Spec

-----------------------------------------------------------------------------
(***************************************************************************)
(* The poller still owns every working row.                                  *)
(***************************************************************************)
\* The poller will ask about order o, or is handling its timeout.
Polled(o) ==
    \/ status[o] \in Working
    \/ /\ status[o] = "timeout" /\ pollOrder = o
       /\ pollAt \in {"cancelOpen", "cancelPartial"}

LEMMA PolledKept ==
  ASSUME WorkingRowsPolled, killed' = killed, loopUp' = loopUp,
         UNCHANGED <<status, pollAt, pollOrder>>,
         \A o \in Orders : db'[o] \in WorkingRows => db[o] \in WorkingRows
  PROVE  WorkingRowsPolled'
BY DEF WorkingRowsPolled

\* While no timeout is being handled, the poller is yet to ask about every row.
LEMMA NothingTimedOut ==
  ASSUME WorkingRowsPolled, ~killed, pollAt \in {"idle", "query"},
         NEW o \in Orders, db[o] \in WorkingRows
  PROVE  status[o] \in Working
BY DEF WorkingRowsPolled

\* A step of the poller that settles its order, or keeps it in its hands.
LEMMA PolledAlone ==
  ASSUME WorkingRowsPolled, NEW o \in Orders, pollOrder = o, killed' = killed,
         loopUp' = loopUp,
         \A p \in Orders \ {o} : status'[p] = status[p] /\ db'[p] = db[p],
         db'[o] \in WorkingRows => Polled(o)'
  PROVE  WorkingRowsPolled'
<1>. SUFFICES ASSUME ~killed', NEW p \in Orders, db'[p] \in WorkingRows
              PROVE  loopUp' /\ Polled(p)'
  BY DEF WorkingRowsPolled, Polled
<1>1. loopUp'
  BY DEF WorkingRowsPolled
<1>2. CASE p = o
  BY <1>1, <1>2
<1>3. CASE p # o
  BY <1>1, <1>3 DEF WorkingRowsPolled, Polled
<1>. QED
  BY <1>2, <1>3

LEMMA PolledSnapshot ==
  ASSUME IInv, WorkingRowsPolled, NEW o \in Orders, NEW st, NEW f,
         SnapshotSound(o, st, f), ProcessSnapshot(o, st, f)
  PROVE  WorkingRowsPolled'
<1>1. /\ status \in [Orders -> Statuses] /\ db \in [Orders -> DbStatuses]
      /\ pollOrder = o /\ killed' = killed /\ loopUp' = loopUp
      /\ status[o] \in Working
  BY DEF IInv, TypeOK, RecordType, RowType, SnapshotSound, ProcessSnapshot, killVars
<1>2. CASE PollSkip(o, st, f)
  <2>1. status' = status /\ db' = db
    BY <1>2 DEF PollSkip, recordVars, dbVars
  <2>. QED
    BY <1>1, <2>1, PolledAlone DEF Polled
<1>3. CASE PollFilled(o, st, f)
  <2>1. /\ status' = [status EXCEPT ![o] = "none"] /\ db' = [db EXCEPT ![o] = "open"]
    BY <1>3 DEF PollFilled, Untrack, Reinsert, SnapshotSound
  <2>. QED
    BY <1>1, <2>1, PolledAlone DEF WorkingRows
<1>4. CASE PollTerminal(o, st, f)
  <2>1. status' = [status EXCEPT ![o] = "none"] /\ db' = [db EXCEPT ![o] = "cancelled"]
    BY <1>4 DEF PollTerminal, Rollback, Untrack
  <2>. QED
    BY <1>1, <2>1, PolledAlone DEF WorkingRows
<1>5. CASE PollPartial(o, st, f)
  <2>1. CASE aged[o]
    <3>1. /\ status' = [status EXCEPT ![o] = "timeout"] /\ db' = [db EXCEPT ![o] = "partial"]
          /\ pollAt' = "cancelPartial" /\ pollOrder' = pollOrder
      BY <1>5, <2>1 DEF PollPartial, Apply
    <3>. QED
      BY <1>1, <3>1, PolledAlone DEF Polled
  <2>2. CASE ~aged[o]
    <3>1. status' = [status EXCEPT ![o] = "partial"] /\ db' = [db EXCEPT ![o] = "partial"]
      BY <1>5, <2>2 DEF PollPartial, Apply
    <3>. QED
      BY <1>1, <3>1, PolledAlone DEF Polled, Working
  <2>. QED
    BY <2>1, <2>2
<1>6. CASE PollOpen(o, st, f)
  <2>1. CASE aged[o]
    <3>1. /\ status' = [status EXCEPT ![o] = "timeout"] /\ db' = db
          /\ pollAt' = "cancelOpen" /\ pollOrder' = pollOrder
      BY <1>6, <2>1 DEF PollOpen, Apply, dbVars
    <3>. QED
      BY <1>1, <3>1, PolledAlone DEF Polled
  <2>2. CASE ~aged[o]
    <3>1. status' = [status EXCEPT ![o] = "open"] /\ db' = db
      BY <1>6, <2>2 DEF PollOpen, Apply, dbVars
    <3>. QED
      BY <1>1, <3>1, PolledAlone DEF Polled, Working
  <2>. QED
    BY <2>1, <2>2
<1>. QED
  BY <1>2, <1>3, <1>4, <1>5, <1>6 DEF ProcessSnapshot

\* A submission's answer writes its row and, for a resting order, its record.
LEMMA PolledEntry ==
  ASSUME IInv, WorkingRowsPolled, Entry
  PROVE  WorkingRowsPolled'
<1>1. /\ status \in [Orders -> Statuses] /\ db \in [Orders -> DbStatuses]
      /\ UNCHANGED <<pollAt, pollOrder, loopUp, killed>>
  BY DEF IInv, TypeOK, RecordType, RowType, Entry, EnterSubmit, EnterRaises,
         EnterAmbiguous, EnterRests, EnterFilled, Unblock, pollVars, killVars
<1>2. PICK s \in Symbols : EnterSubmit(s) \/ EnterRaises(s) \/ EnterAmbiguous(s)
                           \/ EnterRests(s) \/ EnterFilled(s) \/ Unblock(s)
  BY DEF Entry
<1>3. CASE EnterSubmit(s) \/ EnterRaises(s) \/ Unblock(s)
  BY <1>1, <1>3, PolledKept DEF EnterSubmit, EnterRaises, Unblock, recordVars, dbVars
<1>4. CASE EnterAmbiguous(s)
  <2>1. PICK o \in Orders : o = entering[s]
    BY <1>4 DEF EnterAmbiguous
  <2>2. status' = status /\ db' = [db EXCEPT ![o] = "unknown"]
    BY <1>4, <2>1 DEF EnterAmbiguous, recordVars
  <2>. QED
    BY <1>1, <2>2, PolledKept DEF WorkingRows
<1>5. CASE EnterRests(s) \/ EnterFilled(s)
  <2>1. PICK o \in Orders : o = entering[s]
    BY <1>5 DEF EnterRests, EnterFilled
  <2>2. \/ /\ status' = [status EXCEPT ![o] = "open"]
           /\ db' = [db EXCEPT ![o] = "resting"]
        \/ /\ status' = [status EXCEPT ![o] = "filled"]
           /\ db' = [db EXCEPT ![o] = "open"]
    BY <1>5, <2>1 DEF EnterRests, EnterFilled
  <2>3. \A p \in Orders \ {o} : status'[p] = status[p] /\ db'[p] = db[p]
    BY <1>1, <2>2
  <2>4. db'[o] \in WorkingRows => status'[o] \in Working
    BY <1>1, <2>2 DEF WorkingRows, Working
  <2>. QED
    BY <1>1, <2>3, <2>4 DEF WorkingRowsPolled
<1>. QED
  BY <1>2, <1>3, <1>4, <1>5

LEMMA PolledStep ==
  ASSUME IInv, WorkingRowsPolled, [Next]_vars
  PROVE  WorkingRowsPolled'
<1>t. status \in [Orders -> Statuses] /\ db \in [Orders -> DbStatuses]
  BY DEF IInv, TypeOK, RecordType, RowType
<1>1. CASE Exchange
  BY <1>1, PolledKept DEF Exchange, ExRest, ExFillAtOnce, ExRefuse, ExFillResting, ExDrop,
                          ExClose, ExRefuseClose, recordVars, pollVars, dbVars, killVars
<1>2. CASE Entry
  BY <1>2, PolledEntry
<1>3. CASE Oms
  <2>1. ASSUME PollRound PROVE WorkingRowsPolled'
    BY <2>1, PolledKept DEF PollRound, recordVars, dbVars, killVars
  <2>2. ASSUME NEW o \in Orders, PollStatus(o) PROVE WorkingRowsPolled'
    <3>1. /\ pollAt = "idle" /\ UNCHANGED <<status, db, loopUp, killed>>
      BY <2>2 DEF PollStatus, recordVars, dbVars, killVars
    <3>. QED
      BY <3>1, NothingTimedOut DEF WorkingRowsPolled
  <2>3. ASSUME NEW o \in Orders, PollAnswered(o) PROVE WorkingRowsPolled'
    BY <2>3, AnswerSound, PolledSnapshot DEF PollAnswered
  <2>4. ASSUME NEW o \in Orders, PollFailed(o) PROVE WorkingRowsPolled'
    BY <2>4, FailureSound, PolledSnapshot DEF PollFailed
  <2>5. ASSUME NEW o \in Orders, TimeoutRollback(o) \/ TimeoutKeepPartial(o)
        PROVE  WorkingRowsPolled'
    <3>1. /\ pollOrder = o /\ ~killed /\ UNCHANGED <<loopUp, killed>>
          /\ status' = [status EXCEPT ![o] = "none"]
      BY <2>5 DEF TimeoutRollback, TimeoutKeepPartial, CancelReturns, Rollback, Untrack,
                  killVars, IInv, PollInv
    <3>2. db' \in {[db EXCEPT ![o] = "cancelled"], [db EXCEPT ![o] = "open"]}
      BY <2>5, <3>1 DEF TimeoutRollback, TimeoutKeepPartial, Rollback, Reinsert
    <3>. QED
      BY <1>t, <3>1, <3>2, PolledAlone DEF WorkingRows
  <2>. QED
    BY <1>3, <2>1, <2>2, <2>3, <2>4, <2>5 DEF Oms
<1>4. CASE Exit
  <2>1. ASSUME NEW s \in Symbols, ExitClosed(s) PROVE WorkingRowsPolled'
    <3>1. /\ UNCHANGED <<status, pollAt, pollOrder, loopUp, killed>>
          /\ db' = [db EXCEPT ![closeTrade[s]] = "closed"]
      BY <2>1 DEF ExitClosed, recordVars, pollVars, killVars
    <3>. QED
      BY <1>t, <3>1, PolledKept DEF WorkingRows
  <2>2. ASSUME SaveSnapshot \/ \E s \in Symbols : ExitWithoutTrade(s) \/ ExitSubmit(s)
                                                  \/ ExitFails(s)
        PROVE  WorkingRowsPolled'
    BY <2>2, PolledKept DEF SaveSnapshot, ExitWithoutTrade, ExitSubmit, ExitFails,
                            recordVars, pollVars, dbVars, killVars
  <2>. QED
    BY <1>4, <2>1, <2>2 DEF Exit
<1>5. CASE Kill
  <2>1. CASE KillBegin
    BY <2>1 DEF KillBegin, WorkingRowsPolled
  <2>2. CASE KillCancelAll \/ KillFlatten \/ KillClear
    BY <2>2, PolledKept DEF KillCancelAll, KillFlatten, KillClear, recordVars, pollVars,
                            dbVars
  <2>. QED
    BY <1>5, <2>1, <2>2 DEF Kill
<1>6. CASE \E o \in Orders : OrderAges(o) \/ Callback(o)
  BY <1>6, PolledKept DEF OrderAges, Callback, pollVars, dbVars, killVars
<1>7. CASE CrashRestart
  <2>1. /\ loopUp' = TRUE
        /\ \A o \in Orders : status'[o] = IF db'[o] \notin WorkingRows THEN "none"
                                           ELSE IF db'[o] = "partial" THEN "partial"
                                           ELSE "open"
    BY <1>7 DEF CrashRestart, LoadPendingOrders, Reloaded
  <2>. QED
    BY <2>1 DEF WorkingRowsPolled, Working
<1>8. CASE UNCHANGED vars
  BY <1>8, PolledKept DEF vars, recordVars, pollVars, dbVars, killVars
<1>. QED
  BY <1>1, <1>2, <1>3, <1>4, <1>5, <1>6, <1>7, <1>8 DEF Next

\* No working row with an exchange id is forgotten by the poller: submissions,
\* fills, failed queries, timeouts, exits and restarts, whichever commit a death
\* comes after, leave each one polled or in the timeout that is being handled.
\* WorkingRowsSettle rests on this: what the poller does not own nothing settles,
\* as the row of a submission cut between its two commits shows.
THEOREM NoRowForgotten == Spec => []WorkingRowsPolled
<1>1. Init => WorkingRowsPolled
  BY DEF Init, WorkingRowsPolled, WorkingRows
<1>2. IInv /\ WorkingRowsPolled /\ [Next]_vars => WorkingRowsPolled'
  BY PolledStep
<1>. QED
  BY <1>1, <1>2, Invariance, PTL DEF Spec

-----------------------------------------------------------------------------
LEMMA KilledStepsFreeze ==
  ASSUME IInv, [Next]_vars, killed, killed', NEW o \in Orders, db[o] \in WorkingRows
  PROVE  db'[o] = db[o]
<1>1. pollAt = "idle" /\ \A s \in Symbols : entering[s] # NoOrder => entering[s] # o
  BY DEF IInv, PollInv, EntryInv, WorkingRows
<1>2. \A s \in Symbols : closing[s] = "executed" => closeTrade[s] # o
  BY DEF IInv, TradeInv, TradesOf, WorkingRows
<1>3. CASE Exchange
  BY <1>3 DEF Exchange, ExRest, ExFillAtOnce, ExRefuse, ExFillResting, ExDrop, ExClose,
              ExRefuseClose, dbVars
<1>4. CASE Entry
  BY <1>1, <1>4 DEF IInv, TypeOK, RowType, Entry, EnterSubmit, EnterRaises, EnterAmbiguous,
                    EnterRests, EnterFilled, Unblock, dbVars
<1>5. CASE Oms
  BY <1>1, <1>5 DEF Oms, PollRound, PollStatus, PollAnswered, PollFailed, TimeoutRollback,
                    TimeoutKeepPartial, dbVars
<1>6. CASE Exit
  BY <1>2, <1>6 DEF IInv, TypeOK, RowType, Exit, ExitWithoutTrade, ExitSubmit, ExitClosed,
                    ExitFails, SaveSnapshot, dbVars
<1>7. CASE Kill
  BY <1>7 DEF Kill, KillBegin, KillCancelAll, KillFlatten, KillClear, dbVars
<1>8. CASE \E p \in Orders : OrderAges(p) \/ Callback(p)
  BY <1>8 DEF OrderAges, Callback, dbVars
<1>9. CASE CrashRestart
  BY <1>9 DEF CrashRestart
<1>10. CASE UNCHANGED vars
  BY <1>10 DEF vars, dbVars
<1>. QED
  BY <1>3, <1>4, <1>5, <1>6, <1>7, <1>8, <1>9, <1>10 DEF Next

\* Nothing the poller had in flight when the kill latch was set completes: the
\* latch, the cancellation of the poller and the clearing of its records leave
\* every working row for the next start to reload.
THEOREM KillFreezes == Spec => KillFreezesWorkingRows
<1>1. IInv /\ [Next]_vars =>
         [killed /\ killed' => \A o \in Orders :
                                  db[o] \in WorkingRows => db'[o] = db[o]]_vars
  BY KilledStepsFreeze
<1>. QED
  BY <1>1, Invariance, PTL DEF Spec, KillFreezesWorkingRows

-----------------------------------------------------------------------------
(***************************************************************************)
(* Fills, from the exchange to the book, when "filled" means filled.         *)
(***************************************************************************)
\* What each ledger says of an order is backed by the one before it.
CreditInv ==
    \A o \in Orders : /\ ack[o] = "filled" => exFill[o] = Full
                      /\ credited[o] <= filled[o] /\ filled[o] <= exFill[o]
                      /\ dbFilled[o] <= exFill[o]

LEMMA CreditKept ==
  ASSUME CreditInv, UNCHANGED <<ack, exFill, credited, filled, dbFilled>>
  PROVE  CreditInv'
BY DEF CreditInv

\* A longer fill of one order at the exchange.
LEMMA CreditFill ==
  ASSUME IInv, CreditInv, NEW o \in Orders, NEW n \in 1..Full, exFill[o] + n <= Full,
         Fill(o, n), UNCHANGED <<credited, filled, dbFilled>>,
         \A p \in Orders : ack'[p] = "filled" => ack[p] = "filled" \/ exFill'[p] = Full
  PROVE  CreditInv'
<1>. SUFFICES ASSUME NEW p \in Orders
              PROVE  /\ ack'[p] = "filled" => exFill'[p] = Full
                     /\ credited[p] <= filled[p] /\ filled[p] <= exFill'[p]
                     /\ dbFilled[p] <= exFill'[p]
  BY DEF CreditInv
<1>1. exFill[p] \in Nat /\ exFill'[p] \in Nat /\ exFill[p] <= exFill'[p] /\ exFill'[p] <= Full
  BY DEF IInv, TypeOK, ExchangeType, Fill, Lots
<1>2. /\ ack[p] = "filled" => exFill[p] = Full
      /\ credited[p] <= filled[p] /\ filled[p] <= exFill[p] /\ dbFilled[p] <= exFill[p]
      /\ filled[p] \in Nat /\ dbFilled[p] \in Nat
  BY DEF IInv, TypeOK, RecordType, RowType, CreditInv, Lots
<1>. QED
  BY <1>1, <1>2

\* A snapshot lies between what the record says and what the exchange filled.
LEMMA CreditSnapshot ==
  ASSUME IInv, CreditInv, NEW o \in Orders, NEW st, NEW f, SnapshotSound(o, st, f),
         ProcessSnapshot(o, st, f)
  PROVE  CreditInv'
<1>1. /\ UNCHANGED <<ack, exFill, credited>> /\ f \in Lots
      /\ filled[o] <= f /\ f <= exFill[o]
      /\ filled' \in {filled, [filled EXCEPT ![o] = f]}
      /\ dbFilled' \in {dbFilled, [dbFilled EXCEPT ![o] = f]}
  BY DEF ProcessSnapshot, SnapshotSound, PollSkip, PollFilled, PollTerminal, PollPartial,
         PollOpen, Apply, Reinsert, Rollback, exchVars, recordVars, dbVars
<1>2. credited[o] <= f
  BY <1>1 DEF IInv, TypeOK, RecordType, CreditInv, Lots
<1>. QED
  BY <1>1, <1>2 DEF IInv, TypeOK, RecordType, RowType, CreditInv

LEMMA CreditStep ==
  ASSUME PartialIoc = FALSE, IInv, CreditInv, [Next]_vars
  PROVE  CreditInv'
<1>1. CASE Exchange
  <2>1. ASSUME NEW o \in Orders, ExFillAtOnce(o) PROVE CreditInv'
    <3>1. Fill(o, Full) /\ exFill[o] = 0 /\ exFill'[o] = Full
      BY <2>1 DEF ExFillAtOnce, IocFills, Fill, IInv, TypeOK, ExchangeType, ExchangeInv, Lots
    <3>2. \A p \in Orders : ack'[p] = "filled" => ack[p] = "filled" \/ exFill'[p] = Full
      BY <2>1, <3>1 DEF ExFillAtOnce, Answer, IInv, TypeOK, EntryType
    <3>. QED
      BY <2>1, <3>1, <3>2, CreditFill DEF ExFillAtOnce, recordVars, dbVars
  <2>2. ASSUME NEW o \in Orders, ExFillResting(o) PROVE CreditInv'
    <3>1. PICK n \in 1..Full : exFill[o] + n <= Full /\ Fill(o, n)
      BY <2>2 DEF ExFillResting
    <3>. QED
      BY <2>2, <3>1, CreditFill DEF ExFillResting, entryVars, recordVars, dbVars
  <2>3. ASSUME NEW o \in Orders, ExRest(o) \/ ExRefuse(o) PROVE CreditInv'
    BY <2>3 DEF ExRest, ExRefuse, Answer, CreditInv, IInv, TypeOK, EntryType, recordVars,
                dbVars
  <2>4. ASSUME NEW o \in Orders, ExDrop(o) PROVE CreditInv'
    BY <2>4, CreditKept DEF ExDrop, entryVars, recordVars, dbVars
  <2>5. ASSUME NEW s \in Symbols, ExClose(s) \/ ExRefuseClose(s) PROVE CreditInv'
    BY <2>5, CreditKept DEF ExClose, ExRefuseClose, exchVars, entryVars, recordVars, dbVars
  <2>. QED
    BY <1>1, <2>1, <2>2, <2>3, <2>4, <2>5 DEF Exchange
<1>2. CASE Entry
  <2>1. ASSUME NEW s \in Symbols, EnterFilled(s) PROVE CreditInv'
    <3>1. entering[s] \in Orders /\ exFill[entering[s]] = Full
      BY <2>1 DEF EnterFilled, CreditInv
    <3>2. \A o \in Orders : credited[o] \in Lots
      BY DEF IInv, TypeOK, RecordType
    <3>. QED
      BY SMTT(30), <2>1, <3>1, <3>2 DEF EnterFilled, CreditInv, IInv, TypeOK, EntryType, RecordType,
                              RowType, exchVars, Lots
  <2>2. ASSUME NEW s \in Symbols, EnterRaises(s) \/ EnterAmbiguous(s) \/ EnterRests(s)
        PROVE  CreditInv'
    <3>1. /\ UNCHANGED <<exFill, credited, filled, dbFilled>>
          /\ ack' = [ack EXCEPT ![entering[s]] = "none"]
      BY <2>2 DEF EnterRaises, EnterAmbiguous, EnterRests, exchVars, recordVars, dbVars
    <3>. QED
      BY <3>1 DEF CreditInv, IInv, TypeOK, EntryType
  <2>3. ASSUME NEW s \in Symbols, EnterSubmit(s) \/ Unblock(s) PROVE CreditInv'
    BY <2>3, CreditKept DEF EnterSubmit, Unblock, exchVars, recordVars, dbVars
  <2>. QED
    BY <1>2, <2>1, <2>2, <2>3 DEF Entry
<1>3. CASE Oms
  <2>1. CASE PollRound
    BY <2>1, CreditKept DEF PollRound, exchVars, entryVars, recordVars, dbVars
  <2>2. ASSUME NEW o \in Orders, PollStatus(o) PROVE CreditInv'
    BY <2>2, CreditKept DEF PollStatus, exchVars, entryVars, recordVars, dbVars
  <2>3. ASSUME NEW o \in Orders, PollAnswered(o) PROVE CreditInv'
    BY <2>3, AnswerSound, CreditSnapshot DEF PollAnswered
  <2>4. ASSUME NEW o \in Orders, PollFailed(o) PROVE CreditInv'
    BY <2>4, FailureSound, CreditSnapshot DEF PollFailed
  <2>5. ASSUME NEW o \in Orders, TimeoutRollback(o) PROVE CreditInv'
    BY <2>5, CreditKept DEF TimeoutRollback, CancelReturns, Rollback
  <2>6. ASSUME NEW o \in Orders, TimeoutKeepPartial(o) PROVE CreditInv'
    <3>1. /\ UNCHANGED <<ack, exFill, credited, filled>>
          /\ dbFilled' \in {dbFilled, [dbFilled EXCEPT ![o] = filled[o]]}
      BY <2>6 DEF TimeoutKeepPartial, CancelReturns, Reinsert, dbVars
    <3>. QED
      BY <3>1 DEF CreditInv, IInv, TypeOK, RowType
  <2>. QED
    BY <1>3, <2>1, <2>2, <2>3, <2>4, <2>5, <2>6 DEF Oms
<1>4. CASE Exit
  BY <1>4, CreditKept DEF Exit, ExitWithoutTrade, ExitSubmit, ExitClosed, ExitFails,
                          SaveSnapshot, exchVars, entryVars, recordVars, dbVars
<1>5. CASE Kill
  BY <1>5, CreditKept DEF Kill, KillBegin, KillCancelAll, KillFlatten, KillClear, exchVars,
                          entryVars, recordVars, dbVars
<1>6. ASSUME NEW o \in Orders, OrderAges(o) PROVE CreditInv'
  BY <1>6, CreditKept DEF OrderAges, exchVars, entryVars, dbVars
<1>7. ASSUME NEW o \in Orders, Callback(o) PROVE CreditInv'
  <2>1. /\ UNCHANGED <<ack, exFill, filled, dbFilled>>
        /\ credited' \in {credited, [credited EXCEPT ![o] = filled[o]]}
    BY <1>7 DEF Callback, exchVars, entryVars, dbVars
  <2>2. filled[o] <= filled[o]
    BY DEF IInv, TypeOK, RecordType, Lots
  <2>. QED
    BY <2>1, <2>2 DEF CreditInv, IInv, TypeOK, RecordType
<1>8. CASE CrashRestart
  <2>1. /\ UNCHANGED exFill
        /\ \A o \in Orders : /\ ack'[o] = "none" /\ credited'[o] = 0
                             /\ filled'[o] \in {0, dbFilled'[o]}
    BY <1>8 DEF CrashRestart, LoadPendingOrders, exchVars
  <2>2. \A o \in Orders : exFill[o] \in Nat /\ dbFilled[o] \in Nat
    BY DEF IInv, TypeOK, ExchangeType, RowType, Lots
  <2>3. \A o \in Orders : dbFilled'[o] \in Nat /\ dbFilled'[o] <= exFill[o]
    <3>1. CASE UNCHANGED dbVars
      BY <2>2, <3>1 DEF CreditInv, dbVars
    <3>2. ASSUME NEW o \in Orders, DiedWriting(o)
          PROVE  \A p \in Orders : dbFilled'[p] \in Nat /\ dbFilled'[p] <= exFill[p]
      <4>1. PICK n \in Lots, d \in {"nameless", "open", "closed"} :
               /\ dbFilled' = [dbFilled EXCEPT ![o] = n]
               /\ \/ d = "nameless" /\ db[o] = "none" /\ n = 0
                  \/ d = "open" /\ db[o] = "none" /\ n = Full /\ ack[o] = "filled"
                  \/ d = "closed" /\ db[o] = "open" /\ n = dbFilled[o]
        BY <3>2, Zenon DEF DiedWriting
      <4>2. n \in Nat /\ n <= exFill[o]
        BY <2>2, <4>1 DEF CreditInv, Lots
      <4>. QED
        BY <2>2, <4>1, <4>2 DEF CreditInv, IInv, TypeOK, RowType
    <3>3. RowsAtDeath
      BY <1>8 DEF CrashRestart
    <3>4. (\E o \in Orders : DiedWriting(o)) \/ UNCHANGED dbVars
      BY <3>3, DeathWrites
    <3>. QED
      BY <3>1, <3>2, <3>4
  <2>4. ASSUME NEW o \in Orders
        PROVE  0 <= filled'[o] /\ filled'[o] <= exFill[o]
    <3>1. CASE filled'[o] = 0
      BY <2>2, <3>1
    <3>2. CASE filled'[o] = dbFilled'[o]
      BY <2>3, <3>2
    <3>. QED
      BY <2>1, <3>1, <3>2
  <2>. QED
    BY <2>1, <2>3, <2>4, Z3 DEF CreditInv
<1>9. CASE UNCHANGED vars
  BY <1>9, CreditKept DEF vars, exchVars, entryVars, recordVars, dbVars
<1>. QED
  BY <1>1, <1>2, <1>3, <1>4, <1>5, <1>6, <1>7, <1>8, <1>9 DEF Next

\* When an order answered "filled" is filled whole, what the callback credits
\* never exceeds what the poller read, nor that what the exchange filled,
\* whatever answers, cancels and restarts come between.
THEOREM CreditIsBacked ==
  ASSUME PartialIoc = FALSE
  PROVE  Spec => []CreditBacked
<1>1. Init => CreditInv
  BY DEF Init, CreditInv
<1>2. IInv /\ CreditInv /\ [Next]_vars => CreditInv'
  BY CreditStep
<1>3. CreditInv => CreditBacked
  BY DEF CreditInv, CreditBacked
<1>. QED
  BY <1>1, <1>2, <1>3, Invariance, PTL DEF Spec

-----------------------------------------------------------------------------
(***************************************************************************)
(* Fills, from the record to the book, within one process.                   *)
(***************************************************************************)
\* Rows and records count the same fills, and what a record gained is credited
\* or waits in a scheduled callback.
CreditedInv ==
    \A o \in Orders :
       /\ credited[o] <= filled[o]
       /\ db[o] = "open" => filled[o] = dbFilled[o]
       /\ db[o] \in {"open", "partial"} => o \in tasks \/ credited[o] = filled[o]

LEMMA CreditedKept ==
  ASSUME CreditedInv, UNCHANGED <<credited, filled, db, dbFilled, tasks>>
  PROVE  CreditedInv'
BY DEF CreditedInv

\* A step that changes at most the row, the record and the task of order o.
LEMMA CreditedAlone ==
  ASSUME CreditedInv, NEW o \in Orders, credited' = credited, tasks \subseteq tasks',
         \A p \in Orders \ {o} : /\ filled'[p] = filled[p]
                                 /\ db'[p] = db[p] /\ dbFilled'[p] = dbFilled[p],
         credited[o] <= filled'[o],
         db'[o] = "open" => filled'[o] = dbFilled'[o],
         db'[o] \in {"open", "partial"} => o \in tasks' \/ credited[o] = filled'[o]
  PROVE  CreditedInv'
BY DEF CreditedInv

LEMMA CreditedSnapshot ==
  ASSUME IInv, CreditedInv, NEW o \in Orders, NEW st, NEW f, SnapshotSound(o, st, f),
         ProcessSnapshot(o, st, f)
  PROVE  CreditedInv'
<1>1. /\ f \in Nat /\ credited[o] \in Nat /\ filled[o] \in Nat
      /\ credited[o] <= filled[o] /\ filled[o] <= f
      /\ db[o] \in WorkingRows /\ ~killed
      /\ st \in {"open", "cancelled"} => f = 0
  BY DEF SnapshotSound, IInv, TypeOK, RecordType, CreditedInv, Lots
<1>2. /\ filled \in [Orders -> Lots] /\ db \in [Orders -> DbStatuses]
      /\ dbFilled \in [Orders -> Lots]
  BY DEF IInv, TypeOK, RecordType, RowType
<1>3. CASE PollSkip(o, st, f)
  BY <1>3, CreditedKept DEF PollSkip, recordVars, dbVars
<1>4. CASE PollFilled(o, st, f)
  <2>1. /\ filled' = [filled EXCEPT ![o] = f] /\ tasks' = tasks \cup {o}
        /\ db' = [db EXCEPT ![o] = "open"] /\ dbFilled' = [dbFilled EXCEPT ![o] = f]
        /\ credited' = credited
    BY <1>1, <1>4 DEF PollFilled, Reinsert
  <2>. QED
    BY <1>1, <1>2, <2>1, CreditedAlone
<1>5. CASE PollTerminal(o, st, f)
  <2>1. /\ filled' = [filled EXCEPT ![o] = f] /\ tasks' = tasks
        /\ db' = [db EXCEPT ![o] = "cancelled"] /\ dbFilled' = dbFilled
        /\ credited' = credited
    BY <1>5 DEF PollTerminal, Rollback
  <2>. QED
    BY <1>1, <1>2, <2>1, CreditedAlone
<1>6. CASE PollPartial(o, st, f)
  <2>1. /\ filled' = [filled EXCEPT ![o] = f] /\ tasks' = tasks \cup {o}
        /\ db' = [db EXCEPT ![o] = "partial"] /\ dbFilled' = [dbFilled EXCEPT ![o] = f]
        /\ credited' = credited
    BY <1>6 DEF PollPartial, Apply
  <2>. QED
    BY <1>1, <1>2, <2>1, CreditedAlone
<1>7. CASE PollOpen(o, st, f)
  <2>1. /\ filled' = [filled EXCEPT ![o] = f] /\ st = "open"
        /\ UNCHANGED <<tasks, credited, db, dbFilled>>
    BY <1>7 DEF PollOpen, Apply, dbVars
  <2>2. filled' = filled
    BY <1>1, <1>2, <2>1
  <2>. QED
    BY <2>1, <2>2, CreditedKept
<1>. QED
  BY <1>3, <1>4, <1>5, <1>6, <1>7 DEF ProcessSnapshot

LEMMA CreditedStep ==
  ASSUME IInv, CreditedInv, [Next]_vars, crashes' = 0
  PROVE  CreditedInv'
<1>t. /\ filled \in [Orders -> Lots] /\ credited \in [Orders -> Lots]
      /\ db \in [Orders -> DbStatuses] /\ dbFilled \in [Orders -> Lots]
  BY DEF IInv, TypeOK, RecordType, RowType
<1>1. CASE Exchange
  BY <1>1, CreditedKept DEF Exchange, ExRest, ExFillAtOnce, ExRefuse, ExFillResting, ExDrop,
                            ExClose, ExRefuseClose, recordVars, dbVars
<1>2. CASE Entry
  <2>1. ASSUME NEW s \in Symbols, EnterFilled(s) PROVE CreditedInv'
    <3>1. PICK o \in Orders : o = entering[s]
      BY <2>1 DEF EnterFilled
    <3>2. /\ filled' = [filled EXCEPT ![o] = Full] /\ tasks' = tasks \cup {o}
          /\ db' = [db EXCEPT ![o] = "open"] /\ dbFilled' = [dbFilled EXCEPT ![o] = Full]
          /\ credited' = credited
      BY <2>1, <3>1 DEF EnterFilled
    <3>3. credited[o] <= Full
      BY <1>t DEF Lots
    <3>. QED
      BY <1>t, <3>2, <3>3, CreditedAlone
  <2>2. ASSUME NEW s \in Symbols, EnterAmbiguous(s) \/ EnterRests(s) PROVE CreditedInv'
    <3>1. PICK o \in Orders : o = entering[s]
      BY <2>2 DEF EnterAmbiguous, EnterRests
    <3>2. /\ UNCHANGED <<filled, tasks, dbFilled, credited>>
          /\ db' \in {[db EXCEPT ![o] = "unknown"], [db EXCEPT ![o] = "resting"]}
      BY <2>2, <3>1 DEF EnterAmbiguous, EnterRests, recordVars
    <3>3. credited[o] <= filled[o]
      BY DEF CreditedInv
    <3>. QED
      BY <1>t, <3>2, <3>3, CreditedAlone
  <2>3. ASSUME NEW s \in Symbols, EnterSubmit(s) \/ EnterRaises(s) \/ Unblock(s)
        PROVE  CreditedInv'
    BY <2>3, CreditedKept DEF EnterSubmit, EnterRaises, Unblock, recordVars, dbVars
  <2>. QED
    BY <1>2, <2>1, <2>2, <2>3 DEF Entry
<1>3. CASE Oms
  <2>1. ASSUME PollRound \/ \E o \in Orders : PollStatus(o) PROVE CreditedInv'
    BY <2>1, CreditedKept DEF PollRound, PollStatus, recordVars, dbVars
  <2>2. ASSUME NEW o \in Orders, PollAnswered(o) PROVE CreditedInv'
    BY <2>2, AnswerSound, CreditedSnapshot DEF PollAnswered
  <2>3. ASSUME NEW o \in Orders, PollFailed(o) PROVE CreditedInv'
    BY <2>3, FailureSound, CreditedSnapshot DEF PollFailed
  <2>4. ASSUME NEW o \in Orders, TimeoutRollback(o) PROVE CreditedInv'
    <3>1. /\ UNCHANGED <<filled, tasks, dbFilled, credited>>
          /\ db' = [db EXCEPT ![o] = "cancelled"]
      BY <2>4 DEF TimeoutRollback, CancelReturns, Rollback
    <3>2. credited[o] <= filled[o]
      BY DEF CreditedInv
    <3>. QED
      BY <1>t, <3>1, <3>2, CreditedAlone
  <2>5. ASSUME NEW o \in Orders, TimeoutKeepPartial(o) PROVE CreditedInv'
    <3>1. /\ status[o] = "timeout" /\ filled[o] > 0 /\ ~killed /\ tasks = {}
      BY <2>5 DEF TimeoutKeepPartial, CancelReturns, CallbacksRan, IInv, PollInv
    <3>2. db[o] = "partial" /\ filled[o] = dbFilled[o]
      BY <3>1, <1>t DEF IInv, RecordInv, WorkingRows, Working, Lots
    <3>3. credited[o] = filled[o]
      BY <3>1, <3>2 DEF CreditedInv
    <3>4. /\ UNCHANGED <<filled, tasks, credited>>
          /\ db' = [db EXCEPT ![o] = "open"] /\ dbFilled' = [dbFilled EXCEPT ![o] = filled[o]]
      BY <2>5, <3>1 DEF TimeoutKeepPartial, CancelReturns, Reinsert
    <3>5. credited[o] <= filled[o]
      BY DEF CreditedInv
    <3>. QED
      BY <1>t, <3>3, <3>4, <3>5, CreditedAlone
  <2>. QED
    BY <1>3, <2>1, <2>2, <2>3, <2>4, <2>5 DEF Oms
<1>4. CASE Exit
  <2>1. ASSUME NEW s \in Symbols, ExitClosed(s) PROVE CreditedInv'
    <3>1. PICK o \in Orders : o = closeTrade[s]
      BY <2>1 DEF ExitClosed, IInv, TradeInv, TradesOf
    <3>2. /\ UNCHANGED <<filled, tasks, dbFilled, credited>>
          /\ db' = [db EXCEPT ![o] = "closed"]
      BY <2>1, <3>1 DEF ExitClosed, recordVars
    <3>3. credited[o] <= filled[o]
      BY DEF CreditedInv
    <3>. QED
      BY <1>t, <3>2, <3>3, CreditedAlone
  <2>2. ASSUME SaveSnapshot \/ \E s \in Symbols : ExitWithoutTrade(s) \/ ExitSubmit(s)
                                                  \/ ExitFails(s)
        PROVE  CreditedInv'
    BY <2>2, CreditedKept DEF SaveSnapshot, ExitWithoutTrade, ExitSubmit, ExitFails,
                              recordVars, dbVars
  <2>. QED
    BY <1>4, <2>1, <2>2 DEF Exit
<1>5. CASE Kill
  BY <1>5, CreditedKept DEF Kill, KillBegin, KillCancelAll, KillFlatten, KillClear,
                            recordVars, dbVars
<1>6. ASSUME NEW o \in Orders, OrderAges(o) PROVE CreditedInv'
  BY <1>6, CreditedKept DEF OrderAges, dbVars
<1>7. ASSUME NEW o \in Orders, Callback(o) PROVE CreditedInv'
  <2>1. /\ UNCHANGED <<filled, db, dbFilled>> /\ tasks' = tasks \ {o}
        /\ \A p \in Orders : credited'[p] = IF p = o THEN filled[o] ELSE credited[p]
    <3>1. credited[o] <= filled[o] /\ credited[o] \in Nat /\ filled[o] \in Nat
      BY <1>t DEF CreditedInv, Lots
    <3>. QED
      BY <1>7, <1>t, <3>1 DEF Callback, dbVars
  <2>2. filled[o] <= filled[o]
    BY <1>t DEF Lots
  <2>. QED
    BY <2>1, <2>2 DEF CreditedInv
<1>8. CASE CrashRestart
  BY <1>8 DEF CrashRestart, IInv, TypeOK, KillType
<1>9. CASE UNCHANGED vars
  BY <1>9, CreditedKept DEF vars, recordVars, dbVars
<1>. QED
  BY <1>1, <1>2, <1>3, <1>4, <1>5, <1>6, <1>7, <1>8, <1>9 DEF Next

\* A process that has not restarted had not restarted before either.
LEMMA RestartsCount ==
  ASSUME IInv, [Next]_vars, crashes' = 0
  PROVE  crashes = 0
<1>1. crashes \in Nat
  BY DEF IInv, TypeOK, KillType
<1>2. crashes' = crashes \/ crashes' = crashes + 1
  <2>1. CASE Exchange
    BY <2>1 DEF Exchange, ExRest, ExFillAtOnce, ExRefuse, ExFillResting, ExDrop, ExClose,
                ExRefuseClose, killVars
  <2>2. CASE Entry
    BY <2>2 DEF Entry, EnterSubmit, EnterRaises, EnterAmbiguous, EnterRests, EnterFilled,
                Unblock, killVars
  <2>3. CASE Oms
    BY <2>3 DEF Oms, PollRound, PollStatus, PollAnswered, PollFailed, ProcessSnapshot,
                TimeoutRollback, TimeoutKeepPartial, CancelReturns, killVars
  <2>4. CASE Exit
    BY <2>4 DEF Exit, ExitWithoutTrade, ExitSubmit, ExitClosed, ExitFails, SaveSnapshot,
                killVars
  <2>5. CASE Kill
    BY <2>5 DEF Kill, KillBegin, KillCancelAll, KillFlatten, KillClear
  <2>6. CASE \E o \in Orders : OrderAges(o) \/ Callback(o)
    BY <2>6 DEF OrderAges, Callback, killVars
  <2>7. CASE CrashRestart
    BY <2>7 DEF CrashRestart
  <2>8. CASE UNCHANGED vars
    BY <2>8 DEF vars, killVars
  <2>. QED
    BY <2>1, <2>2, <2>3, <2>4, <2>5, <2>6, <2>7, <2>8 DEF Next
<1>. QED
  BY <1>1, <1>2

\* Until the process first restarts no fill is written and then forgotten: a row
\* that became open has had its recorded fills credited to the book, or its
\* callback is scheduled, for any fills, failed polls, timeouts and kills.
THEOREM FillsCredited == Spec => [](crashes = 0 => OpenRowCredited)
<1>1. Init => CreditedInv
  BY DEF Init, CreditedInv
<1>2. IInv /\ (crashes = 0 => CreditedInv) /\ [Next]_vars => (crashes = 0 => CreditedInv)'
  BY CreditedStep, RestartsCount
<1>3. CreditedInv => OpenRowCredited
  BY DEF CreditedInv, OpenRowCredited
<1>. QED
  BY <1>1, <1>2, <1>3, Invariance, PTL DEF Spec

-----------------------------------------------------------------------------
(***************************************************************************)
(* The book against the account, over all orders of a symbol together.       *)
(***************************************************************************)
\* Lots of each order of a symbol that the book has not been credited with.
Due(s) == [o \in Orders |-> IF SymOf[o] = s THEN exFill[o] - credited[o] ELSE 0]

\* The d[o] add up to n: the last of the partial sums of d is n.
SumsTo(d, n) ==
    \E S \in [0..MaxOrders -> Int] : /\ S[0] = 0 /\ S[MaxOrders] = n
                                     /\ \A o \in Orders : S[o] = S[o-1] + d[o]

\* Lots the bot holds itself to: an executed close has already left the account,
\* one that is on its way will leave it.
Claim(s) == IF closing[s] = "executed"
               THEN IF book[s] > closeSize[s] THEN book[s] - closeSize[s] ELSE 0
               ELSE IF closing[s] = "sent" /\ closeSize[s] > book[s]
                       THEN closeSize[s] ELSE book[s]

\* What the book claims and what it has not been told of is in the account.
Backed(s) == \E n \in Int : SumsTo(Due(s), n) /\ n + Claim(s) <= exPos[s]

Ledgers == /\ killPc # "none" => killed
           /\ \A s \in Symbols : killed \/ closeLost[s] \/ Backed(s)

LEMMA SumOfNothing == SumsTo([o \in Orders |-> 0], 0)
<1>. DEFINE Z == [k \in 0..MaxOrders |-> 0]
<1>1. Z \in [0..MaxOrders -> Int] /\ Z[0] = 0 /\ Z[MaxOrders] = 0
  OBVIOUS
<1>2. \A o \in Orders : Z[o] = Z[o-1] + [k \in Orders |-> 0][o]
  OBVIOUS
<1>. HIDE DEF Z
<1>. QED
  BY <1>1, <1>2 DEF SumsTo

\* One summand changes: so does the sum.
LEMMA SumMoves ==
  ASSUME NEW d \in [Orders -> Int], NEW n \in Int, SumsTo(d, n), NEW o \in Orders,
         NEW m \in Int, NEW e, \A k \in Orders : e[k] = IF k = o THEN d[k] + m ELSE d[k],
         NEW r, r = n + m
  PROVE  SumsTo(e, r)
<1>1. PICK S \in [0..MaxOrders -> Int] :
         S[0] = 0 /\ S[MaxOrders] = n /\ \A k \in Orders : S[k] = S[k-1] + d[k]
  BY DEF SumsTo
<1>. DEFINE T == [k \in 0..MaxOrders |-> IF k >= o THEN S[k] + m ELSE S[k]]
<1>2. T \in [0..MaxOrders -> Int] /\ T[0] = 0 /\ T[MaxOrders] = r
  BY <1>1
<1>3. ASSUME NEW k \in Orders PROVE T[k] = T[k-1] + e[k]
  <2>1. k \in 0..MaxOrders /\ k - 1 \in 0..MaxOrders
    OBVIOUS
  <2>2. S[k] \in Int /\ S[k-1] \in Int /\ d[k] \in Int /\ S[k] = S[k-1] + d[k]
    BY <1>1, <2>1
  <2>3. /\ T[k] = IF k >= o THEN S[k] + m ELSE S[k]
        /\ T[k-1] = IF k - 1 >= o THEN S[k-1] + m ELSE S[k-1]
    BY <2>1
  <2>4. e[k] = IF k = o THEN d[k] + m ELSE d[k]
    OBVIOUS
  <2>5. k \in Int /\ o \in Int
    OBVIOUS
  <2>. HIDE DEF T
  <2>6. CASE k = o
    BY <2>2, <2>3, <2>4, <2>5, <2>6
  <2>7. CASE k > o
    BY <2>2, <2>3, <2>4, <2>5, <2>7
  <2>8. CASE k < o
    BY <2>2, <2>3, <2>4, <2>5, <2>8
  <2>. QED
    BY <2>5, <2>6, <2>7, <2>8
<1>. HIDE DEF T
<1>. QED
  BY <1>2, <1>3 DEF SumsTo

\* The sum of naturals is one: else take the first partial sum below zero.
LEMMA SumOfNaturals ==
  ASSUME NEW d \in [Orders -> Nat], NEW n \in Int, SumsTo(d, n)
  PROVE  n >= 0
<1>1. PICK S \in [0..MaxOrders -> Int] :
         S[0] = 0 /\ S[MaxOrders] = n /\ \A k \in Orders : S[k] = S[k-1] + d[k]
  BY DEF SumsTo
<1>. DEFINE B == {k \in 0..MaxOrders : S[k] < 0}
<1>2. SUFFICES ASSUME B # {} PROVE FALSE
  <2>1. MaxOrders \in 0..MaxOrders /\ S[MaxOrders] = n
    BY <1>1
  <2>2. MaxOrders \notin B => ~(n < 0)
    BY <2>1
  <2>3. B = {} => MaxOrders \notin B
    OBVIOUS
  <2>. QED
    BY <2>2, <2>3
<1>3. B \in SUBSET Nat
  OBVIOUS
<1>4. PICK k \in B : \A j \in B : k <= j
  <2>. HIDE DEF B
  <2>. QED
    BY <1>2, <1>3, Minimum
<1>5. k \in Orders /\ k - 1 \in 0..MaxOrders /\ k - 1 \notin B
  BY <1>1, <1>4
<1>6. S[k] = S[k-1] + d[k] /\ d[k] \in Nat /\ S[k-1] \in Int /\ S[k-1] >= 0 /\ S[k] < 0
  BY <1>1, <1>4, <1>5
<1>. QED
  BY <1>6

LEMMA LedgerTypes ==
  ASSUME IInv, NEW s \in Symbols
  PROVE  /\ exPos[s] \in Nat /\ book[s] \in Nat /\ closeSize[s] \in Nat /\ Claim(s) \in Nat
         /\ Due(s) \in [Orders -> Int]
<1>1. exPos[s] \in Nat /\ book[s] \in Nat /\ closeSize[s] \in Nat
  BY DEF IInv, TypeOK, ExchangeType, PositionType
<1>2. \A o \in Orders : exFill[o] - credited[o] \in Int
  BY DEF IInv, TypeOK, ExchangeType, RecordType, Lots
<1>. QED
  BY <1>1, <1>2 DEF Claim, Due

LEMMA LotTypes ==
  ASSUME IInv
  PROVE  /\ \A k \in Orders : exFill[k] \in Nat /\ credited[k] \in Nat /\ filled[k] \in Nat
         /\ exFill \in [Orders -> Lots] /\ credited \in [Orders -> Lots]
         /\ exPos \in [Symbols -> Nat] /\ book \in [Symbols -> Nat]
<1>1. /\ exFill \in [Orders -> Lots] /\ credited \in [Orders -> Lots]
      /\ filled \in [Orders -> Lots]
      /\ exPos \in [Symbols -> Nat] /\ book \in [Symbols -> Nat]
  BY DEF IInv, TypeOK, ExchangeType, RecordType, PositionType
<1>2. \A n \in Lots : n \in Nat
  BY DEF Lots
<1>. QED
  BY <1>1, <1>2

\* Nothing is filled or credited, and the bot claims no more than it did.
LEMMA ClaimsFall ==
  ASSUME IInv, IInv', Ledgers, UNCHANGED <<exFill, credited, exPos>>, killed => killed',
         killPc' # "none" => killed',
         \A s \in Symbols : /\ closeLost[s] => closeLost'[s]
                            /\ killed' \/ closeLost'[s] \/ Claim(s)' <= Claim(s)
  PROVE  Ledgers'
<1>. SUFFICES ASSUME NEW s \in Symbols, ~killed', ~closeLost'[s]
              PROVE  Backed(s)'
  BY DEF Ledgers
<1>1. PICK n \in Int : SumsTo(Due(s), n) /\ n + Claim(s) <= exPos[s]
  BY DEF Ledgers, Backed
<1>2. Due(s)' = Due(s)
  BY DEF Due
<1>3. SumsTo(Due(s), n)'
  BY <1>1, <1>2 DEF SumsTo
<1>4. Claim(s)' <= Claim(s) /\ exPos'[s] = exPos[s]
  OBVIOUS
<1>5. n + Claim(s)' <= exPos'[s]
  <2>1. Claim(s) \in Nat /\ exPos[s] \in Nat
    BY LedgerTypes
  <2>2. Claim(s)' \in Nat
    BY DEF IInv, TypeOK, PositionType, Claim
  <2>. QED
    BY <1>1, <1>4, <2>1, <2>2
<1>. QED
  BY <1>3, <1>5 DEF Backed

\* None of the two ledgers is touched.
LEMMA LedgersKept ==
  ASSUME IInv, IInv', Ledgers, killed => killed', killPc' # "none" => killed',
         UNCHANGED <<exFill, credited, exPos, book, closing, closeSize, closeLost>>
  PROVE  Ledgers'
<1>1. ASSUME NEW s \in Symbols PROVE Claim(s)' <= Claim(s)
  BY LedgerTypes DEF Claim
<1>. QED
  BY <1>1, ClaimsFall

\* A fill is in the account before anyone claims it.
LEMMA FillLedgers ==
  ASSUME IInv, IInv', Ledgers, NEW o \in Orders, NEW m \in Nat, Fill(o, m),
         UNCHANGED <<credited, book, closing, closeSize, closeLost, killed, killPc>>
  PROVE  Ledgers'
<1>. SUFFICES ASSUME NEW s \in Symbols, ~killed, ~closeLost[s]
              PROVE  Backed(s)'
  BY DEF Ledgers
<1>1. PICK n \in Int : SumsTo(Due(s), n) /\ n + Claim(s) <= exPos[s]
  BY DEF Ledgers, Backed
<1>2. Claim(s)' = Claim(s)
  BY DEF Claim
<1>3. /\ Claim(s) \in Nat /\ exPos[s] \in Nat /\ Due(s) \in [Orders -> Int]
  BY LedgerTypes
<1>4. \A k \in Orders : exFill[k] \in Nat /\ credited[k] \in Nat
  BY LotTypes
<1>5. /\ \A k \in Orders : exFill'[k] = IF k = o THEN exFill[k] + m ELSE exFill[k]
      /\ exPos'[s] = IF SymOf[o] = s THEN exPos[s] + m ELSE exPos[s]
  BY LotTypes DEF Fill
<1>6. CASE SymOf[o] = s
  <2>1. \A k \in Orders : Due(s)'[k] = IF k = o THEN Due(s)[k] + m ELSE Due(s)[k]
    BY <1>4, <1>5, <1>6 DEF Due
  <2>2. PICK r \in Int : r = n + m
    OBVIOUS
  <2>3. SumsTo(Due(s)', r)
    <3>1. m \in Int
      OBVIOUS
    <3>. QED
      BY ZenonT(40), <1>1, <1>3, <2>1, <2>2, <3>1, SumMoves
  <2>4. r + Claim(s)' <= exPos'[s]
    BY <1>1, <1>2, <1>3, <1>5, <1>6, <2>2
  <2>. QED
    BY <2>3, <2>4 DEF Backed, SumsTo
<1>7. CASE SymOf[o] # s
  <2>1. Due(s)' = Due(s)
    BY <1>5, <1>7 DEF Due
  <2>. QED
    BY <1>1, <1>2, <1>5, <1>7, <2>1 DEF Backed, SumsTo
<1>. QED
  BY <1>6, <1>7

\* What a callback adds to the book it takes from what is due.
LEMMA CallbackLedgers ==
  ASSUME IInv, IInv', CreditInv, Ledgers, NEW o \in Orders, Callback(o)
  PROVE  Ledgers'
<1>. SUFFICES ASSUME NEW s \in Symbols, ~killed, ~closeLost[s]
              PROVE  Backed(s)'
  BY DEF Callback, killVars, Ledgers
<1>1. PICK n \in Int : SumsTo(Due(s), n) /\ n + Claim(s) <= exPos[s]
  BY DEF Ledgers, Backed
<1>2. /\ exPos[s] \in Nat /\ book[s] \in Nat /\ closeSize[s] \in Nat /\ Claim(s) \in Nat
      /\ Due(s) \in [Orders -> Int]
  BY LedgerTypes
<1>3. /\ \A k \in Orders : exFill[k] \in Nat /\ credited[k] \in Nat /\ filled[k] \in Nat
      /\ credited[o] <= filled[o]
  BY LotTypes DEF CreditInv
<1>4. PICK m \in Nat : filled[o] = credited[o] + m
  <2>1. filled[o] - credited[o] \in Nat
    BY <1>3
  <2>2. filled[o] = credited[o] + (filled[o] - credited[o])
    BY <1>3
  <2>. QED
    BY <2>1, <2>2
<1>5. UNCHANGED <<exFill, exPos, closing, closeSize>>
  BY DEF Callback, exchVars, closeVars
<1>6. /\ \A k \in Orders : credited'[k] = IF k = o THEN credited[k] + m ELSE credited[k]
      /\ book'[s] = IF SymOf[o] = s THEN book[s] + m ELSE book[s]
  <2>1. CASE filled[o] > credited[o]
    <3>1. /\ book' = [book EXCEPT ![SymOf[o]] = @ + (filled[o] - credited[o])]
          /\ credited' = [credited EXCEPT ![o] = filled[o]]
      BY <2>1 DEF Callback
    <3>2. filled[o] - credited[o] = m
      BY <1>3, <1>4
    <3>3. book' = [book EXCEPT ![SymOf[o]] = @ + m]
      BY <3>1, <3>2
    <3>. QED
      BY <1>4, <3>1, <3>3, LotTypes
  <2>2. CASE ~(filled[o] > credited[o])
    <3>1. UNCHANGED <<book, credited>>
      BY <2>2 DEF Callback
    <3>2. m = 0
      BY <1>3, <1>4, <2>2
    <3>. QED
      BY <1>2, <1>3, <3>1, <3>2
  <2>. QED
    BY <2>1, <2>2
<1>7. CASE SymOf[o] = s
  <2>1. PICK r \in Int : r = n - m
    OBVIOUS
  <2>2. PICK l \in Int : l = 0 - m
    OBVIOUS
  <2>3. \A k \in Orders : Due(s)'[k] = IF k = o THEN Due(s)[k] + l ELSE Due(s)[k]
    BY <1>3, <1>5, <1>6, <1>7, <2>2 DEF Due
  <2>4. SumsTo(Due(s)', r)
    <3>1. r = n + l
      BY <2>1, <2>2
    <3>. QED
      BY ZenonT(40), <1>1, <1>2, <2>3, <3>1, SumMoves
  <2>5. book'[s] = book[s] + m
    BY <1>6, <1>7
  <2>6. Claim(s)' \in Nat /\ Claim(s)' <= Claim(s) + m
    <3>1. closing'[s] = closing[s] /\ closeSize'[s] = closeSize[s]
      BY <1>5
    <3>2. CASE closing[s] = "executed"
      <4>1. Claim(s) = IF book[s] > closeSize[s] THEN book[s] - closeSize[s] ELSE 0
        BY <3>2 DEF Claim
      <4>2. Claim(s)' = IF book'[s] > closeSize[s] THEN book'[s] - closeSize[s] ELSE 0
        BY <3>1, <3>2 DEF Claim
      <4>. QED
        BY SMTT(30), <1>2, <2>5, <4>1, <4>2
    <3>3. CASE closing[s] = "sent"
      <4>1. Claim(s) = IF closeSize[s] > book[s] THEN closeSize[s] ELSE book[s]
        BY <3>3 DEF Claim
      <4>2. Claim(s)' = IF closeSize[s] > book[s] + m THEN closeSize[s] ELSE book[s] + m
        BY <2>5, <3>1, <3>3 DEF Claim
      <4>. QED
        BY SMTT(30), <1>2, <4>1, <4>2
    <3>4. CASE closing[s] \notin {"executed", "sent"}
      BY <1>2, <2>5, <3>1, <3>4 DEF Claim
    <3>. QED
      BY <3>2, <3>3, <3>4
  <2>7. r + Claim(s)' <= exPos'[s]
    BY SMTT(30), <1>1, <1>2, <1>5, <2>1, <2>6
  <2>. QED
    BY <2>4, <2>7 DEF Backed, SumsTo
<1>8. CASE SymOf[o] # s
  <2>1. Due(s)' = Due(s) /\ Claim(s)' = Claim(s)
    BY <1>5, <1>6, <1>8 DEF Due, Claim
  <2>. QED
    BY <1>1, <1>5, <2>1 DEF Backed, SumsTo
<1>. QED
  BY <1>7, <1>8

LEMMA DuesAreOwed ==
  ASSUME IInv, CreditInv, NEW s \in Symbols, NEW n \in Int, SumsTo(Due(s), n)
  PROVE  n >= 0
<1>1. \A k \in Orders : /\ exFill[k] \in Nat /\ credited[k] \in Nat /\ filled[k] \in Nat
                        /\ credited[k] <= filled[k] /\ filled[k] <= exFill[k]
  BY LotTypes DEF CreditInv
<1>2. \A k \in Orders : exFill[k] - credited[k] \in Nat
  BY <1>1
<1>3. Due(s) \in [Orders -> Nat]
  BY <1>2 DEF Due
<1>. QED
  BY <1>3, SumOfNaturals

\* A close arrives at the exchange: nothing is due that the account lacks, so it
\* closes all it asks for.
LEMMA CloseLedgers ==
  ASSUME IInv, IInv', CreditInv, Ledgers, NEW s \in Symbols, ExClose(s)
  PROVE  Ledgers'
<1>. SUFFICES ASSUME NEW t \in Symbols, ~killed, ~closeLost[t]
              PROVE  Backed(t)'
  BY DEF ExClose, killVars, Ledgers
<1>1. PICK n \in Int : SumsTo(Due(t), n) /\ n + Claim(t) <= exPos[t]
  BY DEF Ledgers, Backed
<1>2. /\ exPos[t] \in Nat /\ book[t] \in Nat /\ closeSize[t] \in Nat
      /\ Due(t) \in [Orders -> Int]
  BY LedgerTypes
<1>3. UNCHANGED <<exFill, credited, book, closeSize>>
  BY DEF ExClose, recordVars
<1>4. Due(t)' = Due(t)
  BY <1>3 DEF Due
<1>5. n >= 0
  BY <1>1, DuesAreOwed
<1>6. CASE t = s
  <2>1. /\ closing[t] = "sent" /\ closing'[t] = "executed"
        /\ exPos'[t] = exPos[t] - Least(exPos[t], closeSize[t])
    BY <1>6, LotTypes DEF ExClose, IInv, TypeOK, PositionType
  <2>2. Claim(t) = IF closeSize[t] > book[t] THEN closeSize[t] ELSE book[t]
    BY <2>1 DEF Claim
  <2>3. Claim(t)' = IF book[t] > closeSize[t] THEN book[t] - closeSize[t] ELSE 0
    BY <1>3, <2>1 DEF Claim
  <2>4. closeSize[t] <= exPos[t]
    BY <1>1, <1>2, <1>5, <2>2
  <2>5. exPos'[t] = exPos[t] - closeSize[t]
    BY <1>2, <2>1, <2>4 DEF Least
  <2>6. n + Claim(t)' <= exPos'[t]
    BY <1>1, <1>2, <1>5, <2>2, <2>3, <2>4, <2>5
  <2>. QED
    BY <1>1, <1>4, <2>6 DEF Backed, SumsTo
<1>7. CASE t # s
  <2>1. closing'[t] = closing[t] /\ exPos'[t] = exPos[t]
    BY <1>7, LotTypes DEF ExClose, IInv, TypeOK, PositionType
  <2>2. Claim(t)' = Claim(t)
    BY <1>3, <2>1 DEF Claim
  <2>. QED
    BY <1>1, <1>4, <2>1, <2>2 DEF Backed, SumsTo
<1>. QED
  BY <1>6, <1>7

\* What an exit and its answers do to the claim.
LEMMA ExitLedgers ==
  ASSUME IInv, IInv', Ledgers, Exit
  PROVE  Ledgers'
<1>1. CASE SaveSnapshot
  BY <1>1, LedgersKept DEF SaveSnapshot, exchVars, recordVars, closeVars, killVars, Ledgers
<1>2. ASSUME NEW s \in Symbols,
             ExitWithoutTrade(s) \/ ExitSubmit(s) \/ ExitClosed(s) \/ ExitFails(s)
      PROVE  Ledgers'
  <2>1. /\ UNCHANGED <<exFill, credited, exPos, killed, killPc>>
        /\ \A t \in Symbols \ {s} : /\ closing'[t] = closing[t] /\ book'[t] = book[t]
                                    /\ closeSize'[t] = closeSize[t]
        /\ \A t \in Symbols : closeLost[t] => closeLost'[t]
    BY ZenonT(40), <1>2 DEF ExitWithoutTrade, ExitSubmit, ExitClosed, ExitFails, NotClosing, exchVars,
                recordVars, closeVars, killVars, IInv, TypeOK, PositionType
  <2>2. \A t \in Symbols \ {s} : Claim(t)' = Claim(t)
    BY <2>1 DEF Claim
  <2>3. \A t \in Symbols : Claim(t) \in Nat /\ book[t] \in Nat /\ closeSize[t] \in Nat
    BY LedgerTypes
  <2>4. closeLost'[s] \/ Claim(s)' <= Claim(s)
    <3>1. CASE ExitWithoutTrade(s) \/ ExitClosed(s)
      <4>1. book'[s] = 0 /\ closing'[s] = "none"
        BY <3>1 DEF ExitWithoutTrade, ExitClosed, NotClosing, closeVars, SymbolFree, IInv,
                    TypeOK, PositionType
      <4>. QED
        BY <2>3, <4>1 DEF Claim
    <3>2. CASE ExitSubmit(s)
      <4>1. /\ closing[s] = "none" /\ closing'[s] = "sent"
            /\ book'[s] = book[s] /\ closeSize'[s] = book[s]
        BY <3>2 DEF ExitSubmit, SymbolFree, IInv, TypeOK, PositionType
      <4>. QED
        BY <2>3, <4>1 DEF Claim
    <3>3. CASE ExitFails(s)
      <4>1. /\ closing[s] \in {"executed", "refused"} /\ closing'[s] = "none"
            /\ book'[s] = book[s]
            /\ closing[s] = "executed" => closeLost'[s]
        BY ZenonT(40), <3>3 DEF ExitFails, NotClosing, IInv, TypeOK, PositionType
      <4>. QED
        BY <2>3, <4>1 DEF Claim
    <3>. QED
      BY <1>2, <3>1, <3>2, <3>3
  <2>5. \A t \in Symbols : closeLost'[t] \/ Claim(t)' <= Claim(t)
    BY <2>2, <2>3, <2>4
  <2>. QED
    BY <2>1, <2>5, ClaimsFall DEF Ledgers
<1>. QED
  BY <1>1, <1>2 DEF Exit

\* A rollback empties the book of the order's symbol; no other answer of the
\* poller touches it.
LEMMA OmsLedgers ==
  ASSUME IInv, IInv', Ledgers, Oms
  PROVE  Ledgers'
<1>1. /\ UNCHANGED <<exFill, credited, exPos, closing, closeSize, closeLost, killed, killPc>>
      /\ \A t \in Symbols : book'[t] \in {book[t], 0}
  <2>1. CASE PollRound
    BY <2>1 DEF PollRound, exchVars, recordVars, positionVars, closeVars, killVars
  <2>2. ASSUME NEW o \in Orders, PollStatus(o) PROVE <1>1!:
    BY <2>2 DEF PollStatus, exchVars, recordVars, positionVars, closeVars, killVars
  <2>3. ASSUME NEW o \in Orders, NEW st, NEW f, ProcessSnapshot(o, st, f) PROVE <1>1!:
    <3>1. UNCHANGED <<exFill, credited, exPos, closing, closeSize, closeLost, killed, killPc>>
      BY <2>3 DEF ProcessSnapshot, PollSkip, PollFilled, PollTerminal, PollPartial, PollOpen,
                  exchVars, recordVars, closeVars, killVars
    <3>2. book' \in {book, [book EXCEPT ![SymOf[o]] = 0]}
      BY <2>3 DEF ProcessSnapshot, PollSkip, PollFilled, PollTerminal, PollPartial, PollOpen,
                  Rollback
    <3>. QED
      BY <3>1, <3>2, LotTypes
  <2>4. ASSUME NEW o \in Orders, TimeoutRollback(o) \/ TimeoutKeepPartial(o) PROVE <1>1!:
    <3>1. UNCHANGED <<exFill, credited, exPos, closing, closeSize, closeLost, killed, killPc>>
      BY <2>4 DEF TimeoutRollback, TimeoutKeepPartial, CancelReturns, closeVars, killVars
    <3>2. book' \in {book, [book EXCEPT ![SymOf[o]] = 0]}
      BY <2>4 DEF TimeoutRollback, TimeoutKeepPartial, Rollback
    <3>. QED
      BY <3>1, <3>2, LotTypes
  <2>. QED
    BY <2>1, <2>2, <2>3, <2>4 DEF Oms, PollAnswered, PollFailed
<1>2. ASSUME NEW t \in Symbols PROVE Claim(t)' <= Claim(t)
  <2>1. book[t] \in Nat /\ closeSize[t] \in Nat
    BY LedgerTypes
  <2>2. /\ closing'[t] = closing[t] /\ closeSize'[t] = closeSize[t]
        /\ book'[t] = book[t] \/ book'[t] = 0
    BY <1>1
  <2>. QED
    BY <2>1, <2>2 DEF Claim
<1>. QED
  BY <1>1, <1>2, ClaimsFall DEF Ledgers

\* After the kill switch nothing is claimed any more.
LEMMA KillLedgers ==
  ASSUME IInv, IInv', Ledgers, Kill
  PROVE  Ledgers'
<1>1. killed'
  BY DEF Kill, KillBegin, KillCancelAll, KillFlatten, KillClear, Ledgers
<1>. QED
  BY <1>1 DEF Ledgers

LEMMA LedgersStep ==
  ASSUME PartialIoc = FALSE, IInv, IInv', CreditInv, Ledgers, [Next]_vars, crashes' = 0
  PROVE  Ledgers'
<1>1. CASE Exchange
  <2>1. ASSUME NEW o \in Orders, ExFillAtOnce(o) \/ ExFillResting(o) PROVE Ledgers'
    <3>1. \E n \in Nat : Fill(o, n)
      BY <2>1 DEF ExFillAtOnce, ExFillResting, IocFills
    <3>. QED
      BY <2>1, <3>1, FillLedgers DEF ExFillAtOnce, ExFillResting, recordVars, positionVars,
                                     closeVars, killVars
  <2>2. ASSUME NEW o \in Orders, ExRest(o) \/ ExRefuse(o) \/ ExDrop(o) PROVE Ledgers'
    BY <2>2, LedgersKept DEF ExRest, ExRefuse, ExDrop, recordVars, positionVars, closeVars,
                             killVars, Ledgers
  <2>3. ASSUME NEW s \in Symbols, ExClose(s) PROVE Ledgers'
    BY <2>3, CloseLedgers
  <2>4. ASSUME NEW s \in Symbols, ExRefuseClose(s) PROVE Ledgers'
    <3>1. /\ UNCHANGED <<exFill, credited, exPos, book, closeSize, closeLost, killed, killPc>>
          /\ closing[s] = "sent" /\ closing' = [closing EXCEPT ![s] = "refused"]
      BY <2>4 DEF ExRefuseClose, exchVars, recordVars, killVars
    <3>2. ASSUME NEW t \in Symbols PROVE Claim(t)' <= Claim(t)
      <4>1. \/ closing'[t] = closing[t]
            \/ closing[t] = "sent" /\ closing'[t] = "refused"
        BY <3>1 DEF IInv, TypeOK, PositionType
      <4>2. book[t] \in Nat /\ closeSize[t] \in Nat /\ Claim(t) \in Nat
        BY LedgerTypes
      <4>. QED
        BY <3>1, <4>1, <4>2 DEF Claim
    <3>. QED
      BY <3>1, <3>2, ClaimsFall DEF Ledgers
  <2>. QED
    BY <1>1, <2>1, <2>2, <2>3, <2>4 DEF Exchange
<1>2. CASE Entry
  BY <1>2, LedgersKept DEF Entry, EnterSubmit, EnterRaises, EnterAmbiguous, EnterRests,
                           EnterFilled, Unblock, exchVars, recordVars, positionVars,
                           closeVars, killVars, Ledgers
<1>3. CASE Oms
  BY <1>3, OmsLedgers
<1>4. CASE Exit
  BY <1>4, ExitLedgers
<1>5. CASE Kill
  BY <1>5, KillLedgers
<1>6. ASSUME NEW o \in Orders, OrderAges(o) PROVE Ledgers'
  BY <1>6, LedgersKept DEF OrderAges, exchVars, positionVars, closeVars, killVars, Ledgers
<1>7. ASSUME NEW o \in Orders, Callback(o) PROVE Ledgers'
  BY <1>7, CallbackLedgers
<1>8. CASE CrashRestart
  BY <1>8 DEF CrashRestart, IInv, TypeOK, KillType
<1>9. CASE UNCHANGED vars
  BY <1>9, LedgersKept DEF vars, exchVars, recordVars, positionVars, closeVars, killVars,
                           Ledgers
<1>. QED
  BY <1>1, <1>2, <1>3, <1>4, <1>5, <1>6, <1>7, <1>8, <1>9 DEF Next

LEMMA InitLedgers == Init => Ledgers
<1>. SUFFICES ASSUME Init PROVE Ledgers
  OBVIOUS
<1>1. ASSUME NEW s \in Symbols PROVE Backed(s)
  <2>1. Due(s) = [o \in Orders |-> 0]
    BY DEF Init, Due
  <2>2. SumsTo(Due(s), 0)
    BY <2>1, SumOfNothing
  <2>3. Claim(s) = 0 /\ exPos[s] = 0
    BY DEF Init, Claim
  <2>. QED
    BY <2>2, <2>3 DEF Backed
<1>. QED
  BY <1>1 DEF Init, Ledgers

LEMMA LedgersAgree ==
  ASSUME IInv, CreditInv, Ledgers
  PROVE  NoPhantom
<1>. SUFFICES ASSUME NEW s \in Symbols, ~killed, ~closeLost[s], closing[s] # "executed"
              PROVE  book[s] <= exPos[s]
  BY DEF NoPhantom
<1>1. PICK n \in Int : SumsTo(Due(s), n) /\ n + Claim(s) <= exPos[s]
  BY DEF Ledgers, Backed
<1>2. exPos[s] \in Nat /\ book[s] \in Nat /\ closeSize[s] \in Nat
  BY LedgerTypes
<1>3. n >= 0
  BY <1>1, DuesAreOwed
<1>. QED
  BY <1>1, <1>2, <1>3 DEF Claim

\* When "filled" means filled, the book of a process that has not restarted never
\* claims lots the account does not hold, for any number of orders in a symbol:
\* over all of them, what was filled and is not credited yet and what the book
\* claims are together in the account, save an executed close the bot has not
\* heard of.
THEOREM NoPhantomLots ==
  ASSUME PartialIoc = FALSE
  PROVE  Spec => [](crashes = 0 => NoPhantom)
<1>1. Init => CreditInv
  BY DEF Init, CreditInv
<1>2. IInv /\ CreditInv /\ [Next]_vars => CreditInv'
  BY CreditStep
<1>3. IInv /\ IInv' /\ CreditInv /\ (crashes = 0 => Ledgers) /\ [Next]_vars
         => (crashes = 0 => Ledgers)'
  BY LedgersStep, RestartsCount
<1>4. IInv /\ CreditInv /\ Ledgers => NoPhantom
  BY LedgersAgree
<1>. QED
  BY <1>1, <1>2, <1>3, <1>4, InitLedgers, Invariance, PTL DEF Spec
=============================================================================
