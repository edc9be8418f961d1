---------------------------- MODULE OrderManager ----------------------------
(***************************************************************************)
(* The live order path of the bot: ExecutionEngine (src/core/execution.py), *)
(* the engine's fill callback and exit path (src/core/engine.py), the part  *)
(* of PortfolioState they write (src/core/portfolio.py) and the trades      *)
(* table (src/data/database.py), against an exchange that accepts, fills,   *)
(* drops and refuses orders on its own clock.                               *)
(*                                                                          *)
(* One asyncio loop runs everything, so a step is the code between two      *)
(* awaits that really suspend (a REST call, a timer).  PortfolioState and   *)
(* ExecutionEngine guard themselves with asyncio locks that are never held  *)
(* across such an await: their methods are atomic here.                     *)
(*                                                                          *)
(* Abstractions: every position is long; a size is a number of lots; prices,*)
(* fees and PnL are left out; the trade id of a row is its order's number,  *)
(* so an open trade is the number of the row it will close.                 *)
(* applied_fill_size always equals filled_size between two steps and is     *)
(* therefore not a variable of its own.  The entry debounce is left out: it  *)
(* only delays an entry, and time passes between any two steps here.        *)
(***************************************************************************)
EXTENDS Naturals

CONSTANTS
    Symbols,      \* traded symbols
    MaxOrders,    \* bound: entry orders submitted in one behaviour
    SymOf,        \* the symbol of each order
    Full,         \* lots every order asks for
    PartialIoc,   \* may an IOC order be answered "filled" for a part?
    MaxCrashes,   \* bound: process restarts
    MaxKills      \* bound: uses of the kill switch

Orders == 1..MaxOrders
NoOrder == 0
Lots == 0..Full

ASSUME MaxOrdersAssumption == MaxOrders \in Nat
ASSUME SymOfAssumption == SymOf \in [Orders -> Symbols]
ASSUME FullAssumption == Full \in Nat \ {0}
ASSUME PartialIocAssumption == PartialIoc \in BOOLEAN
ASSUME BoundsAssumption == MaxCrashes \in Nat /\ MaxKills \in Nat

VARIABLES
    \* ---- the exchange
    exSt,         \* state of each order at the exchange
    exFill,       \* lots of each order the exchange has filled
    exPos,        \* position of the account in each symbol
    \* ---- ExecutionEngine: one entry attempt per symbol
    nextId,       \* next order to submit
    entering,     \* order whose submission the symbol's coroutine awaits
    ack,          \* what the exchange answered that submission
    blocked,      \* _blocked_symbols
    \* ---- ExecutionEngine._live_orders, one record per order
    tracked,      \* the record is in _live_orders
    status, filled, handled, seen,
    credited,     \* record["_portfolio_applied_fill"]
    aged,         \* the order is older than live_order_timeout_s
    tasks,        \* orders with a scheduled _handle_oms_status_change
    \* ---- the OMS poller
    loopUp, round, pollAt, pollOrder, pollCanceled,
    \* ---- positions
    openTrade,    \* _open_trades: the row of the symbol's open trade
    closing,      \* stage of the exit the symbol's coroutine awaits
    closeTrade, closeSize,  \* the trade it closes, the lots it asks to close
    book,         \* PortfolioState._positions: lots held in each symbol
    snap,         \* the latest portfolio snapshot in the database
    \* ---- the trades table
    db, dbFilled,
    \* ---- kill switch and restarts
    killed, killPc, kills, crashes,
    \* ---- history: a close executed whose answer the bot read as a failure
    closeLost

exchVars == <<exSt, exFill, exPos>>
entryVars == <<nextId, entering, ack, blocked>>
recordVars == <<tracked, status, filled, handled, seen, credited, aged>>
pollVars == <<loopUp, round, pollAt, pollOrder, pollCanceled>>
closeVars == <<closing, closeTrade, closeSize>>
positionVars == <<openTrade, closeVars, book, snap, closeLost>>
dbVars == <<db, dbFilled>>
killVars == <<killed, killPc, kills, crashes>>
vars == <<exchVars, entryVars, recordVars, tasks, pollVars, positionVars,
          dbVars, killVars>>

ExStates == {"none", "sent", "resting", "filled", "canceled", "refused"}
Acks == {"none", "resting", "filled", "refused"}
Statuses == {"none", "open", "partial", "filled", "cancelled", "timeout"}
\* "nameless" is a resting row whose exchange id was never written.
DbStatuses == {"none", "unknown", "nameless", "resting", "partial", "open",
               "closed", "cancelled"}
PollPoints == {"idle", "query", "cancelOpen", "cancelPartial"}
CloseStages == {"none", "sent", "executed", "refused"}
KillPoints == {"none", "cancel", "flatten", "clear"}

Working == {"open", "partial"}
\* Rows get_pending_live_orders reloads: "unknown" and "nameless" rows carry no
\* exchange id and are left out.
WorkingRows == {"resting", "partial"}

Least(m, n) == IF m < n THEN m ELSE n

ExchangeType ==
    /\ exSt \in [Orders -> ExStates]
    /\ exFill \in [Orders -> Lots]
    /\ exPos \in [Symbols -> Nat]

EntryType ==
    /\ nextId \in 1..(MaxOrders + 1)
    /\ entering \in [Symbols -> Orders \cup {NoOrder}]
    /\ ack \in [Orders -> Acks]
    /\ blocked \in [Symbols -> BOOLEAN]

RecordType ==
    /\ tracked \in [Orders -> BOOLEAN]
    /\ status \in [Orders -> Statuses]
    /\ filled \in [Orders -> Lots]
    /\ handled \in [Orders -> BOOLEAN]
    /\ seen \in [Orders -> SUBSET Lots]
    /\ credited \in [Orders -> Lots]
    /\ aged \in [Orders -> BOOLEAN]
    /\ tasks \in SUBSET Orders

PollType ==
    /\ loopUp \in BOOLEAN
    /\ round \in SUBSET Orders
    /\ pollAt \in PollPoints
    /\ pollOrder \in Orders \cup {NoOrder}
    /\ pollCanceled \in BOOLEAN

PositionType ==
    /\ openTrade \in [Symbols -> Orders \cup {NoOrder}]
    /\ closing \in [Symbols -> CloseStages]
    /\ closeTrade \in [Symbols -> Orders \cup {NoOrder}]
    /\ closeSize \in [Symbols -> Nat]
    /\ book \in [Symbols -> Nat]
    /\ snap \in [Symbols -> Nat]
    /\ closeLost \in [Symbols -> BOOLEAN]

RowType ==
    /\ db \in [Orders -> DbStatuses]
    /\ dbFilled \in [Orders -> Lots]

KillType ==
    /\ killed \in BOOLEAN
    /\ killPc \in KillPoints
    /\ kills \in Nat
    /\ crashes \in Nat

TypeOK == /\ ExchangeType /\ EntryType /\ RecordType /\ PollType
          /\ PositionType /\ RowType /\ KillType

Init ==
    /\ exSt = [o \in Orders |-> "none"]
    /\ exFill = [o \in Orders |-> 0]
    /\ exPos = [s \in Symbols |-> 0]
    /\ nextId = 1
    /\ entering = [s \in Symbols |-> NoOrder]
    /\ ack = [o \in Orders |-> "none"]
    /\ blocked = [s \in Symbols |-> FALSE]
    /\ tracked = [o \in Orders |-> FALSE]
    /\ status = [o \in Orders |-> "none"]
    /\ filled = [o \in Orders |-> 0]
    /\ handled = [o \in Orders |-> FALSE]
    /\ seen = [o \in Orders |-> {}]
    /\ credited = [o \in Orders |-> 0]
    /\ aged = [o \in Orders |-> FALSE]
    /\ tasks = {}
    /\ loopUp = TRUE
    /\ round = {}
    /\ pollAt = "idle"
    /\ pollOrder = NoOrder
    /\ pollCanceled = FALSE
    /\ openTrade = [s \in Symbols |-> NoOrder]
    /\ closing = [s \in Symbols |-> "none"]
    /\ closeTrade = [s \in Symbols |-> NoOrder]
    /\ closeSize = [s \in Symbols |-> 0]
    /\ book = [s \in Symbols |-> 0]
    /\ snap = [s \in Symbols |-> 0]
    /\ db = [o \in Orders |-> "none"]
    /\ dbFilled = [o \in Orders |-> 0]
    /\ killed = FALSE
    /\ killPc = "none"
    /\ kills = 0
    /\ crashes = 0
    /\ closeLost = [s \in Symbols |-> FALSE]

-----------------------------------------------------------------------------
(***************************************************************************)
(* The exchange (external).  A scheduled fill callback runs in the next     *)
(* turn of the event loop, before any answer or timer that was not ready    *)
(* when it was scheduled; as it never reads the exchange, what the exchange *)
(* does meanwhile can be placed after it.                                   *)
(***************************************************************************)
CallbacksRan == tasks = {}

\* What an IOC order may fill before the exchange answers "filled".
IocFills == IF PartialIoc THEN 1..Full ELSE {Full}

\* The answer reaches the coroutine only while it still waits for it.
Answer(o, a) ==
    ack' = IF entering[SymOf[o]] = o THEN [ack EXCEPT ![o] = a] ELSE ack

Fill(o, n) ==
    /\ exFill' = [exFill EXCEPT ![o] = @ + n]
    /\ exPos' = [exPos EXCEPT ![SymOf[o]] = @ + n]

ExRest(o) ==
    /\ CallbacksRan /\ exSt[o] = "sent"
    /\ exSt' = [exSt EXCEPT ![o] = "resting"]
    /\ Answer(o, "resting")
    /\ UNCHANGED <<exFill, exPos, nextId, entering, blocked,
                   recordVars, tasks, pollVars, positionVars, dbVars, killVars>>

ExFillAtOnce(o) ==
    /\ CallbacksRan /\ exSt[o] = "sent"
    /\ exSt' = [exSt EXCEPT ![o] = "filled"]
    /\ \E n \in IocFills : Fill(o, n)
    /\ Answer(o, "filled")
    /\ UNCHANGED <<nextId, entering, blocked,
                   recordVars, tasks, pollVars, positionVars, dbVars, killVars>>

ExRefuse(o) ==
    /\ CallbacksRan /\ exSt[o] = "sent"
    /\ exSt' = [exSt EXCEPT ![o] = "refused"]
    /\ Answer(o, "refused")
    /\ UNCHANGED <<exFill, exPos, nextId, entering, blocked,
                   recordVars, tasks, pollVars, positionVars, dbVars, killVars>>

\* A resting order trades, for all or part of what it still asks for.
ExFillResting(o) ==
    /\ CallbacksRan /\ exSt[o] = "resting"
    /\ \E n \in 1..Full :
          /\ exFill[o] + n <= Full
          /\ Fill(o, n)
          /\ exSt' = [exSt EXCEPT ![o] =
                         IF exFill[o] + n = Full THEN "filled" ELSE "resting"]
    /\ UNCHANGED <<entryVars, recordVars, tasks, pollVars, positionVars,
                   dbVars, killVars>>

\* The exchange drops a resting order by itself (margin, self-trade, operator).
ExDrop(o) ==
    /\ CallbacksRan /\ exSt[o] = "resting"
    /\ exSt' = [exSt EXCEPT ![o] = "canceled"]
    /\ UNCHANGED <<exFill, exPos, entryVars, recordVars, tasks, pollVars,
                   positionVars, dbVars, killVars>>

\* The reduce-only close of an exit arrives at the exchange.
ExClose(s) ==
    /\ CallbacksRan /\ closing[s] = "sent" /\ exPos[s] > 0
    /\ exPos' = [exPos EXCEPT ![s] = @ - Least(@, closeSize[s])]
    /\ closing' = [closing EXCEPT ![s] = "executed"]
    /\ UNCHANGED <<exSt, exFill, entryVars, recordVars, tasks, pollVars, openTrade,
                   closeTrade, closeSize, book, snap, closeLost, dbVars, killVars>>

ExRefuseClose(s) ==
    /\ CallbacksRan /\ closing[s] = "sent"
    /\ closing' = [closing EXCEPT ![s] = "refused"]
    /\ UNCHANGED <<exchVars, entryVars, recordVars, tasks, pollVars, openTrade,
                   closeTrade, closeSize, book, snap, closeLost, dbVars, killVars>>

-----------------------------------------------------------------------------
(***************************************************************************)
(* Entry: enter_position, from its guards to the submission, and from the   *)
(* answer to its return.  The engine runs it under the symbol's lock, once  *)
(* RiskManager.can_enter saw no position in the symbol.                     *)
(***************************************************************************)
\* A snapshot is kept only while a further restart can read it.
Saved(b) == IF crashes < MaxCrashes THEN b ELSE snap

SymbolFree(s) == entering[s] = NoOrder /\ closing[s] = "none"

\* "duplicate_position_db": any open row of the symbol, whoever wrote it.
OpenRow(s) == \E o \in Orders : SymOf[o] = s /\ db[o] = "open"

EnterSubmit(s) ==
    /\ nextId \in Orders /\ SymOf[nextId] = s
    /\ SymbolFree(s)
    /\ book[s] = 0
    /\ openTrade[s] = NoOrder /\ ~OpenRow(s) /\ ~blocked[s]
    /\ entering' = [entering EXCEPT ![s] = nextId]
    /\ exSt' = [exSt EXCEPT ![nextId] = "sent"]
    /\ nextId' = nextId + 1
    /\ UNCHANGED <<exFill, exPos, ack, blocked, recordVars, tasks,
                   pollVars, positionVars, dbVars, killVars>>

\* LiveExecutionError: an error answer, or an exception, which says nothing of
\* what the exchange did.  Nothing was written yet and nothing is undone.
EnterRaises(s) ==
    /\ entering[s] \in Orders
    /\ entering' = [entering EXCEPT ![s] = NoOrder]
    /\ ack' = [ack EXCEPT ![entering[s]] = "none"]
    /\ UNCHANGED <<exchVars, nextId, blocked, recordVars, tasks,
                   pollVars, positionVars, dbVars, killVars>>

\* An answer the parser cannot read: the row is written as submission_unknown
\* without an exchange id, nothing is tracked, the symbol is blocked.
EnterAmbiguous(s) ==
    /\ entering[s] \in Orders /\ ack[entering[s]] # "none"
    /\ db' = [db EXCEPT ![entering[s]] = "unknown"]
    /\ blocked' = [blocked EXCEPT ![s] = TRUE]
    /\ entering' = [entering EXCEPT ![s] = NoOrder]
    /\ ack' = [ack EXCEPT ![entering[s]] = "none"]
    /\ UNCHANGED <<exchVars, nextId, recordVars, tasks, pollVars,
                   positionVars, dbFilled, killVars>>

\* Mutant of EnterRests: a resting order is taken for a filled one.
EnterRestsAsFilled(s) ==
    /\ entering[s] \in Orders /\ ack[entering[s]] = "resting"
    /\ LET o == entering[s] IN
       /\ db' = [db EXCEPT ![o] = "resting"]
       /\ tracked' = [tracked EXCEPT ![o] = TRUE]
       /\ status' = [status EXCEPT ![o] = "open"]
       /\ filled' = [filled EXCEPT ![o] = Full]
       /\ ack' = [ack EXCEPT ![o] = "none"]
    /\ entering' = [entering EXCEPT ![s] = NoOrder]
    /\ UNCHANGED <<exchVars, nextId, blocked, handled, seen, credited, aged, tasks,
                   pollVars, positionVars, dbFilled, killVars>>

\* The order rests: row and record are written, the engine waits for the OMS.
EnterRests(s) ==
    /\ entering[s] \in Orders /\ ack[entering[s]] = "resting"
    /\ LET o == entering[s] IN
       /\ db' = [db EXCEPT ![o] = "resting"]
       /\ tracked' = [tracked EXCEPT ![o] = TRUE]
       /\ status' = [status EXCEPT ![o] = "open"]
       /\ ack' = [ack EXCEPT ![o] = "none"]
    /\ entering' = [entering EXCEPT ![s] = NoOrder]
    /\ UNCHANGED <<exchVars, nextId, blocked, filled, handled, seen, credited,
                   aged, tasks, pollVars, positionVars, dbFilled, killVars>>

\* Mutant of EnterFilled: the callback of an immediate fill is not scheduled.
EnterFilledSilently(s) ==
    /\ entering[s] \in Orders /\ ack[entering[s]] = "filled"
    /\ LET o == entering[s] IN
       /\ db' = [db EXCEPT ![o] = "open"]
       /\ dbFilled' = [dbFilled EXCEPT ![o] = Full]
       /\ tracked' = [tracked EXCEPT ![o] = TRUE]
       /\ status' = [status EXCEPT ![o] = "filled"]
       /\ filled' = [filled EXCEPT ![o] = Full]
       /\ handled' = [handled EXCEPT ![o] = TRUE]
       /\ openTrade' = [openTrade EXCEPT ![s] = o]
       /\ ack' = [ack EXCEPT ![o] = "none"]
    /\ snap' = Saved(book)
    /\ entering' = [entering EXCEPT ![s] = NoOrder]
    /\ UNCHANGED <<exchVars, nextId, blocked, seen, credited, aged, tasks, pollVars,
                   closeVars, book, closeLost, killVars>>

\* The exchange says "filled": the full size is taken as filled, the callback
\* is scheduled, and the engine saves a snapshot before the callback runs.
EnterFilled(s) ==
    /\ entering[s] \in Orders /\ ack[entering[s]] = "filled"
    /\ LET o == entering[s] IN
       /\ db' = [db EXCEPT ![o] = "open"]
       /\ dbFilled' = [dbFilled EXCEPT ![o] = Full]
       /\ tracked' = [tracked EXCEPT ![o] = TRUE]
       /\ status' = [status EXCEPT ![o] = "filled"]
       /\ filled' = [filled EXCEPT ![o] = Full]
       /\ handled' = [handled EXCEPT ![o] = TRUE]
       /\ tasks' = tasks \cup {o}
       /\ openTrade' = [openTrade EXCEPT ![s] = o]
       /\ ack' = [ack EXCEPT ![o] = "none"]
    /\ snap' = Saved(book)
    /\ entering' = [entering EXCEPT ![s] = NoOrder]
    /\ UNCHANGED <<exchVars, nextId, blocked, seen, credited, aged, pollVars,
                   closeVars, book, closeLost, killVars>>

\* A reconciliation pass that finds the book and the exchange in agreement.
Unblock(s) ==
    /\ blocked[s] /\ book[s] = exPos[s]
    /\ blocked' = [blocked EXCEPT ![s] = FALSE]
    /\ UNCHANGED <<exchVars, nextId, entering, ack, recordVars,
                   tasks, pollVars, positionVars, dbVars, killVars>>

-----------------------------------------------------------------------------
(***************************************************************************)
(* The OMS poller: one task, one order at a time, a round over the orders   *)
(* that were open or partial when the round began.  The fill list is read   *)
(* after the status; its answer is taken as of the step that uses it.       *)
(***************************************************************************)
PollRound ==
    /\ loopUp /\ pollAt = "idle" /\ round = {}
    /\ round' = {o \in Orders : tracked[o] /\ status[o] \in Working}
    /\ round' # {}
    /\ UNCHANGED <<exchVars, entryVars, recordVars, tasks, loopUp, pollAt,
                   pollOrder, pollCanceled, positionVars, dbVars, killVars>>

\* get_order_status answers; _live_orders is a dict, so older orders go first.
PollStatus(o) ==
    /\ pollAt = "idle" /\ o \in round /\ \A p \in round : o <= p
    /\ round' = round \ {o}
    /\ IF handled[o]
          THEN UNCHANGED <<pollAt, pollOrder, pollCanceled>>
          ELSE /\ pollAt' = "query"
               /\ pollOrder' = o
               /\ pollCanceled' = (exSt[o] = "canceled")
    /\ UNCHANGED <<exchVars, entryVars, recordVars, tasks, loopUp,
                   positionVars, dbVars, killVars>>

PollIdle ==
    /\ pollAt' = "idle" /\ pollOrder' = NoOrder /\ pollCanceled' = FALSE

\* parse_order_fill_snapshot: the fills decide before the status does.
SnapshotStatus(f, canceled) ==
    IF f = Full THEN "filled"
    ELSE IF f > 0 THEN "partial"
    ELSE IF canceled THEN "cancelled" ELSE "open"

\* Mutant of Skipped: a repeated snapshot is skipped however old the order is.
SkippedForever(o, st, f) == st \in Working /\ f \in seen[o]

\* A seen snapshot of a working order is skipped until the order is too old.
Skipped(o, st, f) == st \in Working /\ f \in seen[o] /\ ~aged[o]

\* The record leaves _live_orders; a scheduled callback still holds it and
\* reads filled and credited.
Untrack(o) ==
    /\ tracked' = [tracked EXCEPT ![o] = FALSE]
    /\ status' = [status EXCEPT ![o] = "none"]
    /\ handled' = [handled EXCEPT ![o] = FALSE]
    /\ seen' = [seen EXCEPT ![o] = {}]
    /\ aged' = [aged EXCEPT ![o] = FALSE]

Apply(o, st, f) ==
    /\ status' = [status EXCEPT ![o] = st]
    /\ filled' = [filled EXCEPT ![o] = f]
    /\ seen' = [seen EXCEPT ![o] = IF st \in Working THEN @ \cup {f} ELSE @]

PollSkip(o, st, f) ==
    /\ Skipped(o, st, f)
    /\ PollIdle
    /\ UNCHANGED <<recordVars, tasks, openTrade, book, dbVars>>

\* The row of a confirmed exposure becomes open, under trade t; the kill latch
\* refuses it.
Reinsert(o, f, t) ==
    IF killed
       THEN UNCHANGED <<dbVars, openTrade>>
       ELSE /\ db' = [db EXCEPT ![o] = "open"]
            /\ dbFilled' = [dbFilled EXCEPT ![o] = f]
            /\ openTrade' = [openTrade EXCEPT ![SymOf[o]] = t]

\* _finalize_filled_order: an open trade of the symbol keeps the row it names.
PollFilled(o, st, f) ==
    /\ st = "filled"
    /\ filled' = [filled EXCEPT ![o] = f]
    /\ Untrack(o)
    /\ tasks' = IF killed /\ f <= filled[o] THEN tasks ELSE tasks \cup {o}
    /\ Reinsert(o, f, IF openTrade[SymOf[o]] = NoOrder
                         THEN o ELSE openTrade[SymOf[o]])
    /\ PollIdle
    /\ UNCHANGED <<credited, book>>

\* _rollback_order: it clears the whole symbol, not the order's share of it.
Rollback(o) ==
    /\ book' = [book EXCEPT ![SymOf[o]] = 0]
    /\ openTrade' = [openTrade EXCEPT ![SymOf[o]] = NoOrder]
    /\ db' = [db EXCEPT ![o] = "cancelled"]
    /\ Untrack(o)
    /\ UNCHANGED dbFilled

\* _handle_terminal_order for an order that ended without a fill.
PollTerminal(o, st, f) ==
    /\ st = "cancelled"
    /\ filled' = [filled EXCEPT ![o] = f]
    /\ Rollback(o)
    /\ PollIdle
    /\ UNCHANGED <<credited, tasks>>

\* A partial fill is credited and written; past the timeout the rest of the
\* order is cancelled (_handle_partial_timeout up to its await).
PollPartial(o, st, f) ==
    /\ st = "partial" /\ ~Skipped(o, st, f)
    /\ IF aged[o]
          THEN /\ Apply(o, "timeout", f)
               /\ handled' = [handled EXCEPT ![o] = TRUE]
               /\ pollAt' = "cancelPartial"
               /\ UNCHANGED <<pollOrder, pollCanceled>>
          ELSE /\ Apply(o, st, f)
               /\ UNCHANGED handled
               /\ PollIdle
    /\ tasks' = tasks \cup {o}
    /\ db' = [db EXCEPT ![o] = "partial"]
    /\ dbFilled' = [dbFilled EXCEPT ![o] = f]
    /\ UNCHANGED <<tracked, credited, aged, openTrade, book>>

\* Nothing filled: past the timeout the order is cancelled (_handle_open_timeout
\* up to its await).
PollOpen(o, st, f) ==
    /\ st = "open" /\ ~Skipped(o, st, f)
    /\ IF aged[o]
          THEN /\ Apply(o, "timeout", f)
               /\ handled' = [handled EXCEPT ![o] = TRUE]
               /\ pollAt' = "cancelOpen"
               /\ UNCHANGED <<pollOrder, pollCanceled>>
          ELSE /\ Apply(o, st, f)
               /\ UNCHANGED handled
               /\ PollIdle
    /\ UNCHANGED <<tracked, credited, aged, tasks, openTrade, book,
                   dbVars>>

ProcessSnapshot(o, st, f) ==
    /\ \/ PollSkip(o, st, f)
       \/ PollFilled(o, st, f)
       \/ PollTerminal(o, st, f)
       \/ PollPartial(o, st, f)
       \/ PollOpen(o, st, f)
    /\ UNCHANGED <<exchVars, nextId, entering, ack, blocked, loopUp, round,
                   closeVars, snap, closeLost, killVars>>

PollAnswered(o) ==
    /\ pollAt = "query" /\ pollOrder = o
    /\ ProcessSnapshot(o, SnapshotStatus(exFill[o], pollCanceled), exFill[o])

\* A failed query is answered with what the record already says.
PollFailed(o) ==
    /\ pollAt = "query" /\ pollOrder = o
    /\ ProcessSnapshot(o, status[o], filled[o])

\* cancel_order returns or raises; either way the exchange may have acted on it.
CancelReturns(o) ==
    /\ pollOrder = o
    /\ exSt' \in {exSt, [exSt EXCEPT ![o] =
                             IF @ = "resting" THEN "canceled" ELSE @]}
    /\ PollIdle
    /\ UNCHANGED <<exFill, exPos, nextId, entering, ack, blocked, filled,
                   credited, tasks, loopUp, round, closeVars, snap, closeLost,
                   killVars>>

\* The rollback of _handle_open_timeout ignores the cancel's outcome.
TimeoutRollback(o) ==
    /\ CallbacksRan /\ pollAt = "cancelOpen"
    /\ CancelReturns(o)
    /\ Rollback(o)

\* Mutant of TimeoutKeepPartial: a timed-out order is rolled back, filled or not.
TimeoutVoidsPartial(o) ==
    /\ CallbacksRan /\ pollAt = "cancelPartial"
    /\ CancelReturns(o)
    /\ Rollback(o)

\* _finalize_partial_exposure keeps what the record knew before the cancel.
TimeoutKeepPartial(o) ==
    /\ CallbacksRan /\ pollAt = "cancelPartial"
    /\ CancelReturns(o)
    /\ Untrack(o)
    /\ Reinsert(o, filled[o], o)
    /\ UNCHANGED <<book>>

\* Wall clock: the order passes live_order_timeout_s (read only while polled).
OrderAges(o) ==
    /\ tracked[o] /\ ~handled[o] /\ ~aged[o]
    /\ aged' = [aged EXCEPT ![o] = TRUE]
    /\ UNCHANGED <<exchVars, entryVars, tracked, status, filled, handled, seen,
                   credited, tasks, pollVars, positionVars, dbVars, killVars>>

\* Mutant of Callback: what was applied is not recorded.
CallbackForgets(o) ==
    /\ o \in tasks
    /\ tasks' = tasks \ {o}
    /\ book' = [book EXCEPT ![SymOf[o]] = @ + (filled[o] - credited[o])]
    /\ UNCHANGED <<exchVars, entryVars, recordVars, pollVars, openTrade, closeVars, snap,
                   closeLost, dbVars, killVars>>

\* Mutant of Callback: the whole fill is added to what was applied.
CallbackAccumulates(o) ==
    /\ o \in tasks
    /\ tasks' = tasks \ {o}
    /\ book' = [book EXCEPT ![SymOf[o]] = @ + filled[o]]
    /\ credited' = [credited EXCEPT ![o] = @ + filled[o]]
    /\ UNCHANGED <<exchVars, entryVars, tracked, status, filled, handled, seen, aged,
                   pollVars, openTrade, closeVars, snap, closeLost, dbVars, killVars>>

\* _handle_oms_status_change: apply_entry_fill with what the record gained.
Callback(o) ==
    /\ o \in tasks
    /\ tasks' = tasks \ {o}
    /\ IF filled[o] > credited[o]
          THEN /\ book' = [book EXCEPT ![SymOf[o]] = @ + (filled[o] - credited[o])]
               /\ credited' = [credited EXCEPT ![o] = filled[o]]
          ELSE UNCHANGED <<book, credited>>
    /\ UNCHANGED <<exchVars, entryVars, tracked, status, filled, handled, seen,
                   aged, pollVars, openTrade, closeVars, snap, closeLost, dbVars,
                   killVars>>

-----------------------------------------------------------------------------
(***************************************************************************)
(* Exit: TradingEngine._execute_exit and ExecutionEngine.close_position,    *)
(* under the symbol's lock.                                                 *)
(***************************************************************************)
\* With no open trade close_position invents a closed result: nothing is sent
\* to the exchange and no row is written, but the engine drops the position.
ExitWithoutTrade(s) ==
    /\ SymbolFree(s) /\ book[s] > 0 /\ openTrade[s] = NoOrder
    /\ book' = [book EXCEPT ![s] = 0]
    /\ snap' = Saved(book')
    /\ UNCHANGED <<exchVars, entryVars, recordVars, tasks, pollVars, openTrade,
                   closeVars, closeLost, dbVars, killVars>>

\* Mutant of ExitSubmit: the trade stays in _open_trades during the close.
ExitSubmitKeepsTrade(s) ==
    /\ SymbolFree(s) /\ book[s] > 0 /\ openTrade[s] # NoOrder
    /\ closing' = [closing EXCEPT ![s] = "sent"]
    /\ closeTrade' = [closeTrade EXCEPT ![s] = openTrade[s]]
    /\ closeSize' = [closeSize EXCEPT ![s] = book[s]]
    /\ UNCHANGED <<exchVars, entryVars, recordVars, tasks, pollVars, openTrade, book,
                   snap, closeLost, dbVars, killVars>>

ExitSubmit(s) ==
    /\ SymbolFree(s) /\ book[s] > 0 /\ openTrade[s] # NoOrder
    /\ closing' = [closing EXCEPT ![s] = "sent"]
    /\ closeTrade' = [closeTrade EXCEPT ![s] = openTrade[s]]
    /\ closeSize' = [closeSize EXCEPT ![s] = book[s]]
    /\ openTrade' = [openTrade EXCEPT ![s] = NoOrder]
    /\ UNCHANGED <<exchVars, entryVars, recordVars, tasks, pollVars, book,
                   snap, closeLost, dbVars, killVars>>

NotClosing(s) ==
    /\ closing' = [closing EXCEPT ![s] = "none"]
    /\ closeTrade' = [closeTrade EXCEPT ![s] = NoOrder]
    /\ closeSize' = [closeSize EXCEPT ![s] = 0]

\* The close is taken as complete; the engine drops all the book then holds.
ExitClosed(s) ==
    /\ closing[s] = "executed"
    /\ db' = [db EXCEPT ![closeTrade[s]] = "closed"]
    /\ NotClosing(s)
    /\ book' = [book EXCEPT ![s] = 0]
    /\ snap' = Saved(book')
    /\ UNCHANGED <<exchVars, entryVars, recordVars, tasks, pollVars, openTrade,
                   closeLost, dbFilled, killVars>>

\* Refused, raised or unreadable: the trade is reinstated, and an unreadable
\* answer blocks the symbol.  closeLost is history: the close had executed.
ExitFails(s) ==
    /\ closing[s] \in {"executed", "refused"}
    /\ openTrade' = [openTrade EXCEPT ![s] = closeTrade[s]]
    /\ closeLost' = [closeLost EXCEPT ![s] = @ \/ closing[s] = "executed"]
    /\ NotClosing(s)
    /\ blocked' \in {blocked, [blocked EXCEPT ![s] = TRUE]}
    /\ UNCHANGED <<exchVars, nextId, entering, ack, recordVars,
                   tasks, pollVars, book, snap, dbVars, killVars>>

\* The engine's periodic snapshot (_maybe_save_snapshot).
SaveSnapshot ==
    /\ snap # Saved(book)
    /\ snap' = Saved(book)
    /\ UNCHANGED <<exchVars, entryVars, recordVars, tasks, pollVars, openTrade,
                   closeVars, book, closeLost, dbVars, killVars>>

-----------------------------------------------------------------------------
(***************************************************************************)
(* Kill switch: the latch, the poller's cancellation and _live_orders.clear *)
(* come before the first network call; cancel_all_orders, the flatten (with *)
(* its confirmation) and the local clearing follow, each after an await.    *)
(***************************************************************************)
\* Mutant of KillBegin: the latch is set, the poller goes on.
KillBeginKeepsPoller ==
    /\ kills < MaxKills /\ killPc = "none"
    /\ killed' = TRUE
    /\ killPc' = "cancel"
    /\ kills' = kills + 1
    /\ UNCHANGED <<exchVars, entryVars, recordVars, tasks, pollVars, positionVars, dbVars,
                   crashes>>

KillBegin ==
    /\ kills < MaxKills /\ killPc = "none"
    /\ killed' = TRUE
    /\ killPc' = "cancel"
    /\ kills' = kills + 1
    /\ loopUp' = FALSE
    /\ round' = {}
    /\ PollIdle
    /\ tracked' = [o \in Orders |-> FALSE]
    /\ status' = [o \in Orders |-> "none"]
    /\ handled' = [o \in Orders |-> FALSE]
    /\ seen' = [o \in Orders |-> {}]
    /\ aged' = [o \in Orders |-> FALSE]
    /\ UNCHANGED <<exchVars, entryVars, filled, credited, tasks, positionVars,
                   dbVars, crashes>>

\* Every resting order, or none when the call fails.
KillCancelAll ==
    /\ CallbacksRan /\ killPc = "cancel"
    /\ exSt' \in {exSt, [o \in Orders |-> IF exSt[o] = "resting"
                                            THEN "canceled" ELSE exSt[o]]}
    /\ killPc' = "flatten"
    /\ UNCHANGED <<exFill, exPos, entryVars, recordVars, tasks, pollVars,
                   positionVars, dbVars, killed, kills, crashes>>

\* Each position is closed or its close fails; the outcome is only reported.
KillFlatten ==
    /\ CallbacksRan /\ killPc = "flatten"
    /\ \E flat \in SUBSET Symbols :
          exPos' = [s \in Symbols |-> IF s \in flat THEN 0 ELSE exPos[s]]
    /\ killPc' = "clear"
    /\ UNCHANGED <<exSt, exFill, entryVars, recordVars, tasks, pollVars,
                   positionVars, dbVars, killed, kills, crashes>>

KillClear ==
    /\ CallbacksRan /\ killPc = "clear"
    /\ killPc' = "none"
    /\ book' = [s \in Symbols |-> 0]
    /\ openTrade' = [s \in Symbols |-> NoOrder]
    /\ UNCHANGED <<exchVars, entryVars, recordVars, tasks, pollVars, closeVars,
                   snap, closeLost, dbVars, killed, kills, crashes>>

-----------------------------------------------------------------------------
(***************************************************************************)
(* The process dies and starts again: open() clears the latch, and          *)
(* _recover_state reloads open trades, working orders and the last snapshot,*)
(* then adds the open trades whose symbol the snapshot does not hold.       *)
(***************************************************************************)
\* The rows a death leaves.  Three steps commit more than once, and the process
\* may die between: save_trade_entry creates the row of an answered submission
\* before update_trade_order_tracking gives it the exchange id, and an entry's
\* or an exit's row is written before the snapshot.
RowsAtDeath ==
    \/ UNCHANGED dbVars
    \/ \E s \in Symbols :
          /\ entering[s] \in Orders /\ ack[entering[s]] = "resting"
          /\ db' = [db EXCEPT ![entering[s]] = "nameless"]
          /\ UNCHANGED dbFilled
    \/ \E s \in Symbols :
          /\ entering[s] \in Orders /\ ack[entering[s]] = "filled"
          /\ db' = [db EXCEPT ![entering[s]] = "open"]
          /\ dbFilled' = [dbFilled EXCEPT ![entering[s]] = Full]
    \/ \E s \in Symbols :
          /\ closing[s] = "executed"
          /\ db' = [db EXCEPT ![closeTrade[s]] = "closed"]
          /\ UNCHANGED dbFilled

\* load_open_trades walks the open rows by entry time: the last one wins.
LoadsTrade(s, t) ==
    IF \E o \in Orders : SymOf[o] = s /\ db'[o] = "open"
       THEN /\ t \in Orders /\ SymOf[t] = s /\ db'[t] = "open"
            /\ \A o \in Orders : SymOf[o] = s /\ db'[o] = "open" => o <= t
       ELSE t = NoOrder

\* Mutant of Reloaded: only rows without a fill are polled again.
ReloadedUnfilled(o) == db'[o] = "resting"

\* Mutant of Reloaded: cancelled rows are polled again.
ReloadedCancelled(o) == db'[o] \in WorkingRows \cup {"cancelled"}

Reloaded(o) == db'[o] \in WorkingRows

\* The row's status maps back to open or partial; nothing says what the book
\* already holds of the order.
LoadPendingOrders ==
    /\ tracked' = [o \in Orders |-> Reloaded(o)]
    /\ status' = [o \in Orders |-> IF ~Reloaded(o) THEN "none"
                                   ELSE IF db'[o] = "partial" THEN "partial"
                                   ELSE "open"]
    /\ filled' = [o \in Orders |-> IF Reloaded(o) THEN dbFilled'[o] ELSE 0]
    /\ handled' = [o \in Orders |-> FALSE]
    /\ seen' = [o \in Orders |-> {}]
    /\ credited' = [o \in Orders |-> 0]
    /\ aged' = [o \in Orders |-> Reloaded(o) /\ aged[o]]

\* from_dict, then _sync_open_trades_to_portfolio of the loaded trade t.
RestoredBook(s, t) ==
    IF snap[s] > 0 THEN snap[s] ELSE IF t # NoOrder THEN dbFilled'[t] ELSE 0

CrashRestart ==
    /\ crashes < MaxCrashes
    /\ crashes' = crashes + 1
    /\ RowsAtDeath
    /\ LoadPendingOrders
    /\ openTrade' \in [Symbols -> Orders \cup {NoOrder}]
    /\ \A s \in Symbols : LoadsTrade(s, openTrade'[s])
    /\ book' = [s \in Symbols |-> RestoredBook(s, openTrade'[s])]
    /\ entering' = [s \in Symbols |-> NoOrder]
    /\ ack' = [o \in Orders |-> "none"]
    /\ blocked' = [s \in Symbols |-> FALSE]
    /\ closing' = [s \in Symbols |-> "none"]
    /\ closeTrade' = [s \in Symbols |-> NoOrder]
    /\ closeSize' = [s \in Symbols |-> 0]
    /\ closeLost' = [s \in Symbols |-> closeLost[s]
                                       \/ closing[s] = "executed"]
    /\ tasks' = {}
    /\ loopUp' = TRUE /\ round' = {}
    /\ PollIdle
    /\ killed' = FALSE /\ killPc' = "none"
    /\ UNCHANGED <<exchVars, nextId, snap, kills>>

-----------------------------------------------------------------------------
Exchange ==
    \/ \E o \in Orders : \/ ExRest(o) \/ ExFillAtOnce(o) \/ ExRefuse(o)
                         \/ ExFillResting(o) \/ ExDrop(o)
    \/ \E s \in Symbols : ExClose(s) \/ ExRefuseClose(s)

Entry ==
    \E s \in Symbols : \/ EnterSubmit(s) \/ EnterRaises(s) \/ EnterAmbiguous(s)
                       \/ EnterRests(s) \/ EnterFilled(s)
                       \/ Unblock(s)

Oms ==
    \/ PollRound
    \/ \E o \in Orders : \/ PollStatus(o) \/ PollAnswered(o) \/ PollFailed(o)
                         \/ TimeoutRollback(o) \/ TimeoutKeepPartial(o)

Exit ==
    \/ \E s \in Symbols : \/ ExitWithoutTrade(s) \/ ExitSubmit(s)
                          \/ ExitClosed(s) \/ ExitFails(s)
    \/ SaveSnapshot

Kill == KillBegin \/ KillCancelAll \/ KillFlatten \/ KillClear

Next ==
    \/ Exchange \/ Entry \/ Oms \/ Exit \/ Kill
    \/ \E o \in Orders : OrderAges(o) \/ Callback(o)
    \/ CrashRestart

Spec == Init /\ [][Next]_vars

(***************************************************************************)
(* The poller runs for as long as the process does, a scheduled task runs,  *)
(* and time passes.  Nothing is assumed of the exchange: a query may fail   *)
(* forever and a fill may never come.                                       *)
(***************************************************************************)
Fairness ==
    /\ WF_vars(Oms)
    /\ \A o \in Orders : WF_vars(Callback(o)) /\ WF_vars(OrderAges(o))

FairSpec == Spec /\ Fairness

-----------------------------------------------------------------------------
(***************************************************************************)
(* Properties.                                                              *)
(***************************************************************************)
PhaseOf == [none |-> "absent", unknown |-> "unknown", nameless |-> "working",
            resting |-> "working", partial |-> "working", open |-> "held",
            closed |-> "closed", cancelled |-> "void"]

Row == INSTANCE TradeLifecycle
          WITH phase <- [o \in Orders |-> PhaseOf[db[o]]], recorded <- dbFilled

\* The trades table implements TradeLifecycle: whatever the order of fills,
\* polls, cancels, exits, kill switch and restarts, no row is reopened, loses
\* recorded fills, or is cancelled once a fill of its order has been recorded.
RowsImplementLifecycle == Row!Spec

\* What the callback credits never exceeds what the poller read, and the poller
\* never reads more than the exchange filled.
CreditBacked ==
    \A o \in Orders : credited[o] <= filled[o] /\ filled[o] <= exFill[o]

\* The book never claims lots the account does not hold, but while a close has
\* executed and its answer is not processed, or was read as a failure, and after
\* the kill switch.  Every path that credits, drops or rolls back lots, for all
\* orders of the symbol together, must keep the two ledgers in step.
NoPhantom ==
    \A s \in Symbols : \/ killed \/ closeLost[s]
                       \/ closing[s] = "executed"
                       \/ book[s] <= exPos[s]

\* A row that became open has had all its recorded fills credited to the book,
\* or its callback is scheduled: no fill is written and then forgotten.
OpenRowCredited ==
    \A o \in Orders : db[o] = "open" => o \in tasks \/ credited[o] = dbFilled[o]

\* The open trade of a symbol, or the trade its exit is closing, is a row the
\* table still has as open: an exit never closes a row twice or a dead one.
ExitsCloseOpenRows ==
    \A s \in Symbols : /\ openTrade[s] # NoOrder => db[openTrade[s]] = "open"
                       /\ closing[s] # "none" => db[closeTrade[s]] = "open"

\* No working row with an exchange id is forgotten: while the latch is open the
\* poller runs, and every such row is one it will ask about, or the one whose
\* timeout it is just handling, whatever submissions, fills, failed queries,
\* timeouts and restarts came before.  The row a death between the two commits of
\* a submission leaves nameless is nobody's: no reload, poll or timeout sees it.
WorkingRowsPolled ==
    ~killed =>
       /\ loopUp
       /\ \A o \in Orders : db[o] \in WorkingRows =>
             \/ status[o] \in Working
             \/ /\ status[o] = "timeout" /\ pollOrder = o
                /\ pollAt \in {"cancelOpen", "cancelPartial"}

\* A row the poller is responsible for is settled: even if every query fails
\* and the exchange never fills, the timeout ends it, unless the kill switch
\* stopped the poller.
WorkingRowsSettle ==
    \A o \in Orders : db[o] \in WorkingRows ~> (db[o] \notin WorkingRows \/ killed)

\* Once the kill latch is set nothing the poller had in flight completes: the
\* rows it was working on stay as they are for the next start to reload.
KillFreezesWorkingRows ==
    [][killed /\ killed' => \A o \in Orders :
                               db[o] \in WorkingRows => db'[o] = db[o]]_vars
=============================================================================
