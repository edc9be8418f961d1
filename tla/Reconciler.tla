------------------------------ MODULE Reconciler ------------------------------
(***************************************************************************)
(* ExchangeReconciler (src/core/reconciliation.py) and the close by fill     *)
(* tape (src/core/trigger_reconcile.py): a periodic pass compares the book   *)
(* with the account and repairs one of them, while entries, fills and exits  *)
(* of the same symbols go on between its awaits.                             *)
(*                                                                          *)
(* pc says where the pass is suspended.  At "retry" and "walk" it runs on     *)
(* without an await, so that no other coroutine moves (Yielded); the         *)
(* exchange always may.  A trade is one lot of one symbol; the fill tape is  *)
(* the number of lots ever closed, and an entry time the value of that       *)
(* number when the trade was submitted.  The order in which a pass walks     *)
(* symbols and rows is left open.  One process and one pass at a time.       *)
(***************************************************************************)
EXTENDS Integers, FiniteSets

CONSTANTS
    Symbols, Trades,
    NoTrade,       \* a position without a row
    SymOf,         \* the symbol of a trade
    Policies       \* values of reconciliation.orphan_exchange_policy

ASSUME SymbolsAssumption == Symbols # {}
ASSUME NoTradeAssumption == NoTrade \notin Trades
ASSUME SymOfAssumption == SymOf \in [Trades -> Symbols]
ASSUME PoliciesAssumption == Policies \subseteq {"adopt", "halt", "flatten"}

FailureLimit == 3        \* failed passes in a row that halt entries

VARIABLES
    \* ---- exchange: open lots, lots ever closed, orders filled
    exPos, closed, filled,
    \* ---- trades table: status and entry time of a row
    row, base,
    \* ---- PortfolioState: positions, lots whose cost has left the cash
    book, owed,
    \* ---- ExecutionEngine: _open_trades, _blocked_symbols, the close in flight
    openTrade, blocked, exiting,
    \* ---- reconcile_once: its locals, and the arguments of the close it awaits
    pc, seen, local, todo, orphans, strays, errors, cur,
    outcome,        \* history: what came of a stray that the pass has handled
    \* ---- ReconciliationHealth
    halted, drift, failures, stale,
    lifted,         \* history: rows whose halt the retry of another row has lifted
    policy

exVars == <<exPos, closed, filled>>
rowVars == <<row, base>>
bookVars == <<book, owed>>
execVars == <<openTrade, blocked, exiting>>
walkVars == <<seen, local, todo, orphans, strays, errors, outcome>>
passVars == <<pc, walkVars, cur>>
healthVars == <<halted, drift, failures, stale, lifted>>
vars == <<exVars, rowVars, bookVars, execVars, passVars, healthVars, policy>>

Statuses == {"none", "working", "unknown", "open", "pending", "closed", "cancelled"}
MaybeTrade == Trades \cup {NoTrade}
Position == [trade : MaybeTrade, lots : Nat, base : Nat]
Flat == [trade |-> NoTrade, lots |-> 0, base |-> 0]
Close == [trade : MaybeTrade, lots : Nat, at : {"none", "sent", "executed", "refused"}]
NoClose == [trade |-> NoTrade, lots |-> 0, at |-> "none"]
Call == [trade : MaybeTrade, sym : Symbols, lots : Nat, base : Nat,
         native : BOOLEAN, retry : BOOLEAN]

Outcomes == {"none", "repaired", "unfilled"}

Suspended == {"idle", "orders", "fills", "sibling", "unprotect", "phantom",
              "protect", "flatten"}
Yielded == pc \in Suspended

ExchangeTypes == /\ exPos \in [Symbols -> Nat] /\ closed \in [Symbols -> Nat]
                 /\ filled \subseteq Trades
RowTypes == row \in [Trades -> Statuses] /\ base \in [Trades -> Nat]
BookTypes == book \in [Symbols -> Position] /\ owed \in Int
ExecTypes == /\ openTrade \in [Symbols -> MaybeTrade] /\ blocked \subseteq Symbols
             /\ exiting \in [Symbols -> Close]
PassTypes == /\ pc \in Suspended \cup {"retry", "walk"}
             /\ seen \in [Symbols -> Nat] /\ local \in [Symbols -> Position]
             /\ todo \subseteq Trades /\ orphans \subseteq Symbols
             /\ strays \subseteq Symbols /\ errors \in BOOLEAN /\ cur \in Call
             /\ outcome \in [Symbols -> Outcomes]
HealthTypes == /\ halted \in BOOLEAN /\ drift \subseteq Symbols
               /\ failures \in 0..FailureLimit /\ stale \in BOOLEAN
               /\ lifted \subseteq Trades
TypeOK == /\ ExchangeTypes /\ RowTypes /\ BookTypes /\ ExecTypes
          /\ PassTypes /\ HealthTypes /\ policy \in Policies

NoCall == [trade |-> NoTrade, sym |-> CHOOSE s \in Symbols : TRUE, lots |-> 0,
           base |-> 0, native |-> FALSE, retry |-> FALSE]

Init ==
    /\ exPos = [s \in Symbols |-> 0] /\ closed = [s \in Symbols |-> 0] /\ filled = {}
    /\ row = [t \in Trades |-> "none"] /\ base = [t \in Trades |-> 0]
    /\ book = [s \in Symbols |-> Flat] /\ owed = 0
    /\ openTrade = [s \in Symbols |-> NoTrade] /\ blocked = {}
    /\ exiting = [s \in Symbols |-> NoClose]
    /\ pc = "idle" /\ cur = NoCall
    /\ seen = [s \in Symbols |-> 0] /\ local = [s \in Symbols |-> Flat]
    /\ todo = {} /\ orphans = {} /\ strays = {} /\ errors = FALSE
    /\ outcome = [s \in Symbols |-> "none"]
    /\ halted = FALSE /\ drift = {} /\ failures = 0 /\ stale = TRUE /\ lifted = {}
    /\ policy \in Policies

-----------------------------------------------------------------------------
\* entries_blocked.
EntriesBlocked == halted \/ stale \/ drift # {} \/ failures >= FailureLimit

Held(s) == book[s].lots > 0

\* apply_entry_fill: a position that is there keeps its metadata.
Credit(s, n, t, b) ==
    /\ book' = [book EXCEPT ![s] = IF Held(s)
                                   THEN [book[s] EXCEPT !.lots = book[s].lots + n]
                                   ELSE [trade |-> t, lots |-> n, base |-> b]]
    /\ owed' = owed + n

\* remove_position and cancel_position: the cost of what the book holds returns.
Refund(s) == book' = [book EXCEPT ![s] = Flat] /\ owed' = owed - book[s].lots

\* suspend_position: no cash moves.
Suspend(s) == book' = [book EXCEPT ![s] = Flat] /\ UNCHANGED owed

Forget(s) == openTrade' = [openTrade EXCEPT ![s] = NoTrade]

\* A trade id of 0 touches no row.
SetRow(t, status) == row' = IF t \in Trades THEN [row EXCEPT ![t] = status] ELSE row

\* Mutant of ExCloses: the order is not reduce-only.
ExClosesMore(s, n) ==
    /\ exPos' = [exPos EXCEPT ![s] = @ - n]
    /\ closed' = [closed EXCEPT ![s] = @ + n]
    /\ UNCHANGED filled

\* The exchange closes at most n lots of s.
ExCloses(s, n) ==
    LET m == IF n < exPos[s] THEN n ELSE exPos[s]
    IN /\ exPos' = [exPos EXCEPT ![s] = @ - m]
       /\ closed' = [closed EXCEPT ![s] = @ + m]
       /\ UNCHANGED filled

-----------------------------------------------------------------------------
(***************************************************************************)
(* The exchange (external).                                                 *)
(***************************************************************************)
ExFills(t) ==
    /\ row[t] \in {"working", "unknown"} /\ t \notin filled
    /\ filled' = filled \cup {t}
    /\ exPos' = [exPos EXCEPT ![SymOf[t]] = @ + 1]
    /\ UNCHANGED <<closed, rowVars, bookVars, execVars, passVars, healthVars, policy>>

\* A stop, a target or a liquidation.
ExTriggers(s) ==
    /\ exPos[s] > 0
    /\ ExCloses(s, exPos[s])
    /\ UNCHANGED <<rowVars, bookVars, execVars, passVars, healthVars, policy>>

ExExecutesClose(s) ==
    /\ exiting[s].at = "sent" /\ exPos[s] > 0
    /\ ExCloses(s, exiting[s].lots)
    /\ exiting' = [exiting EXCEPT ![s].at = "executed"]
    /\ UNCHANGED <<rowVars, bookVars, openTrade, blocked, passVars, healthVars, policy>>

ExRefusesClose(s) ==
    /\ exiting[s].at = "sent"
    /\ exiting' = [exiting EXCEPT ![s].at = "refused"]
    /\ UNCHANGED <<exVars, rowVars, bookVars, openTrade, blocked, passVars,
                   healthVars, policy>>

-----------------------------------------------------------------------------
(***************************************************************************)
(* Entries, fills and exits, as far as the pass can notice them.            *)
(***************************************************************************)
\* The entry rests, or its answer is ambiguous: the row is then never polled.
Enter(t, status) ==
    LET s == SymOf[t] IN
    /\ Yielded /\ row[t] = "none"
    /\ ~EntriesBlocked /\ s \notin blocked /\ ~Held(s)
    /\ row' = [row EXCEPT ![t] = status]
    /\ base' = [base EXCEPT ![t] = closed[s]]
    /\ blocked' = IF status = "unknown" THEN blocked \cup {s} ELSE blocked
    /\ UNCHANGED <<exVars, bookVars, openTrade, exiting, passVars, healthVars, policy>>

Lapses(t) ==
    /\ Yielded /\ row[t] = "working" /\ t \notin filled
    /\ row' = [row EXCEPT ![t] = "cancelled"]
    /\ UNCHANGED <<exVars, base, bookVars, execVars, passVars, healthVars, policy>>

\* The poller finds the fill and its callback credits the book.
OmsCredits(t) ==
    LET s == SymOf[t] IN
    /\ Yielded /\ row[t] = "working" /\ t \in filled
    /\ row' = [row EXCEPT ![t] = "open"]
    /\ openTrade' = [openTrade EXCEPT ![s] = t]
    /\ Credit(s, 1, t, base[t])
    /\ UNCHANGED <<exVars, base, blocked, exiting, passVars, healthVars, policy>>

\* close_position without an open trade reports a close that never happened.
ExitWithoutTrade(s) ==
    /\ Yielded /\ exiting[s] = NoClose /\ Held(s) /\ openTrade[s] = NoTrade
    /\ Refund(s)
    /\ UNCHANGED <<exVars, rowVars, execVars, passVars, healthVars, policy>>

ExitSubmits(s) ==
    /\ Yielded /\ exiting[s] = NoClose /\ Held(s) /\ openTrade[s] # NoTrade
    /\ exiting' = [exiting EXCEPT ![s] = [trade |-> openTrade[s], lots |-> book[s].lots,
                                          at |-> "sent"]]
    /\ Forget(s)
    /\ UNCHANGED <<exVars, rowVars, bookVars, blocked, passVars, healthVars, policy>>

ExitEnds(s) ==
    /\ Yielded /\ exiting[s].at = "executed"
    /\ SetRow(exiting[s].trade, "closed")
    /\ Refund(s)
    /\ exiting' = [exiting EXCEPT ![s] = NoClose]
    /\ UNCHANGED <<exVars, base, openTrade, blocked, passVars, healthVars, policy>>

\* Refused, or executed with an answer that was lost.
ExitFails(s) ==
    /\ Yielded /\ exiting[s].at \in {"executed", "refused"}
    /\ openTrade' = [openTrade EXCEPT ![s] = exiting[s].trade]
    /\ exiting' = [exiting EXCEPT ![s] = NoClose]
    /\ blocked' \in {blocked, blocked \cup {s}}
    /\ UNCHANGED <<exVars, rowVars, bookVars, passVars, healthVars, policy>>

-----------------------------------------------------------------------------
(***************************************************************************)
(* One pass (reconcile_once).                                               *)
(***************************************************************************)
Idle == /\ pc' = "idle" /\ cur' = NoCall
        /\ seen' = [s \in Symbols |-> 0] /\ local' = [s \in Symbols |-> Flat]
        /\ todo' = {} /\ orphans' = {} /\ strays' = {} /\ errors' = FALSE
        /\ outcome' = [s \in Symbols |-> "none"]

\* _record_failure; the count stops at the limit.
RecordFailure ==
    /\ failures' = IF failures < FailureLimit THEN failures + 1 ELSE failures
    /\ halted' = (halted \/ failures' >= FailureLimit)

\* get_user_state or get_open_orders raises.
PassFails ==
    /\ pc \in {"idle", "orders"}
    /\ Idle
    /\ RecordFailure
    /\ UNCHANGED <<exVars, rowVars, bookVars, execVars, drift, stale, lifted, policy>>

\* get_user_state answers.
ReadAccount ==
    /\ pc = "idle"
    /\ pc' = "orders" /\ seen' = exPos
    /\ UNCHANGED <<exVars, rowVars, bookVars, execVars, local, todo, orphans, strays,
                   errors, outcome, cur, healthVars, policy>>

\* get_open_orders and the purge of residual triggers are over.
ReadOrders ==
    /\ pc = "orders"
    /\ pc' = "retry"
    /\ todo' = {t \in Trades : row[t] = "pending" /\ seen[SymOf[t]] = 0}
    /\ UNCHANGED <<exVars, rowVars, bookVars, execVars, seen, local, orphans, strays,
                   errors, outcome, cur, healthVars, policy>>

\* _retry_close_pending_trades: one row, unless it was closed meanwhile.
Retry(t) ==
    /\ pc = "retry" /\ t \in todo
    /\ todo' = todo \ {t}
    /\ IF row[t] = "closed" THEN UNCHANGED <<pc, cur>>
       ELSE /\ pc' = "fills"
            /\ cur' = [trade |-> t, sym |-> SymOf[t], lots |-> 1, base |-> base[t],
                       native |-> TRUE, retry |-> TRUE]
    /\ UNCHANGED <<exVars, rowVars, bookVars, execVars, seen, local, orphans, strays,
                   errors, outcome, healthVars, policy>>

OrphanExchange == {s \in Symbols : seen[s] > 0 /\ local[s].lots = 0}
Mismatches == {s \in Symbols : seen[s] > 0 /\ local[s].lots > 0 /\ local[s].lots # seen[s]}

\* The book is copied and compared with the account read before.
StartWalk ==
    /\ pc = "retry" /\ todo = {}
    /\ pc' = "walk"
    /\ local' = book
    /\ orphans' = {s \in Symbols : Held(s) /\ seen[s] = 0}
    /\ strays' = {s \in Symbols : ~Held(s) /\ seen[s] > 0}
    /\ UNCHANGED <<exVars, rowVars, bookVars, execVars, seen, todo, errors, outcome, cur,
                   healthVars, policy>>

RowClosed(t) == t \in Trades /\ row[t] = "closed"

\* Mutant of OrphanLocal: a book without an account position is left alone.
OrphanLocalIgnored(s, native) ==
    /\ pc = "walk" /\ s \in orphans
    /\ orphans' = orphans \ {s}
    /\ UNCHANGED <<exVars, rowVars, bookVars, execVars, pc, seen, local, todo, strays,
                   errors, outcome, cur, healthVars, policy>>

\* _handle_orphan_local up to the fill tape.
OrphanLocal(s, native) ==
    /\ pc = "walk" /\ s \in orphans
    /\ orphans' = orphans \ {s}
    /\ IF RowClosed(local[s].trade) THEN UNCHANGED <<pc, cur>>
       ELSE /\ pc' = "fills"
            /\ cur' = [trade |-> local[s].trade, sym |-> s, lots |-> local[s].lots,
                       base |-> local[s].base, native |-> native, retry |-> FALSE]
    /\ UNCHANGED <<exVars, rowVars, bookVars, execVars, seen, local, todo, strays,
                   errors, outcome, healthVars, policy>>

-----------------------------------------------------------------------------
(***************************************************************************)
(* reconcile_trigger_close_once after get_user_fills returned, and what its *)
(* two callers do with the result.                                          *)
(***************************************************************************)
OnTape == closed[cur.sym] - cur.base >= cur.lots

FillsMatch ==
    /\ pc = "fills" /\ OnTape
    /\ pc' = "sibling"
    /\ UNCHANGED <<exVars, rowVars, bookVars, execVars, walkVars, cur, healthVars, policy>>

\* The other trigger is cancelled: row and book are closed.
CloseMatched ==
    /\ pc = "sibling"
    /\ pc' = "unprotect"
    /\ SetRow(cur.trade, "closed")
    /\ Refund(cur.sym)
    /\ Forget(cur.sym)
    /\ UNCHANGED <<exVars, base, blocked, exiting, walkVars, cur, healthVars, policy>>

\* A retry that succeeds clears every halt; a liquidation sets one.
CloseReturns(liquidated) ==
    /\ pc = "unprotect"
    /\ cur' = NoCall
    /\ IF cur.retry
       THEN /\ pc' = "retry" /\ halted' = FALSE /\ drift' = {}
            /\ lifted' = lifted \cup {t \in Trades \ {cur.trade} : row[t] = "pending"}
       ELSE pc' = "walk" /\ halted' = (halted \/ liquidated) /\ UNCHANGED <<drift, lifted>>
    /\ UNCHANGED <<exVars, rowVars, bookVars, execVars, walkVars, failures, stale, policy>>

\* get_user_fills failed or has no match: a retry waits on.
StillPending ==
    /\ pc = "fills" /\ cur.retry
    /\ pc' = "retry" /\ cur' = NoCall
    /\ SetRow(cur.trade, "pending")
    /\ UNCHANGED <<exVars, base, bookVars, execVars, walkVars, healthVars, policy>>

\* Mutant of CloseUnknown: the position stays in the book.
CloseUnknownKept ==
    /\ pc = "fills" /\ ~cur.retry /\ cur.native
    /\ pc' = "walk" /\ cur' = NoCall
    /\ SetRow(cur.trade, "pending")
    /\ Forget(cur.sym)
    /\ halted' = TRUE
    /\ UNCHANGED <<exVars, base, bookVars, blocked, exiting, walkVars, drift, failures,
                   stale, lifted, policy>>

\* Mutant of CloseUnknown: nothing stops the entries.
CloseUnknownQuiet ==
    /\ pc = "fills" /\ ~cur.retry /\ cur.native
    /\ pc' = "walk" /\ cur' = NoCall
    /\ SetRow(cur.trade, "pending")
    /\ Suspend(cur.sym)
    /\ Forget(cur.sym)
    /\ UNCHANGED <<exVars, base, blocked, exiting, walkVars, healthVars, policy>>

\* The same for a position whose native close was expected.
CloseUnknown ==
    /\ pc = "fills" /\ ~cur.retry /\ cur.native
    /\ pc' = "walk" /\ cur' = NoCall
    /\ SetRow(cur.trade, "pending")
    /\ Suspend(cur.sym)
    /\ Forget(cur.sym)
    /\ halted' = TRUE
    /\ UNCHANGED <<exVars, base, blocked, exiting, walkVars, drift, failures, stale,
                   lifted, policy>>

\* Mutant of DropPhantom: the position leaves the book only after the await.
DropPhantomKept ==
    /\ pc = "fills" /\ ~cur.retry /\ ~cur.native
    /\ pc' = "phantom"
    /\ Forget(cur.sym)
    /\ UNCHANGED <<exVars, rowVars, bookVars, blocked, exiting, walkVars, cur, healthVars, policy>>

\* The same without native protection: the position is taken for a phantom.
DropPhantom ==
    /\ pc = "fills" /\ ~cur.retry /\ ~cur.native
    /\ pc' = "phantom"
    /\ Refund(cur.sym)
    /\ Forget(cur.sym)
    /\ UNCHANGED <<exVars, rowVars, blocked, exiting, walkVars, cur, healthVars, policy>>

PhantomCancelled ==
    /\ pc = "phantom"
    /\ pc' = "walk" /\ cur' = NoCall
    /\ SetRow(cur.trade, "cancelled")
    /\ UNCHANGED <<exVars, base, bookVars, execVars, walkVars, healthVars, policy>>

-----------------------------------------------------------------------------
OpenRows(s) == {t \in Trades : SymOf[t] = s /\ row[t] = "open"}

Handles(s) == pc = "walk" /\ orphans = {} /\ s \in strays /\ strays' = strays \ {s}

\* _handle_orphan_exchange, policy HALT.
HaltOnStray(s) ==
    /\ policy = "halt" /\ Handles(s)
    /\ halted' = TRUE
    /\ UNCHANGED <<exVars, rowVars, bookVars, execVars, pc, cur, seen, local, todo,
                   orphans, errors, outcome, drift, failures, stale, lifted, policy>>

\* _adopt_exchange_position; the protection of the position is awaited.
Adopt(s) ==
    /\ policy = "adopt" /\ Handles(s)
    /\ pc' = "protect"
    /\ \E t \in IF OpenRows(s) = {} THEN {NoTrade} ELSE OpenRows(s) :
          Credit(s, seen[s], t, closed[s])
    /\ outcome' = [outcome EXCEPT ![s] = "repaired"]
    /\ UNCHANGED <<exVars, rowVars, execVars, cur, seen, local, todo, orphans, errors,
                   healthVars, policy>>

Protected ==
    /\ pc = "protect"
    /\ pc' = "walk"
    /\ UNCHANGED <<exVars, rowVars, bookVars, execVars, walkVars, cur, healthVars, policy>>

\* Policy FLATTEN: the close is awaited.
FlattenStray(s) ==
    /\ policy = "flatten" /\ Handles(s)
    /\ pc' = "flatten"
    /\ cur' = [NoCall EXCEPT !.sym = s, !.lots = seen[s]]
    /\ UNCHANGED <<exVars, rowVars, bookVars, execVars, seen, local, todo, orphans,
                   errors, outcome, healthVars, policy>>

\* n lots of the close fill.  The client raises (~ok) or returns what the exchange said;
\* a refused, unfilled or partial answer does not raise and is taken for a flattened
\* position.
FlattenEnds(n, ok) ==
    LET s == cur.sym
        full == n = cur.lots \/ n >= exPos[s]
    IN
    /\ pc = "flatten" /\ n <= cur.lots
    /\ pc' = "walk" /\ cur' = NoCall
    /\ ExCloses(s, n)
    /\ outcome' = [outcome EXCEPT ![s] = IF full THEN "repaired" ELSE "unfilled"]
    /\ halted' = (halted \/ ~ok) /\ errors' = (errors \/ ~ok)
    /\ UNCHANGED <<rowVars, bookVars, execVars, seen, local, todo, orphans, strays,
                   drift, failures, stale, lifted, policy>>

\* Mismatches halt, symbols in agreement are unblocked, the health is written.
PassEnds ==
    /\ pc = "walk" /\ orphans = {} /\ strays = {}
    /\ Idle
    /\ blocked' = {s \in blocked : local[s].lots # seen[s]}
    /\ LET drifted == drift \cup Mismatches
           stays == IF Mismatches = {} /\ OrphanExchange = {}
                    THEN {s \in drifted : local[s].lots > 0} ELSE drifted
       IN IF errors
          THEN /\ drift' = drifted
               /\ failures' = IF failures < FailureLimit THEN failures + 1 ELSE failures
               /\ halted' = (halted \/ Mismatches # {} \/ failures' >= FailureLimit)
               /\ UNCHANGED stale
          ELSE /\ drift' = stays /\ failures' = 0 /\ stale' = FALSE
               /\ halted' = (halted \/ Mismatches # {})
    /\ UNCHANGED <<exVars, rowVars, bookVars, openTrade, exiting, lifted, policy>>

\* stale_threshold_sec pass without a success.
Ages ==
    /\ ~stale /\ stale' = TRUE
    /\ UNCHANGED <<exVars, rowVars, bookVars, execVars, passVars, halted, drift,
                   failures, lifted, policy>>

-----------------------------------------------------------------------------
Exchange == \/ \E t \in Trades : ExFills(t)
            \/ \E s \in Symbols : ExTriggers(s) \/ ExExecutesClose(s) \/ ExRefusesClose(s)

Trading == \/ \E t \in Trades : \/ \E status \in {"working", "unknown"} : Enter(t, status)
                                \/ Lapses(t) \/ OmsCredits(t)
           \/ \E s \in Symbols : \/ ExitWithoutTrade(s) \/ ExitSubmits(s)
                                 \/ ExitEnds(s) \/ ExitFails(s)

Pass == \/ PassFails \/ ReadAccount \/ ReadOrders \/ StartWalk
        \/ \E t \in Trades : Retry(t)
        \/ \E s \in Symbols : \/ \E native \in BOOLEAN : OrphanLocal(s, native)
                              \/ HaltOnStray(s) \/ Adopt(s) \/ FlattenStray(s)
        \/ FillsMatch \/ CloseMatched \/ \E liquidated \in BOOLEAN : CloseReturns(liquidated)
        \/ StillPending \/ CloseUnknown \/ DropPhantom \/ PhantomCancelled
        \/ Protected \/ \E n \in 0 .. cur.lots, ok \in BOOLEAN : FlattenEnds(n, ok)
        \/ PassEnds

Next == Exchange \/ Trading \/ Pass \/ Ages

Spec == Init /\ [][Next]_vars

\* The loop sleeps and starts the next pass; every call of a pass answers or raises.
FairSpec == Spec /\ WF_vars(Pass)

-----------------------------------------------------------------------------
(***************************************************************************)
(* Properties.                                                              *)
(***************************************************************************)
\* Which row a position, an open trade, an exit in flight and the pass itself stand
\* for, and what that row may say: a position's row is open, a row that is retried
\* waits or was closed, a row of an orphan is never one that waits.
BookNamesOpen ==
    \A s \in Symbols : book[s].trade \in Trades
        => SymOf[book[s].trade] = s /\ row[book[s].trade] = "open"
ExitsOfSymbol ==
    \A s \in Symbols : /\ openTrade[s] \in Trades => SymOf[openTrade[s]] = s
                       /\ exiting[s].trade \in Trades => SymOf[exiting[s].trade] = s
TodoWaits ==
    /\ \A t \in todo : row[t] \in {"pending", "closed"}
    /\ todo # {} => pc \in {"retry", "fills", "sibling", "unprotect"}
    /\ pc \in {"fills", "sibling", "unprotect"} /\ ~cur.retry => todo = {}
OrphansOpen ==
    /\ pc \in {"idle", "orders", "retry"} => orphans = {}
    /\ \A s \in orphans : local[s].trade \in Trades
          => SymOf[local[s].trade] = s /\ row[local[s].trade] \in {"open", "closed"}
CallOfRow ==
    /\ pc \in {"fills", "sibling", "unprotect"} /\ cur.retry => orphans = {}
    /\ pc = "phantom" => ~cur.retry
    /\ pc \notin {"fills", "sibling", "unprotect", "phantom"} => cur.trade = NoTrade
    /\ cur.trade \in Trades =>
          /\ SymOf[cur.trade] = cur.sym
          /\ cur.retry => row[cur.trade] \in {"pending", "closed"}
          /\ ~cur.retry => row[cur.trade] \in {"open", "closed"} /\ cur.sym \notin orphans
          /\ pc = "phantom" => book[cur.sym].trade # cur.trade
RowsOwned == BookNamesOpen /\ ExitsOfSymbol /\ TodoWaits /\ OrphansOpen /\ CallOfRow

\* A row that waits for the fill tape ends closed: no orphan that is handled, no
\* phantom that is cancelled and no exit in flight cancels or reopens it, so its
\* PnL is still to be recorded.  And while it waits entries stay halted, through later
\* passes that find nothing, but for a retry that closes another row, which lifts every halt.
PendingEndsClosed ==
    [][\A t \in Trades : row[t] = "pending" =>
           /\ row'[t] \in {"pending", "closed"}
           /\ halted \/ t \in lifted]_vars

\* A pass that leaves entries open has dealt with every difference it compared: the
\* row of a position the account lacked is closed or cancelled, and a position the book
\* lacked is adopted, or its close has filled.  A halt raised on the way, with the awaits
\* of other repairs after it, still stands at the end.  The exception is the code's: a
\* flattening close that the exchange refuses or fills in part raises nothing and halts
\* nothing (close_position of the client returns the answer, _handle_orphan_exchange does
\* not look at it).
Unfilled(s) == outcome[s] = "unfilled"
DealtWith(s) ==
    \/ local[s].lots = seen[s]
    \/ local[s].lots = 0 /\ outcome[s] = "repaired"
    \/ /\ seen[s] = 0
       /\ local[s].trade \in Trades => row[local[s].trade] \in {"closed", "cancelled"}
DriftDealtWith ==
    [][pc = "walk" /\ pc' = "idle" /\ ~EntriesBlocked'
          => \A s \in Symbols : DealtWith(s) \/ Unfilled(s)]_vars

\* "drift may persist up to one interval": a book that differs from the account is
\* repaired, or entries are blocked, or the flattening close was one of those above.
Drift(s) == book[s].lots # exPos[s]
DriftSettles == \A s \in Symbols : Drift(s) ~> ~Drift(s) \/ EntriesBlocked \/ Unfilled(s)
=============================================================================
