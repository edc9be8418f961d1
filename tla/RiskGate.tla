------------------------------- MODULE RiskGate -------------------------------
(***************************************************************************)
(* The circuits that stop new entries: RiskManager (src/core/               *)
(* risk_manager.py), what it persists (src/core/runtime_state.py), and the  *)
(* engine that feeds it (src/core/engine.py): every price tick evaluates the*)
(* drawdown circuits, every entry passes can_enter, every exit of the bot is*)
(* reported to on_trade_closed, a restart rebuilds what it can.             *)
(*                                                                          *)
(* Equity is a small integer with the initial capital near 100, so that a   *)
(* drawdown is a percentage rounded down, and integer limits compare as the *)
(* code's fractions do.  Equity moves with the price of a held symbol only. *)
(* The checks of can_enter that keep no state only reject: the daily trade   *)
(* cap is a choice, and a gate that passes may still end without a           *)
(* submission (exposure, leverage, confidence).                             *)
(***************************************************************************)
EXTENDS Integers, FiniteSets

CONSTANTS
    Symbols,
    NoSymbol,      \* no flatten is pending
    Levels,        \* equity values a tick may lead to
    Initial,       \* initial capital
    Pnls,          \* realised PnL of an exit
    MaxPositions,  \* risk.max_positions
    MaxStops,      \* risk.max_daily_stop_losses
    CbPct,         \* risk.circuit_breaker_drawdown_pct
    Recovery,      \* that limit times risk.circuit_breaker_recovery_pct
    DailyDdPct,    \* portfolio_governance.daily_drawdown_circuit_pct
    DailyLossPct,  \* risk.max_daily_loss_pct
    MaxDay, MaxEntries, MaxCrashes   \* bounds

ASSUME NoSymbolAssumption == NoSymbol \notin Symbols
ASSUME LimitsAssumption == /\ MaxPositions \in Nat /\ MaxStops \in Nat
                           /\ MaxDay \in Nat \ {0}
                           /\ MaxEntries \in Nat /\ MaxCrashes \in Nat
ASSUME AmountsAssumption == /\ Levels \subseteq Nat \ {0} /\ Initial \in Levels
                            /\ Pnls \subseteq Int
                            /\ CbPct \in Nat /\ Recovery \in Nat
                            /\ DailyDdPct \in Nat /\ DailyLossPct \in Nat

NoDay == 0                        \* an empty date string
Days == 1..MaxDay

VARIABLES
    day,          \* the UTC day
    \* ---- PortfolioState
    equity, peak, dailyPeak, dailyPnl, resetDay,
    positions,    \* symbols of the book
    \* ---- live entries submitted and not yet filled, rows of the trades table
    resting, entries, stopsToday, pnlToday,
    open,         \* symbols with an open row
    waiting,      \* symbols with a row in close_pending_reconciliation
    \* ---- RiskManager: breaker, stop streak, daily drawdown circuit
    cbOn, cbDay, lastDd,
    stopCount, stopDay, stopOn,
    ddOn, ddDay, ddPeak, ddUsed,
    \* ---- TradingEngine: the deferred flatten and the one that runs
    pendingFlatten, flattening,
    \* ---- the database: runtime_state and the latest portfolio snapshot
    saved, snap,
    crashes,
    \* ---- history
    mustHalt,     \* a drawdown trip that neither a recovery nor a new day ended
    flattens,     \* flattens the daily circuit asked for today, in this process
    botStops,     \* stop losses the bot itself executed today
    booked        \* PnL of today's closes of positions of the book, until a restart

portfolioVars == <<equity, peak, dailyPeak, dailyPnl, resetDay>>
rowVars == <<entries, stopsToday, pnlToday, booked>>
breakerVars == <<cbOn, cbDay, lastDd>>
streakVars == <<stopCount, stopDay, stopOn>>
dailyVars == <<ddOn, ddDay, ddPeak, ddUsed>>
flattenVars == <<pendingFlatten, flattening>>
storeVars == <<saved, snap>>
bookVars == <<positions, open, waiting>>
vars == <<day, portfolioVars, bookVars, resting, rowVars, breakerVars, streakVars,
          dailyVars, flattenVars, storeVars, crashes, mustHalt, flattens, botStops>>

PortfolioTypes == /\ day \in Days /\ resetDay \in Days
                  /\ equity \in Levels /\ peak \in Levels /\ dailyPeak \in Levels
                  /\ dailyPnl \in Int
BookTypes == /\ positions \subseteq Symbols
             /\ open \subseteq Symbols /\ waiting \subseteq Symbols
             /\ resting \subseteq Symbols
             /\ entries \in 0..MaxEntries /\ stopsToday \in Nat /\ pnlToday \in Int
BreakerTypes == cbOn \in BOOLEAN /\ cbDay \in Days \cup {NoDay} /\ lastDd \in Nat
StreakTypes == /\ stopCount \in Nat /\ stopDay \in Days \cup {NoDay}
               /\ stopOn \in BOOLEAN
DailyTypes == /\ ddOn \in BOOLEAN /\ ddDay \in Days \cup {NoDay}
              /\ ddPeak \in Levels \cup {0} /\ ddUsed \in BOOLEAN
FlattenTypes == pendingFlatten \in Symbols \cup {NoSymbol} /\ flattening \subseteq Symbols
StoreTypes == /\ saved \in [cbOn : BOOLEAN, cbDay : Days \cup {NoDay},
                            ddOn : BOOLEAN, ddDay : Days \cup {NoDay}]
              /\ snap \in [equity : Levels, peak : Levels, dailyPeak : Levels,
                           dailyPnl : Int, resetDay : Days, positions : SUBSET Symbols]
HistoryTypes == /\ crashes \in 0..MaxCrashes /\ mustHalt \in BOOLEAN
                /\ flattens \in Nat /\ botStops \in Nat /\ booked \in Int

TypeOK == /\ PortfolioTypes /\ BookTypes /\ BreakerTypes /\ StreakTypes
          /\ DailyTypes /\ FlattenTypes /\ StoreTypes /\ HistoryTypes

Init ==
    /\ day = 1 /\ resetDay = 1
    /\ equity = Initial /\ peak = Initial /\ dailyPeak = Initial
    /\ dailyPnl = 0 /\ pnlToday = 0 /\ booked = 0
    /\ positions = {} /\ open = {} /\ waiting = {} /\ resting = {}
    /\ entries = 0 /\ stopsToday = 0
    /\ cbOn = FALSE /\ cbDay = NoDay /\ lastDd = 0
    /\ stopCount = 0 /\ stopDay = NoDay /\ stopOn = FALSE
    /\ ddOn = FALSE /\ ddDay = NoDay /\ ddPeak = 0 /\ ddUsed = FALSE
    /\ pendingFlatten = NoSymbol /\ flattening = {}
    /\ saved = [cbOn |-> FALSE, cbDay |-> NoDay, ddOn |-> FALSE, ddDay |-> NoDay]
    /\ snap = [equity |-> Initial, peak |-> Initial, dailyPeak |-> Initial,
               dailyPnl |-> 0, resetDay |-> 1, positions |-> {}]
    /\ crashes = 0 /\ mustHalt = FALSE /\ flattens = 0 /\ botStops = 0

-----------------------------------------------------------------------------
MaxOf(m, n) == IF m > n THEN m ELSE n

\* A drawdown from p to e in percent, rounded down.
Drawdown(p, e) == IF p > e THEN ((p - e) * 100) \div p ELSE 0

\* Mutant of Marked: the first tick of a day empties the daily peak.
MarkedFromZero(e) ==
    /\ equity' = e
    /\ peak' = MaxOf(peak, e)
    /\ resetDay' = day
    /\ dailyPeak' = IF resetDay = day THEN MaxOf(dailyPeak, e) ELSE 0

\* _check_daily_reset, then _update_peak_and_drawdown at equity e.
Marked(e) ==
    /\ equity' = e
    /\ peak' = MaxOf(peak, e)
    /\ resetDay' = day
    /\ dailyPeak' = IF resetDay = day THEN MaxOf(dailyPeak, e) ELSE MaxOf(equity, e)

DailyPnl == IF resetDay = day THEN dailyPnl ELSE 0

\* Mutant of Credited: the day's reset comes after the credit.
CreditedThenReset(pnl) == IF resetDay = day THEN dailyPnl + pnl ELSE 0

\* remove_position resets the day's PnL, then credits the exit to it.
Credited(pnl) == DailyPnl + pnl

\* Mutant of BreakerHolds: the recovery band is ignored.
BreakerHoldsAtLimit(d) == cbOn /\ cbDay = day /\ d >= CbPct

\* is_circuit_breaker_tripped with drawdown d; otherwise it resets the breaker.
BreakerHolds(d) == cbOn /\ cbDay = day /\ d >= Recovery

SetBreaker(on) == /\ cbOn' = on
                  /\ cbDay' = IF on THEN day ELSE NoDay

\* _is_daily_stop_streak_blocked; on a new day the streak starts again.
StreakHolds == MaxStops > 0 /\ stopDay = day /\ stopOn

StreakOfToday == /\ stopCount' = IF stopDay = day THEN stopCount ELSE 0
                 /\ stopOn' = (stopDay = day /\ stopOn)
                 /\ stopDay' = day

-----------------------------------------------------------------------------
\* Mutant of FlattenDue: the request is not consumed.
FlattenDueAgain(dry) == dry

\* request_daily_dd_flatten, asked after each tick.
FlattenDue(dry) == dry /\ ~ddUsed

(***************************************************************************)
(* A price tick of symbol s (_on_market_event): the portfolio is marked, the*)
(* breaker and the daily circuit are evaluated, and either may leave a      *)
(* flatten to be run once the symbol's lock is released.                    *)
(***************************************************************************)
Tick(s, e) ==
    /\ s \in positions \/ e = equity
    /\ Marked(e)
    /\ dailyPnl' = DailyPnl
    /\ LET d == Drawdown(peak', e)
           trips == ~BreakerHolds(d) /\ d >= CbPct
           today == ddDay = day
           high == IF today THEN MaxOf(ddPeak, e) ELSE e
           dry == today /\ (ddOn \/ Drawdown(high, e) >= DailyDdPct)
           asks == FlattenDue(dry)
       IN /\ lastDd' = d
          /\ SetBreaker(BreakerHolds(d) \/ trips)
          /\ mustHalt' = (d >= Recovery /\ (mustHalt \/ trips))
          /\ ddDay' = day /\ ddPeak' = high /\ ddOn' = dry
          /\ ddUsed' = (today /\ (ddUsed \/ asks))
          /\ pendingFlatten' = IF asks \/ trips THEN s ELSE pendingFlatten
          /\ flattens' = IF asks THEN flattens + 1 ELSE flattens
    /\ UNCHANGED <<day, bookVars, resting, rowVars, streakVars, flattening,
                   storeVars, crashes, botStops>>

(***************************************************************************)
(* can_enter for a signal of symbol s and, if it approves and nothing after *)
(* it rejects, the submission of the entry.  A trip by a drawdown that no    *)
(* tick has seen (a suspended position took its notional out of the equity)  *)
(* is lifted by the next gate, which asks for the drawdown of the last tick: *)
(* mustHalt counts it from that tick.                                        *)
(***************************************************************************)
Gate(s, capped, submit) ==
    LET free == /\ ~BreakerHolds(lastDd) /\ ~StreakHolds /\ ~capped
                /\ s \notin positions /\ Cardinality(positions) < MaxPositions
        losing == free /\ MaxOf(-dailyPnl, 0) * 100 >= DailyLossPct * equity
        deep == free /\ ~losing /\ Drawdown(peak, equity) >= CbPct
        reached == free /\ ~losing /\ ~deep
        high == IF ddDay = day THEN MaxOf(ddPeak, equity) ELSE equity
        dry == Drawdown(high, equity) >= DailyDdPct
    IN
    /\ submit => reached /\ ~dry /\ entries < MaxEntries
    /\ SetBreaker(BreakerHolds(lastDd) \/ losing \/ deep)
    /\ mustHalt' = (mustHalt \/ (deep /\ lastDd >= Recovery))
    /\ IF BreakerHolds(lastDd) \/ MaxStops = 0 THEN UNCHANGED streakVars
                                               ELSE StreakOfToday
    /\ IF reached
          THEN /\ ddDay' = day /\ ddPeak' = high
               /\ ddOn' = ((ddDay = day /\ ddOn) \/ dry)
          ELSE UNCHANGED <<ddDay, ddPeak, ddOn>>
    /\ resting' = IF submit THEN resting \cup {s} ELSE resting
    /\ entries' = IF submit THEN entries + 1 ELSE entries
    /\ UNCHANGED <<day, portfolioVars, bookVars, stopsToday, pnlToday, booked, lastDd,
                   ddUsed, flattenVars, storeVars, crashes, flattens, botStops>>

\* The exchange fills a resting entry and the fill callback credits it.
Fills(s) ==
    /\ s \in resting
    /\ resting' = resting \ {s}
    /\ positions' = positions \cup {s} /\ open' = open \cup {s}
    /\ Marked(equity) /\ dailyPnl' = DailyPnl
    /\ UNCHANGED <<day, waiting, rowVars, breakerVars, streakVars, dailyVars, flattenVars,
                   storeVars, crashes, mustHalt, flattens, botStops>>

\* The order ends without a fill (refused, cancelled, timed out).
Lapses(s) ==
    /\ s \in resting
    /\ resting' = resting \ {s}
    /\ UNCHANGED <<day, portfolioVars, bookVars, rowVars, breakerVars, streakVars,
                   dailyVars, flattenVars, storeVars, crashes, mustHalt, flattens, botStops>>

-----------------------------------------------------------------------------
\* _save_portfolio_snapshot.
Snapshot == snap' = [equity |-> equity', peak |-> peak', dailyPeak |-> dailyPeak',
                     dailyPnl |-> dailyPnl', resetDay |-> resetDay',
                     positions |-> positions']

\* persist_runtime_state.
Persisted == saved' = [cbOn |-> cbOn, cbDay |-> cbDay, ddOn |-> ddOn, ddDay |-> ddDay]

\* remove_position of a symbol the book holds.
Leaves(s, pnl) ==
    /\ s \in positions
    /\ positions' = positions \ {s}
    /\ Marked(equity) /\ dailyPnl' = Credited(pnl)
    /\ booked' = IF crashes = 0 THEN booked + pnl ELSE booked

\* update_trade_exit of an exit of today or, if not, of an earlier day: stop says if
\* exit_reason is a stop loss.
RowClosed(pnl, stop, today) ==
    /\ pnlToday' = IF today THEN pnlToday + pnl ELSE pnlToday
    /\ stopsToday' = IF today /\ stop THEN stopsToday + 1 ELSE stopsToday

\* on_trade_closed: _record_daily_stop_loss.
StopRecorded ==
    LET n == (IF stopDay = day THEN stopCount ELSE 0) + 1
    IN /\ stopCount' = n
       /\ stopDay' = day
       /\ stopOn' = ((stopDay = day /\ stopOn) \/ n >= MaxStops)

\* _execute_exit: the open row is closed, the snapshot is forced, the circuits are
\* persisted.
Exit(s, pnl, stop) ==
    /\ Leaves(s, pnl)
    /\ IF s \in open THEN RowClosed(pnl, stop, TRUE)
                     ELSE UNCHANGED <<pnlToday, stopsToday>>
    /\ open' = open \ {s}
    /\ Snapshot
    /\ IF stop /\ MaxStops > 0 THEN StopRecorded ELSE UNCHANGED streakVars
    /\ botStops' = IF stop /\ s \in open THEN botStops + 1 ELSE botStops
    /\ Persisted
    /\ flattening' = flattening \ {s}
    /\ UNCHANGED <<day, waiting, resting, entries, breakerVars, dailyVars, pendingFlatten,
                   crashes, mustHalt, flattens>>

(***************************************************************************)
(* A position the account no longer holds (_handle_orphan_local).  Its row   *)
(* is open or, after a restart, one that waits; that of a closed trade is    *)
(* left alone.  The fills of the account may be of an earlier day.           *)
(***************************************************************************)
Dated(today) == today \/ day > 1

\* reconcile_trigger_close_once finds the fills: row and book are closed (a stop reads
\* stop_loss_native), the risk manager is not told, nothing is persisted.
NativeClose(s, pnl, stop, today) ==
    /\ Dated(today) /\ s \in open \cup waiting
    /\ Leaves(s, pnl) /\ RowClosed(pnl, stop, today)
    /\ open' = open \ {s}
    /\ waiting' = IF s \in open THEN waiting ELSE waiting \ {s}
    /\ UNCHANGED <<day, resting, entries, breakerVars, streakVars, dailyVars,
                   flattenVars, storeVars, crashes, mustHalt, flattens, botStops>>

\* It does not: the row waits and suspend_position takes the position out of the book,
\* and with it its notional out of the equity. (Bound: one waiting row a symbol.)
Suspend(s, e) ==
    /\ s \in positions /\ s \in open \cup waiting
    /\ s \in open => s \notin waiting
    /\ e <= equity /\ equity' = e
    /\ positions' = positions \ {s}
    /\ open' = open \ {s} /\ waiting' = waiting \cup {s}
    /\ UNCHANGED <<day, peak, dailyPeak, dailyPnl, resetDay, resting, rowVars, breakerVars,
                   streakVars, dailyVars, flattenVars, storeVars, crashes, mustHalt,
                   flattens, botStops>>

\* remove_position of a symbol the book does not hold returns after the day's reset.
Unknown(s) ==
    /\ s \notin positions
    /\ resetDay' = day /\ dailyPnl' = DailyPnl
    /\ dailyPeak' = IF resetDay = day THEN dailyPeak ELSE equity
    /\ UNCHANGED <<positions, equity, peak, booked>>

\* _retry_close_pending_trades finds the fills of a waiting row. It closes the row and
\* removes what the book holds of the symbol: nothing, unless a restart brought the
\* position back or the symbol was entered again.
RetryClose(s, pnl, stop, today) ==
    /\ Dated(today) /\ s \in waiting
    /\ RowClosed(pnl, stop, today)
    /\ waiting' = waiting \ {s}
    /\ Leaves(s, pnl) \/ Unknown(s)
    /\ UNCHANGED <<day, open, resting, entries, breakerVars, streakVars, dailyVars,
                   flattenVars, storeVars, crashes, mustHalt, flattens, botStops>>

\* The deferred flatten exits every position but the symbol that asked for it.
StartFlatten ==
    /\ pendingFlatten # NoSymbol
    /\ flattening' = flattening \cup (positions \ {pendingFlatten})
    /\ pendingFlatten' = NoSymbol
    /\ UNCHANGED <<day, portfolioVars, bookVars, resting, rowVars, breakerVars,
                   streakVars, dailyVars, storeVars, crashes, mustHalt, flattens, botStops>>

\* A position that is gone, has no price or whose exit fails is passed over.
SkipFlatten(s) ==
    /\ s \in flattening
    /\ flattening' = flattening \ {s}
    /\ UNCHANGED <<day, portfolioVars, bookVars, resting, rowVars, breakerVars,
                   streakVars, dailyVars, pendingFlatten, storeVars, crashes,
                   mustHalt, flattens, botStops>>

\* The throttled snapshot at the end of an event (_maybe_save_snapshot).
SaveSnapshot ==
    /\ UNCHANGED <<portfolioVars, bookVars>>
    /\ Snapshot /\ snap' # snap
    /\ UNCHANGED <<day, resting, rowVars, breakerVars, streakVars, dailyVars,
                   flattenVars, saved, crashes, mustHalt, flattens, botStops>>

\* 00:00 UTC: every daily count of the trades table starts again.
NewDay ==
    /\ day < MaxDay
    /\ day' = day + 1
    /\ stopsToday' = 0 /\ pnlToday' = 0 /\ booked' = 0
    /\ mustHalt' = FALSE /\ flattens' = 0 /\ botStops' = 0
    /\ UNCHANGED <<portfolioVars, bookVars, resting, entries, breakerVars,
                   streakVars, dailyVars, flattenVars, storeVars, crashes>>

-----------------------------------------------------------------------------
(***************************************************************************)
(* The process dies and starts: _recover_state restores the snapshot and    *)
(* today's rows, restore_runtime_state the circuits, and start evaluates the*)
(* breaker before the first tick.                                           *)
(***************************************************************************)
\* from_dict restores the positions of the snapshot, _sync_open_trades_to_portfolio
\* adds the open trades: a trade closed or suspended after the snapshot comes back.
RestoreBook == /\ positions' = snap.positions \cup open
               /\ UNCHANGED <<open, waiting>>

\* reconcile_peaks: a deep drawdown without positions is taken for bad accounting.
RestoredPeak ==
    LET p == MaxOf(snap.peak, snap.equity)
    IN IF /\ (p - snap.equity) * 100 > 15 * p
          /\ 2 * snap.equity >= Initial /\ positions' = {}
       THEN MaxOf(snap.equity, Initial) ELSE p

\* Mutant of RestoreStreak: a restart starts the streak again.
RestoreStreakAfresh == stopDay' = NoDay /\ stopCount' = 0 /\ stopOn' = FALSE

\* restore_daily_stop_streak: whatever was persisted, the table is counted.
RestoreStreak == /\ stopDay' = day
                 /\ stopCount' = stopsToday
                 /\ stopOn' = (MaxStops > 0 /\ stopsToday >= MaxStops)

\* restore_snapshot, then seed_daily_drawdown with the snapshot's daily peak.
RestoreDaily ==
    LET high == MaxOf(snap.dailyPeak, snap.equity)
    IN /\ ddDay' = day /\ ddPeak' = high /\ ddUsed' = FALSE
       /\ ddOn' = \/ saved.ddDay = day /\ saved.ddOn
                  \/ Drawdown(high, snap.equity) >= DailyDdPct

\* restore_snapshot, then start: the breaker is asked before any drawdown is
\* known, and evaluated only if it does not hold.
RestoreBreaker ==
    LET holds == saved.cbDay = day /\ saved.cbOn /\ 0 >= Recovery
        d == Drawdown(peak', snap.equity)
    IN /\ lastDd' = IF holds THEN 0 ELSE d
       /\ SetBreaker(holds \/ d >= CbPct)
       /\ mustHalt' = (mustHalt \/ d >= CbPct)

Restart ==
    /\ crashes < MaxCrashes
    /\ crashes' = crashes + 1
    /\ RestoreBook
    /\ equity' = snap.equity /\ peak' = RestoredPeak
    /\ resetDay' = day
    /\ dailyPeak' = IF snap.resetDay = day THEN MaxOf(snap.dailyPeak, snap.equity)
                                           ELSE snap.equity
    /\ dailyPnl' = MaxOf(snap.dailyPnl, pnlToday)
    /\ RestoreStreak /\ RestoreDaily /\ RestoreBreaker
    /\ pendingFlatten' = NoSymbol /\ flattening' = {}
    /\ flattens' = 0 /\ booked' = 0
    /\ UNCHANGED <<day, resting, entries, stopsToday, pnlToday, storeVars, botStops>>

-----------------------------------------------------------------------------
Next ==
    \/ \E s \in Symbols :
          \/ \E e \in Levels : Tick(s, e)
          \/ \E capped, submit \in BOOLEAN : Gate(s, capped, submit)
          \/ Fills(s) \/ Lapses(s)
          \/ \E pnl \in Pnls, stop \in BOOLEAN :
                \/ Exit(s, pnl, stop)
                \/ \E today \in BOOLEAN : \/ NativeClose(s, pnl, stop, today)
                                        \/ RetryClose(s, pnl, stop, today)
          \/ \E e \in Levels : Suspend(s, e)
          \/ SkipFlatten(s)
    \/ StartFlatten \/ SaveSnapshot \/ NewDay \/ Restart

Spec == Init /\ [][Next]_vars

-----------------------------------------------------------------------------
(***************************************************************************)
(* Properties.                                                              *)
(***************************************************************************)
Submits == entries' # entries

\* "block new entries after N stop_loss exits/day (UTC)", of the stop losses the bot
\* executes itself, which is all the risk manager is told of between two starts:
\* restarts, midnights, closes by the exchange and entries in flight never let one
\* more entry through.
BotStopsBlock == [][Submits /\ MaxStops > 0 => botStops < MaxStops]_vars

\* After a drawdown trip the process that tripped submits no entry before the drawdown
\* was seen below the recovery band or the day ended. A restart forgets the trip.
TripHaltsUntilRestart == [][Submits => ~mustHalt \/ crashes > 0]_vars

\* "Max 3% daily loss": a process that was not restarted submits an entry only while
\* the losses of the positions that left the book today through an exit or a close by
\* the exchange stay below the limit. (remove_position never books the loss of a
\* position that was suspended before its close was found.)
LossReached == MaxOf(-booked, 0) * 100 >= DailyLossPct * equity
DailyLossBlocksUntilRestart == [][Submits => ~LossReached \/ crashes > 0]_vars

\* "Return True at most once per daily-DD trip": one process asks for at most one
\* flatten a day, however often ticks, gates and midnights interleave.
OneFlattenADay == flattens <= 1
=============================================================================
