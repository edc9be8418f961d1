# Formal models of the trading bot

TLA+ modules, TLC runs and TLAPS proofs about the live trading path of the bot, two of
the studies that run beside it, and the processes around it. Paths are relative to the
repository root.

| module | models | checked by |
|---|---|---|
| `OrderManager`, `TradeLifecycle` | the order path, and what the trades table promises | `ops`, `restart`, `restart_credit`; `OrderManager_proofs` |
| `RiskGate` | the circuits before an entry | `circuits`; `RiskGate_proofs` |
| `Reconciler` | the repair of book and account | `passes`; `Reconciler_proofs` |
| `NativeProtection`; `NativeProtection_proofs` | the stop and target that rest on the exchange | `stops`, `purge`, `failed_close` |
| `CarryShadow`, `EpisodeLifecycle` | the carry study, and what its table promises | `study`, `verdict`; `CarryShadow_proofs` |
| `BorosShadow` | the Boros spread study | `books`; `BorosShadow_proofs` |
| `BotProcess` | lock file, supervisor and liveness watchdog | `lock`; `BotProcess_proofs` |

`MC<module>` holds the constants of the module's runs, `<module>_<run>.cfg` their values.
`LeastElement` is a lemma on natural numbers that the proofs share.

## 1. The system

One asyncio event loop runs the trading bot. A market event enters
`TradingEngine._on_market_event`, passes filters, and ends in an entry
(`_process_entry_signal` -> `ExecutionEngine.enter_position`) or an exit
(`_execute_exit` -> `ExecutionEngine.close_position`). Beside it run the OMS poller
(`ExecutionEngine._oms_loop`), the reconciler, periodic background tasks and the kill
switch. `PortfolioState` and `ExecutionEngine` have asyncio locks, but no lock is held
across a network call: a *step* of a model is the code between two awaits that really
suspend.

| component | state | operations | talks to |
|---|---|---|---|
| Order execution and OMS (`src/core/execution.py`, `src/core/order_lifecycle.py`, `src/exchanges/hyperliquid_live.py`) | `_live_orders`, `_open_trades`, `_blocked_symbols`, `_kill_switch_active`, the poller task | enter, close, poll, time out, kill, reload | exchange over REST; trades table; engine by callback |
| Trades table (`src/data/database.py`) | one row per live order: status, filled size, exchange id | save entry, update tracking/status/exit, load open and pending rows | written by execution, read at restart and by the reconciler |
| Trading engine (`src/core/engine.py`) | symbol locks, pending flatten, snapshot timer | market event, fill callback, exit, recovery, shutdown | calls everything |
| Portfolio (`src/core/portfolio.py`) | positions, cash, daily counters | `apply_entry_fill`, `remove_position`, suspend, cancel, to/from dict | written by engine callback, exit, recovery, reconciler |
| Reconciliation (`src/core/reconciliation.py`, `src/core/trigger_reconcile.py`) | halted symbols, close-pending trades | orphan local, orphan exchange, adopt, mismatch, retry | exchange positions; portfolio; trades table |
| Native protection (`src/core/native_protection.py`) | stop/target order ids per symbol | ensure, replace, purge | exchange trigger orders |
| Risk circuits (`src/core/risk_manager.py`, `src/core/risk_state.py`, `src/core/runtime_state.py`) | daily breaker, drawdown circuit, stop streak, persisted snapshot | `can_enter`, `check_drawdown`, `evaluate_daily_drawdown`, `on_trade_closed`, restore | engine asks before every entry and after every exit |
| Signal pipeline (`src/core/signal_pipeline.py`, `order_router.py`, ...) | scores, cooldowns | filter, size | called by the engine |
| Event circuits (`volatility_circuit.py`, `funding_blackout.py`, liquidation modules) | windows of samples | record, query | called by the engine |
| Carry shadow (`src/research/carry_shadow`) | episodes in memory and as SQLite rows, fill statistics, the death flag | entry, funding, exit, margin sweep, replay of an outage, gates, boot | public feeds; its own process |
| Boros shadow (`src/boros_shadow`) | trades, marks, funding and close rows, stored snapshots | hourly pass, boot with backfill | public REST; its own process |
| Process supervision (`src/utils/instance_lock.py`, `run_with_recovery.py`, `ecosystem.config.js`, the watchdog under `scripts/research`) | lock file, restart count, alert flag | start, acquire, release, restart, give up, alert | starts the bot; reads its lock and log |
| Feeds, storage, strategies, backtest, dashboard | | | no order state |

`PROJECT.json` lists the same components with their status.

### What is hard

* **Interleaving.** While an entry, a close, a cancel or a poll awaits the exchange,
  callbacks, other symbols' coroutines, the reconciler and the kill switch run.
* **Restarts.** What the process knows of an order (`_portfolio_applied_fill`, seen
  fingerprints, the latch) is only partly in the table and the last snapshot.
* **An exchange with its own clock.** Orders fill, are dropped or refused between any
  two calls; an answer may be lost although the request was executed.
* **Timeouts.** An order is cancelled on what was read before the cancel.
* **Several commits for one event.** Each SQLite write of the studies commits alone, so a
  handler can end between two of its writes and the next boot reads what it finds.
* **Two processes and a path.** Nothing holds the lock file but its name.
* **Two ledgers.** The book (`PortfolioState`) and the account must agree, although
  fills are learned by polling and credited by a task of their own.

`PROJECT.json` "hazards" names each at the line where it bites, with the property
that watches it.

## 2. The order path: `OrderManager.tla`

The detailed model of the live order path. One action per step between two awaits:

| actions | code |
|---|---|
| `EnterSubmit`, `EnterRaises`, `EnterAmbiguous`, `EnterRests`, `EnterFilled` | `enter_position` up to its submission, and each way it can end |
| `Unblock` | the reconciler's `unblock_symbol` when exchange and book agree |
| `PollRound`, `PollStatus`, `PollAnswered`, `PollFailed` | one turn of `_oms_loop`: the list of records, the status query, the answer processed by `_poll_one_order` and its helpers (`ProcessSnapshot` = `PollSkip`, `PollFilled`, `PollTerminal`, `PollPartial`, `PollOpen`) |
| `TimeoutRollback`, `TimeoutKeepPartial` | `_handle_open_timeout`, `_handle_partial_timeout` after the cancel returned |
| `OrderAges` | `live_order_timeout_s` passes |
| `Callback` | `_handle_oms_status_change` -> `apply_entry_fill` |
| `ExitWithoutTrade`, `ExitSubmit`, `ExitClosed`, `ExitFails` | `_execute_exit` + `close_position` |
| `SaveSnapshot` | `_maybe_save_snapshot` |
| `KillBegin`, `KillCancelAll`, `KillFlatten`, `KillClear` | `kill_switch`, one action per await |
| `CrashRestart` | death at any await or between two commits (`RowsAtDeath`), then `open`, `load_open_trades`, `load_pending_orders`, `_recover_state`, `_sync_open_trades_to_portfolio` |
| `ExRest` ... `ExRefuseClose` | the exchange (external) |

State maps by name: `tracked/status/filled/handled/seen/credited/aged` are the fields of
a record in `_live_orders`; `openTrade` is `_open_trades`; `closing/closeTrade/closeSize`
are the locals of `close_position` while it awaits; `book` is
`PortfolioState._positions`; `snap` the last saved snapshot; `db/dbFilled` the row;
`round/pollAt/pollOrder/pollCanceled` the poller's position. `exSt/exFill/exPos` are the
exchange's truth. `closeLost` is a history variable.

**Abstractions.** Every position is long and a size is a number of lots; prices, fees
and PnL are left out; a trade id is the number of its order; the entry debounce, which
only delays an entry, is left out; paper mode is left out. A fill list that lags behind
the status, a close request that reaches the exchange after its reply timed out, and a
failing database are not modelled.

**The scheduled callback.** `create_task(callback)` runs in the next turn of the loop,
before any answer that was not ready when it was scheduled. The guard `CallbacksRan` on
the exchange's and the poller's resumptions says so.

**Deaths between two commits.** `enter_position` writes the row (`save_trade_entry`) and then,
in a second commit, its exchange id (`update_trade_order_tracking`); an entry's or an exit's
row is written before the snapshot. In memory the steps are one, as no await lies between, so
only a death can tell the commits apart: `RowsAtDeath`, the first thing `CrashRestart` does, is
the choice of a prefix. A resting entry cut after its first commit leaves a *nameless* row: it
is working and has no exchange id, so `get_pending_live_orders` filters it out, and no reload,
poll or timeout ever settles it. `WorkingRowsPolled` is about the rows that carry an id and
names this one as its exception; the hazard list has it too.

`TradeLifecycle.tla` is what the trades table promises: absent -> working -> held ->
closed, or void without a fill; recorded fills never shrink. `OrderManager` implements
it (`RowsImplementLifecycle`, a refinement mapping from row statuses to phases).

### Runs

| run | what is asked | bounds |
|---|---|---|
| `ops` | five invariants, two action properties and one liveness property with every interleaving and a kill switch | 1 symbol, 2 orders of 2 lots, 1 kill, no restart |
| `restart` | table life cycle and no working row with an exchange id forgotten across a restart, cut at any await or commit | 1 symbol, 2 orders of 2 lots, 1 restart |
| `restart_credit` | violation: `NoPhantom` after a restart | 1 order of 2 lots, 1 restart |

Two lots are the least for a partial fill; two orders on one symbol are the least for an
old order to disturb a newer trade (`_rollback_order` cancels by symbol), and orders on
different symbols share only the poller's round, which one symbol with two orders
already makes longer than one. A second restart or kill meets states a first one
already meets. `CHECK_DEADLOCK FALSE`: with its orders used up the bot may stop.

What they show: the table's life cycle, the correspondence of trades and rows and the
backing of records by real fills survive everything modelled, and
the poller owns every working row that carries an exchange id unless the kill switch is latched
(`WorkingRowsPolled`). The two ledgers agree
(`NoPhantom`) and no fill is forgotten (`OpenRowCredited`) *without* a restart and when a
"filled" IOC order is filled whole. The violation is listed as a finding: the credited size
of a record is not persisted, so a restart can credit the same lots twice.

Two more disagreements are in the model and are asked for by no run. An immediate fill is
booked at the size asked for: with `PartialIoc = TRUE` the exchange may fill an IOC entry for
a part, and `NoPhantom` fails; the runs have `FALSE`. And `enter_position` does not read the
kill latch: an entry that is between its checks and its submission when the kill switch
starts is submitted after the flatten (`EnterSubmit` has no guard on it).

### Fairness

`WF(Oms)`: the poller runs as long as the process does; `WF(Callback)`: a scheduled
task runs; `WF(OrderAges)`: time passes. Nothing is assumed of the exchange: a query may
fail for ever and an order never trade. `WorkingRowsSettle` is therefore due to the
timeout alone, and has the kill switch as its one exception, which stops the poller.

### Proofs: `OrderManager_proofs.tla`

For all symbols, orders, sizes and any number of restarts and kills
(`Assumptions` are the five ASSUMEs on constants in `OrderManager`):

* `Invariance`: `Spec => []IInv`.
* `TypeCorrect`: `Spec => []TypeOK`.
* `ExitsAreOfOpenRows`: `Spec => []ExitsCloseOpenRows`.
* `KillFreezes`: `Spec => KillFreezesWorkingRows`.
* `RowsRefineLifecycle`: `Spec => RowsImplementLifecycle`, the refinement.
* `CreditIsBacked`: `Spec => []CreditBacked`, assuming `PartialIoc = FALSE`: with a
  partial IOC fill the code itself records more than was filled.
* `NoRowForgotten`: `Spec => []WorkingRowsPolled`, the safety half of `WorkingRowsSettle`:
  what the poller does not own nothing settles. `DeathWrites` and `DeathRows` say what a death
  between two commits leaves: no row that is reloaded is one it wrote.
* `FillsCredited`: `Spec => [](crashes = 0 => OpenRowCredited)`: until the first restart,
  which forgets what the callbacks had credited.
* `NoPhantomLots`: `Spec => [](crashes = 0 => NoPhantom)`, assuming `PartialIoc = FALSE`;
  `restart_credit` shows what happens after a restart.

None of these is inductive alone. A filled snapshot turns a row open only if the row
was working, which needs the record to agree with its row; that needs an order in
flight to have left no trace, which needs the exchange's state and the entry's answer
to agree; an exit closes an open row only if no two symbols or an exit and an open
trade name the same row. `IInv` is the conjunction of these parts, each a named
predicate of one order or one symbol with a lemma per action. An action property or a
refinement step then follows from `IInv` and the action alone.

`FillsCredited` adds that a row which holds fills agrees with its record and that what the
record gained is credited or waits in a task. `NoPhantomLots` is about all orders of a symbol at
once. Its invariant `Ledgers` says that what the orders filled and the book was not told of
(`Due`), summed, and what the book claims (`Claim`: an executed close has left the account, one
on its way will) fit in the account. The sum is stated without recursion: some sequence of
partial sums starts at 0, grows by one order's share at a time and ends at the sum (`SumsTo`).
A fill, or a callback, shifts the tail of that sequence (`SumMoves`); that a sum of naturals is
not negative follows from the first negative partial sum, which exists by `LeastElement` and
cannot (`SumOfNaturals`). It is needed where a close arrives: the account holds all that it asks
for, so nothing of the close is lost.

Only model-checked: `WorkingRowsSettle` (liveness). After a restart `NoPhantom` is false and
`OpenRowCredited` is false too (a restart takes back what was credited, and closes no row).

## 3. The circuits before an entry: `RiskGate.tla`

`RiskManager.can_enter` is the choke point of every entry. What it reads is kept current
by ticks, exits and restarts; the model has one action for each.

| actions | code |
|---|---|
| `Tick` | `_on_market_event` up to the strategies: `update_price`, `check_drawdown`, `evaluate_daily_drawdown`, `request_daily_dd_flatten`, the request of a deferred flatten |
| `Gate` | `can_enter` and, if it approves, the submission: nothing between them suspends |
| `Fills`, `Lapses` | the fill callback credits a resting entry; the entry ends without a fill |
| `Exit` | `_execute_exit`: `remove_position`, row closed, snapshot, `on_trade_closed`, `persist_runtime_state` |
| `NativeClose` | `reconcile_trigger_close_once` finds the fills of a position the account no longer holds: row and book, not the risk manager |
| `Suspend` | it does not: the row waits (`close_pending_reconciliation`), `suspend_position` takes the position out of the book and its notional out of the equity |
| `RetryClose` | `_retry_close_pending_trades` finds them later: the row is closed with its PnL; `remove_position` credits only what the book holds, else (`Unknown`) it returns after the day's reset |
| `StartFlatten`, `SkipFlatten` | the deferred flatten; its exits are `Exit`, in any order |
| `SaveSnapshot` | `_maybe_save_snapshot` |
| `NewDay` | midnight UTC, which every component notices on its own next call |
| `Restart` | `_recover_state`, `_sync_open_trades_to_portfolio`, `reconcile_peaks`, `restore_runtime_state`, the evaluation of the breaker in `start` |

State maps by name: `equity/peak/dailyPeak/dailyPnl/resetDay/positions` are
`PortfolioState`; `cbOn/cbDay/lastDd` the breaker, `stopCount/stopDay/stopOn` the stop
streak and `ddOn/ddDay/ddPeak/ddUsed` the daily drawdown circuit of `RiskManager`;
`pendingFlatten/flattening` the engine's deferred flatten and the one in progress;
`saved` the row of `runtime_state` and `snap` the last portfolio snapshot;
`stopsToday/pnlToday` are what the queries over today's closed rows return (`today` of a
close says whether the account's fill is of today). `open` and `waiting` are the symbols
with an open row and with one that awaits its close; a position with neither is a phantom
that a restart brought back from an older snapshot. `mustHalt`, `flattens`, `botStops` and
`booked` (the PnL of the positions that left the book today) are history variables.

**Abstractions.** Equity, levels and limits are integers near an initial capital of 100,
so a drawdown is a percentage rounded down and compares with an integer limit as the
code's fraction does. Equity moves with ticks of a held symbol only: fees, slippage and
funding are left out. The checks of `can_enter` that keep no state of their own only
reject: the daily trade cap is the choice `capped`, and an approved gate may submit
nothing (exposure, leverage, confidence). A restart restores the equity of the snapshot.
The reconciler's cancellation of phantom positions, its halts (so a suspended symbol may
be entered again at any time, more than the code allows) and the kill switch are not here.
At most one row of a symbol waits.

### Runs

| run | what is asked | bounds |
|---|---|---|
| `circuits` | `TypeOK`, one flatten a day, bot stops, drawdown trips and losses block entries | 2 symbols, equity 88/94/100, PnL -3/0, 2 entries, 2 days, 1 restart |

Two symbols are the least for a flatten to pass over the one that asked for it and for
an entry to rest while another passes the gate. The levels are: no drawdown, a drawdown
between the recovery band (5) and the limit (10), one that trips. One exit of -3 reaches
the loss limit, one stop the stop limit; the theorems hold for every limit. Two days are
one midnight; a second one would meet what the first leaves behind with other numbers.
The symbols are alike, so `SYMMETRY` is sound (no liveness is checked there). The `VIEW`
merges states that differ only in what nothing reads any more: the store and the daily
queries after the last restart, a flag or streak of an earlier day, counts beyond a limit, and
after the last entry the history that only the properties about entries read.
`CHECK_DEADLOCK FALSE`: with its entries, days and restarts used up the bot may have
nothing left to do.

What they show: within one process, and for bot stops across restarts too, the circuits
hold in every interleaving of ticks, gates, fills, exits, closes by the exchange,
flattens and midnight. What the names of the properties except is what the code does
otherwise, and the model has it: a stop executed at the exchange is not reported to the
streak (`BotStopsBlock` is about stops of the bot); a restart resets a restored drawdown trip
because it asks the breaker before a drawdown is known, and takes the larger of two PnLs,
which hides a loss booked after the snapshot (the two `UntilRestart` properties). A
position that is suspended before its close is found takes its loss with it:
`remove_position` returns early when the retry closes the row, `dailyPnl` never hears of
it and the gate may pass, so the daily loss is stated of the positions that leave the book
(`booked`). A suspension also lowers the equity without a tick: a gate that trips on that
drawdown is undone by the next gate, which asks for the drawdown of the last tick, so
`mustHalt` counts such a trip only once a tick has seen it. (An entry at rest is not a position, so several
may pass the position limit: the model has it, no run asks for it.)

No fairness is assumed: the properties are safety properties.

### Proofs: `RiskGate_proofs.tla`

For all symbols, levels, PnLs, limits and bounds:

* `TypeCorrect`: `Spec => []TypeOK`; its work is that a peak is a level the equity had
  and a drawdown a natural number.
* `BotStops`: `Spec => BotStopsBlock`. `StreakInv`: the bot's stops of today are among the
  table's and, if there were any, the streak is of today, counts them and is on once they
  reach the limit. A restart keeps it because the table counts at least as many.
* `OneFlatten`: `Spec => []OneFlattenADay`. `FlattenInv`: if a flatten was asked for, the
  circuit is of today and consumed. It needs the day: a circuit of yesterday would be
  asked again.
* `DailyLoss`: `Spec => DailyLossBlocksUntilRestart`. `LossInv`: without a restart the
  portfolio's PnL, if its day is today, is that of the positions that left the book today,
  and if its day is over none has left it today yet; then no entry can have a loss to hide.
* `DrawdownHalt`: `Spec => TripHaltsUntilRestart`, assuming `Recovery <= CbPct`, which any
  recovery percentage up to 100 gives (`config/settings.yaml:68` has 50). `HaltInv`: while a halt is due
  the breaker is on, of today, and the last drawdown is not below the recovery band. With a
  recovery band above the limit the next gate would lift the halt.

## 4. The repair of book and account: `Reconciler.tla`

`ExchangeReconciler.reconcile_once` runs once a minute, compares the book with the
account and repairs the book. It suspends at every call of the exchange, and then fill
callbacks, entries and exits of the same symbols run; the exchange moves at any time.

| actions | code |
|---|---|
| `ReadAccount`, `ReadOrders`, `PassFails` | `get_user_state`; `get_open_orders` and the purge; either raises |
| `Retry` | `_retry_close_pending_trades`, one row, up to its fills |
| `StartWalk` | the book is copied, the symbols are told apart |
| `OrphanLocal` | `_handle_orphan_local` up to its fills |
| `FillsMatch`, `CloseMatched`, `CloseReturns` | `reconcile_trigger_close_once` with fills on the tape: the sibling is cancelled, row and book are closed, the protection is cancelled; the caller's halts |
| `StillPending`, `CloseUnknown`, `DropPhantom`, `PhantomCancelled` | no fills: a retry waits on; a position with native protection is suspended; one without is a phantom, dropped from the book and, after an await, cancelled in the table |
| `HaltOnStray`, `Adopt`, `Protected`, `FlattenStray`, `FlattenEnds` | `_handle_orphan_exchange` under its three policies |
| `PassEnds` | mismatches, unblocking, health |
| `Ages` | the last success is older than the threshold |
| `Enter`, `Lapses`, `OmsCredits`, `ExitWithoutTrade`, `ExitSubmits`, `ExitEnds`, `ExitFails` | the order path of section 2, as far as a pass can notice it |
| `ExFills` ... `ExRefusesClose` | the exchange (external) |

State maps by name: `row/base` the row's status and entry time, `book` the positions,
`openTrade/blocked` the executor's, `halted/drift/failures/stale` the health,
`seen/local/todo/orphans/strays/errors` the locals of the pass, `cur` the arguments of the
close it awaits, `pc` where it is suspended. `owed` is the cost that left the cash and has
not come back. `outcome` is a history variable: what came of each stray the pass has handled.
A flattening close fills in full, in part or not at all, and its answer raises or does not,
independently: only an answer that raises halts (`reconciliation.py:400-408`).

**Abstractions.** A trade is one lot. The fill tape is the number of lots ever closed and
an entry time its value when the trade was submitted: a close finds its fills when that
many lots closed since. The walk takes rows and symbols in any order. The policy is
chosen at start; whether a position has native protection is chosen when it is asked.
`liquidation_reconcile_enabled` is on, its default. A call that fails inside the purge or
the protection is logged by them and changes nothing here. Only one pass runs
at a time, and no restart: the passes of the startup and of the kill switch are this one.

### Runs

| run | what is asked | bounds |
|---|---|---|
| `passes` | `TypeOK`, `RowsOwned`, `PendingEndsClosed`, `DriftDealtWith`, `DriftSettles` | 1 symbol, 1 trade, three policies |

One trade already meets every action: it is credited, orphaned, suspended, retried,
adopted and closed from either side, any number of times in any order; its one lot is closed
by a flattening order or is not; failed passes count to 3, the code's limit. A symbol entered again under another trade has too many
states for liveness; that the retry of one row lifts the halt of another (`lifted`, a history
variable and the exception in `PendingEndsClosed`) needs two, and there the theorem speaks.
`PendingEndsClosed`, `RowsOwned` and `DriftDealtWith` are theorems for any number of trades and
symbols. Deadlock is checked: a pass can always go on.

What they show: within one process the repair converges. Whatever fills, triggers, exits
and lost answers come between its awaits, a book that differs from the account is
repaired or entries are blocked, unless the policy is FLATTEN and the exchange refuses the
close, or fills part of it, with an answer that raises nothing: that pass counts as a success
with the stray still in the account and entries open, and so may every later one (`Unfilled`, the
exception in `DriftDealtWith` and `DriftSettles`); and a row that waits for its fills is neither cancelled
nor opened again and halts entries as long as it waits, until a retry that closes some other
row lifts every halt (`reconciliation.py:379`). Two things the model has and no run asks for:
the account is read before the book, so a position that fills in between is dropped while it is live, until the next
pass adopts it; and the cost of a suspended position never returns to the cash (`owed`), since
the close that finds the fills finds no position.

**Fairness.** `WF(Pass)`: the loop sleeps and starts the next pass, and each call of a pass
answers or raises (the client has timeouts). Every answer may be a failure, for ever:
`DriftSettles` then holds because entries are blocked.

### Proofs: `Reconciler_proofs.tla`

For all symbols, trades and policies:

* `TypeCorrect`: `Spec => []TypeOK`.
* `RowsAreOwned`: `Spec => []RowsOwned`.
* `PendingEnds`: `Spec => PendingEndsClosed`.
* `DifferencesDealt`: `Spec => DriftDealtWith`, the safety half of `DriftSettles`.

The steps that could hurt a waiting row are the cancellation of a phantom and a fill
callback. A phantom's row is not waiting because the walk takes its orphans from a copy of
the book, in which every position's row was open (`BookNamesOpen`), and only the handler
of its own symbol makes a row wait (`OrphansOpen`); across the await `CallOfRow` keeps it
so. A callback touches working rows only. `TodoWaits` says that rows to be retried wait or
were closed by an exit in between, which is what a retry that finds no fills relies on.
`RowsOwned` is the conjunction, and inductive with the types.

That such a row keeps entries halted rests on `WaitInv`: for a row that waits, or is being
retried and may be set to wait again although an exit has closed it meanwhile, the halt stands
or was lifted by the retry of another row. The retry of the row itself lifts it only after
the row was closed (`MatchedClosed`, below).

`DriftDealtWith` looks at the end of a pass only; its invariant `WalkInv` remembers what the
walk has met so far. A symbol off the lists of the pass has its row closed, cancelled or
waiting under a halt (`OrphansSettled`), a stray off the list was adopted, has had its flattening
close answered or has raised a halt (`StraysHandled`), an error raised a halt (`ErrorsHalt`), and a matched close has closed its row before the
next await (`MatchedClosed`). Only a retry that succeeds clears a halt, and retries are over
when the walk begins (`TodoWaits`, `CallOfRow`).

Only model-checked: `DriftSettles` (liveness).

## 5. Stop and target at the exchange: `NativeProtection.tla`

While a position is open a stop and a take-profit trigger rest on the exchange, so that it is
protected when the bot is not running. The fill callbacks (a task for each status change of an
order, `engine.py:1216`, so that several may be suspended in `ensure_protection` at once), the tick
handler and the pass place, replace and cancel them with no lock between them, and every
replacement is *cancel, forget, place* with an await after each. `FillTasks`, the set of the
callbacks' tasks, is a parameter.

| actions | code |
|---|---|
| `EnsureStart`, `Forget`, `StopAnswered`, `TargetAnswered` | `ensure_protection`, cut at its awaits; `Forget` is also `cancel_protection` after its cancels |
| `ApplyFill` | a fill callback, `_handle_oms_status_change`: it applies the new fills and goes on to protect the size it has read, at the stop level of the row (`_place_native_protection_after_fill`) |
| `Ratchet` | `_maybe_update_trailing_stop` |
| `StartClose`, `Submit` | `_execute_exit` and `close_position`: the triggers are cancelled, the order submitted, and `_restore_protection_after_failed_close` |
| `ReadAccount`, `ReadOrders`, `Delivered` | the pass reads account and orders; `sync_from_open_orders`, `purge_residual_triggers` |
| `OrphanLocal`, `Suspend`, `AdoptStray`, `Agree` | what the comparison does about the protection |
| `Restart` | the manager and the trailing data start empty |
| `Enter`, `Fill`, `Expire`, `Fire`, `FireTarget` | the exchange and the entry (external, but for `enter_position`) |

`st` is the symbol's `ProtectionState`, `call[t]` the arguments of the call task `t` is
suspended in and where, `snap` the pass's locals, `rest` what really rests. Every exchange
call may be refused, and a placement's answer may be lost. The target is placed after the stop
and cancelled with it, so only whether its id is known is kept.

**Abstractions.** One symbol, long side; prices are levels; a restart while an entry fills, the
kill switch's cancel and rows without a stop price are left out.

| run | what is asked | bounds |
|---|---|---|
| `stops` | `TypeOK`, `StopCovers` | 1 entry of 2 lots, 2 fill callbacks (symmetric), 1 exit, 1 failing call, 2 tasks suspended at once |
| `purge` | `ResidualsPurged` (liveness) | 1 lot, 1 trailing step, 1 restart, 1 failing call |
| `failed_close` | violation: `FailedCloseCovered` | 1 lot, 1 exit, 1 failing call |

Two lots are the least for a fill that grows a protected position, and for two callbacks with
different sizes; two suspended tasks are the least for one to overtake the other, and the two may
be callbacks of one entry; one failure is what the code's error branches handle, and
the ids suffice for every placement these bounds allow. Deadlock is checked: a pass can always
start.

`StopCovers` says when a position in rest is covered: always, unless since the last accepted
stop one was *refused*; an answer or a recorded id was used after the orders had changed, or
left a size that no resting stop has (*overtaken*); the last stop, or the stops adopted, were for
fewer lots than the account held (*resized*: among them the stop of an older callback that
replaces a newer one's); or a *restart* ended a call in the middle. The four
causes are the hazards of this code. That the recorded size alone misleads shows only with three
lots and two entries: of two overlapping calls the one with the smaller stop is answered last,
the size recorded is that of a stop that is gone, and the next call for that size places
nothing. `failed_close` is a finding: a pass that read the open orders before the close
cancelled the stop writes the dead id back, and the restore finds nothing to replace.

**Fairness.** The event loop resumes each task, and the reconcile loop comes round.
`ResidualsPurged` needs no more: a cancel may fail only as often as the bound says.

### Proofs: `NativeProtection_proofs.tla`

`TypeCorrect` and `PositionsCovered` (`Spec => []StopCovers`), for any set of fill callbacks and
any lots, prices, ids and bounds. `StopCovers` speaks of moments when nothing is in flight, so the invariant has to say
what is in flight everywhere else. It is `Guarded`:

* the types, with what they owe to the code: no more is applied or open than was filled, what
  rests is finite;
* `Protected`: while no cause came up, an open position is covered, or fills wait to be applied
  (`ApplyFill` will ask for the stop), or the book is astray and a pass will adopt it, or some
  task minds the stop: it is inside an `ensure_protection` for enough lots, or has cancelled in
  order to replace, or is about to submit a close;
* `Backed`: a recorded size is that of a stop that rests, or less, or the call that wrote it was
  overtaken; without it `ensure_protection`'s early return could leave a position bare.

Each action has a lemma on its effects and a case in the lemma on each part. Which resting stop
covers the most is the largest of a finite set of sizes (`Maximum`, from `LeastElement`).

Only model-checked: `ResidualsPurged` (liveness).

## 6. The carry study: `CarryShadow.tla`

A daemon that simulates spot/perp carry episodes, one per pair, until a kill criterion ends
the study. An episode is an object in the pool and a row in SQLite. Four coroutines touch it,
and each write commits by itself.

| actions | code |
|---|---|
| `MaybeEntry`, `Accrue` | `_maybe_entry`; `_accrue` with `_maybe_exit` |
| `Book` | `_on_pair_book`: `Opened`, `Aborted` (`_handle_entry_event`), `Closed` (`_close_episode`) or another leg |
| `StartSweep`, `SweepOne` | `margin_sweep`, one episode a step; `MarginTick` is `on_margin_tick` and what is written of it |
| `Drop`, `Connect` | `ws_loop` |
| `AskGap`, `AnswerGap`, `TurnToPending`, `EndPending`, `Unwind`, `Stream` | `_catchup_gap`: both loops, each with the await in it |
| `Gates`, `Die`, `ForceStop` | `_check_interim_gates`, `_final_readout`, the two halves of `_die` |
| `Record` | `record_fill`, for the legs that are written |
| `Crash` (`Cut`), `Boot` | the end of the process anywhere, between two commits too; `boot`, `_reload_episodes` |

`owed` is the half of a handler that has still to run, `gap` and `sweep` the locals of the
replay and the sweep. No other coroutine runs between two steps of one handler (`Held`), but
the process can end there. Commits that only the end of the process tells apart are one step
of the handler, and `Cut` is what `Crash` may find of them: of an entry that ends, one leg or
both recorded and the row not yet; of an exit, the row and perhaps one leg; of a death, some of
the rows of the pool closed.

`fill_stats` has one row for a leg and a time, so `Record` adds a row or takes the place of one:
an attempt of another pair with the same time, as the aborts of one replay have.

**Abstractions.** Prices are choices: what a margin check, a gate or the edge finds. Funding is
one unit an hour. A gap is longer than `GAP_UNVERIFIED_MS`. The control arm, the refresh of the
universe and the report are left out, and so are hours that no episode is credited.

| run | what is asked | bounds |
|---|---|---|
| `study` | `TypeOK`, `Tracked`, `GapsReplayed`, `RowsFollowLifecycle`, `KillCriteria` | 2 pairs, 2 episodes, 1 outage, 1 sweep, 1 restart, no funding |
| `verdict` | `PnlCountsFunding`, `PendingEntryResolves` | 1 pair, 2 episodes, 1 hour, 1 outage, 1 sweep, 1 restart |

Two pairs are the least for an episode to settle while the replay waits for the candles of
another, and for two attempts to share a time (`SYMMETRY` over them is sound, the run checks no
liveness). `MinAttempts`, `EdgeCheck` and `ReadTarget` are small so that each gate is met, and a
liquidation is found by the sweep or by the replay. `CHECK_DEADLOCK FALSE`: the bounds stop it.

`EpisodeLifecycle.tla` is what the table promises to whoever reads it: one episode a pair is
pending or open; an episode enters, opens, turns to its exit and is settled as its phase
allows; and the end of the study is final. The refinement mapping takes the state and the pair
of each row and the stored dead flag; the pool, and the replay and the sweep that hold episodes
across awaits, are hidden. Only over the end may a settled row be written again: a replay or a
sweep still has episodes in hand that `_die` has closed. So `RowsFollowLifecycle` implies two
action properties the module also states, `NoEntryAfterDeath`, and `SettledStays` while the
study lives.

What they except is what the code does otherwise: a process that ends between a
record and the death it calls for boots into a live study (`torn`, set only when the cut leaves
that death due or half done); the fill that reaches the
threshold checks no gate (`threshold`); a restart's own outage is neither replayed nor flagged
and the funding it read back is what the row's margin last was (`reloaded`); an exit that was
pending at a restart is never settled (`Lost`). Each is a hazard with its line.

**Fairness.** pm2 starts the daemon again, the event loop runs what it has begun, the websocket
reconnects and books go on coming, so a window that is over is seen to be.

### Proofs: `CarryShadow_proofs.tla`

For all pairs, episodes, bounds and criteria:

* `TypeCorrect`: `Spec => []TypeOK`; no row is credited an hour that was not published.
* `EpisodesTracked`: `Spec => []Tracked`.
* `SettledOnce`, `DeadNeverEnters`: `Spec => SettledStays`, `Spec => NoEntryAfterDeath`.
* `RowsRefineLifecycle`: `Spec => RowsFollowLifecycle`, the table implements `EpisodeLifecycle`.
* `OutagesReplayed`: `Spec => []GapsReplayed`.
* `FundingCounted`, `CriteriaKill`: `Spec => []PnlCountsFunding`, `Spec => []KillCriteria`.

`Whole` is the invariant all rest on: besides the types, how rows, episodes and pool hold
together (`Shape`). An episode that goes on is its pair's in the pool and its row has its state
(`Pooled`, `Follow`), except the one that the replay is about to take out (`Unwinding`); a row
that goes on is in the pool unless a restart lost it (`Owned`); after a death that ran to its
end nothing is open (`Emptied`). None of them is inductive without the others, since death
empties the pool while the websocket's coroutine is suspended with an episode in hand. The
actions are sorted into kinds of step, each with a lemma: what leaves rows and pool alone, moves
a state, ends, enters or turns an episode. To `Whole` the other theorems add a part each:
`Matched`, the ledger of an episode and its row agree; `Judged`, a criterion that is met has
killed the study or will before another coroutine runs; `Gapped`, each hidden episode is
replayed or waits for its turn. For the refinement each kind of step is one of the abstract
table or leaves it alone; that an entry finds its pair free is `Owned`, and that only what was
pending or open is settled is `Follow`. A new row takes the least unused id, which exists by
`LeastElement`.

Only model-checked: `PendingEntryResolves` (liveness).

## 7. The Boros study: `BorosShadow.tla`

Once an hour the daemon stores the markets and books, enters hypothetical trades, marks every
open one and closes those that are liquidated, delisted or mature. All state is in SQLite.

| actions | code |
|---|---|
| `StartPass`, `Register`, `Registered`, `EndPass` | `_snapshot_pass`, `_register` and the stamps of the hour |
| `Fund`, `MarkTrade` | `mark_trade`: the funding rows, then the mark |
| `Fate`, `Close`, `Settle` | `check_trade_fate`, `close_trade`, the two commits of `_write_close` |
| `Fail`, `Refused` | a write that raises, possibly the second of the two stamps of the hour (`HalfStamped`, for `Crash` too); `UNIQUE(trade_id)`; `tick` logs and the next tick takes a new pass |
| `Crash`, `Boot`, `Replay` | the end of the process; `boot` and `backfill`, which replays the stored snapshots |
| `Tick` | half an hour passes |

**Abstractions.** Time is counted in half hours, an even one off schedule and an odd one the
:05-:09 window. Funding is one unit per half hour on one perp leg, read by a cursor or sampled,
and the Boros leg pays the same, so that the books of a trade should cancel exactly; each of
the two rates may be unavailable at any pass. Which trades are worth entering is a choice, as is
which books a pass gets; of the prices a mark keeps whether it has a mid of every perp leg, which
`mark_trade` carries from one mark to the next when a venue has no book.

| run | what is asked | bounds |
|---|---|---|
| `books` | `TypeOK`, `Cancels`, `FateActed`, `MarksForward`, `NoPassForgotten`, `MaturedCloses` | an asset of each kind, 1 trade, 2.5 hours, 1 failed write or crash |

Two and a half hours hold an entry, marks in and out of the window, the maturity and the
fallback after it; one fault can fall between any two writes. `CHECK_DEADLOCK FALSE`: time
ends.

What is excepted: a trade in whose mark a pass ended (`torn`: the cursor is past funding whose
floating counterpart was not written), funding read late after an interval without any rate
(`late`), the state after an end between close row and trade state (`Wedged`), in which
every later pass and boot fails on the same trade, and a mature trade with a leg that has had no
book since its entry: the comment at settle.py:119 has it closed by the "mid+2x-slip fallback"
after `CLOSE_FALLBACK_H`, but `_fallback_exit` has no mid to use and the trade stays open. It
takes an entry pass that failed before its mark, since that mark has the books of the entry.

**Fairness.** Time passes, the loop ticks and pm2 restarts the daemon.

### Proofs: `BorosShadow_proofs.tla`

For all markets, trades, lengths of the study and any number of faults:

* `TypeCorrect`: `Spec => []TypeOK`; trades and passes are numbered without gaps.
* `FatesActed`: `Spec => []FateActed`.
* `BooksCancel`: `Spec => []Cancels`.
* `MarksGoForward`: `Spec => MarksForward`.
* `PassesCaught`: `Spec => NoPassForgotten`.

The assumptions are `BoundsAssumption` and `MarketsAssumption`. An open trade that is
liquidated or overdue is the one whose fate is being decided, by a mark of the time of the pass
(`FateSeen`): that is why the decision, which reads the clock of the pass, and the mark, which
the next pass overwrites, cannot disagree. `FateActed` is also the safety half of
`MaturedCloses`: the first mark with mids in the window after the fallback closes its trade, and
what is left to fairness is that such a mark comes. The books cancel only if one knows
what the pass owes between the funding rows and the mark, and that no row is of a later time
than its mark (`Balanced`); that needs passes, marks and entries to be in the order of time
(`Dated`), replays included. Marks go forward because a pass is later than every mark it has
still to write, or some trade is wedged, which never ends (`Fresh`).
That no stored pass is forgotten rests on `Swept`: while a pass or a replay walks the trades,
whatever has no mark of it or of an earlier one is among those it has still to reach
(`Caught`); each step marks the trade that it leaves, or takes it out of the open ones, and a
pass that is not a replay is the last one stored (`LiveLast`), so nothing is behind at its
end.

Only model-checked: `MaturedCloses` (liveness).

## 8. The processes: `BotProcess.tla`

`main.py` takes `bot.lock` before it trades; pm2 or `run_with_recovery.py` starts it again; a
cron run of the watchdog reads the lock and the log and pages.

| actions | code |
|---|---|
| `Exists`, `Read`, `Probe`, `Unlink`, `Create`, `Write` | `acquire_instance_lock`, one action per system call |
| `Run` | the preflight is over |
| `Request`, `Stop` | a shutdown is asked for and `main` stops its parts, awaiting each; `release_instance_lock` comes last |
| `Start`, `StartByHand`, `Ended` | `ecosystem.config.js` (pm2) or `run_with_recovery.main`; `Counted` is the wrapper's count of crashes |
| `Check`, `Notify`, `Lose` | `check_bot_alive`: the flag is saved, then the message is sent |
| `Crash`, `Freeze`, `Recycle`, `LogAges` | faults, a reused process number, time (external) |

**Abstractions.** A lock file is its creator and whether the pid is written; an unlink frees the
path whoever created the file (POSIX). A reused number is of a program
the bot may signal (`foreign`) or of one it may not (`sealed`): `_pid_alive` reads a refused
signal as no process, for the lock and for the watchdog. All bots run as one user, so a
bot is never `sealed` to another. A bot counts as trading until it has released the lock. The
watchdog is `bot_alive` only, and its cron run starts
again for ever. The wrapper's limit is the constant 10 of `RECOVERY_CONFIG`, here 2:
`start.bat` passes `--max-restarts`, which `run_with_recovery.py` does not read.

| run | what is asked | bounds |
|---|---|---|
| `lock` | `TypeOK`, `AtMostOne`, `ComesBack`, `Paged` | 3 process numbers, either supervisor, 2 restarts, 3 events |

Three numbers are a bot, a start beside it and one to reuse; three events are the least for a
kill, a start by hand and a reused number together. Deadlock is checked: the watchdog's check
is always possible.

What is excepted: `AtMostOne` holds until somebody removes the lock of a bot that holds it
(`raced`: a slow start that read a stale pid, or a file that was not written yet).
`ComesBack` allows `Blocked`: the wrapper has given up, the bot hangs, or its number belongs to
another program that it can signal. `Paged` allows `spent`: the message failed or the run ended after the flag was
saved, or a second outage came before a check had seen the recovery. A bot that dies before
it takes the lock (a bad configuration) shows no outage: pm2 restarts it for ever and the
watchdog sees no lock, against the comment at `ecosystem.config.js:80-83`.

**Fairness.** Processes run, a shutdown ends unless the bot hangs in it (`Freeze`), the
supervisor starts the bot, cron the watchdog, time passes.

### Proofs: `BotProcess_proofs.tla`

For any set of process numbers and any bounds: `TypeCorrect` (`Spec => []TypeOK`) and
`MutualExclusion` (`Spec => []AtMostOne`). The invariant: while nobody has removed a held lock,
a process that holds the lock is its owner, and one that has created it but not yet written its
pid is its owner too. Only model-checked: `ComesBack`, `Paged` (liveness).

## 9. What is not modelled, and why

* **Paper mode.** `enter_position` and `close_position` branch early; no order lives.
* **Prices, fees and the PnL ledger.** The runs tell lots, positions and percentages
  apart; of the cash, `Reconciler` knows only which costs are still out.
* **A database that fails, and a fill list that lags,** in the order path. The studies have
  writes that fail.
* **Overlapping passes and restarts of the reconciler.** The hazards name them.
* **The composition of all parts in one state space.** Each model has its neighbours as
  actions with the effects it can notice; `OrderManager` and `NativeProtection` together
  are out of TLC's reach.
* **The unlock study.** The same shape as the carry study; next in the plan.
* **Signal pipeline, event circuits.** Sequential code with small state; planned as operators
  checked against a reference definition.
* **Strategies, backtest, other research, feeds, dashboard.** Numeric code, I/O or read-only;
  nothing they do changes the state of an order except by the calls modelled here. They are
  most of the repository's lines.
* **Known gaps inside modelled parts.** An entry whose answer has neither an order id nor
  a fill is never credited; an exception that leaves one poll ends `_oms_loop` for good
  (`execution.py:1549`); a row whose submission is unknown is never reloaded. They are read
  from the code, and no run has them.

Beyond the prover: liveness and ENABLED, induction over data and recursive operators. These
stay with TLC.

## 10. Plan

In order of importance:

1. **`ReconcilerRestart.tla`** - a restart between two passes, the pass of the kill switch
   beside the loop's, and two rows that wait at once. Properties: a row closed once stays
   closed; entries stay blocked while a row waits; a restored position whose row is closed
   is settled.
2. **`Ledger.tla`** - the abstract account: cash + notional + realised PnL is conserved by
   credit, rollback, close and suspend; `OrderManager`'s book and the reconciler refine
   it. Theorem: conservation for every size.
3. **`UnlockShadow.tla`** - the unlock study, with the faults of the carry study.
4. **`EventCircuits.tla`** - volatility circuit, funding blackout, cooldowns as pure
   operators over bounded windows, against reference definitions.

Theorems next: conservation in `Ledger`.
