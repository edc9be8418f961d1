---------------------------- MODULE RiskGate_proofs ----------------------------
(***************************************************************************)
(* What the circuits of RiskGate guarantee for every set of symbols, every  *)
(* set of equity levels and PnLs, every limit and every bound.              *)
(***************************************************************************)
EXTENDS RiskGate, TLAPS

USE LimitsAssumption, AmountsAssumption

-----------------------------------------------------------------------------
(***************************************************************************)
(* The operators on amounts.                                                *)
(***************************************************************************)
\* The larger of two levels is a level: peaks are values the equity had.
LEMMA MaxIsLevel == ASSUME NEW m \in Levels \cup {0}, NEW n \in Levels
                    PROVE  MaxOf(m, n) \in Levels
BY DEF MaxOf

\* A drawdown is a natural number.
LEMMA DrawdownIsNat == ASSUME NEW p \in Levels, NEW e \in Levels
                       PROVE Drawdown(p, e) \in Nat
<1>1. CASE p > e
  <2>1. (p - e) * 100 \in Nat /\ p \in Nat /\ p > 0  BY <1>1
  <2>2. ((p - e) * 100) \div p \in Nat  BY <2>1
  <2> QED  BY <1>1, <2>2 DEF Drawdown
<1>2. CASE ~(p > e)  BY <1>2 DEF Drawdown
<1> QED  BY <1>1, <1>2

-----------------------------------------------------------------------------
(***************************************************************************)
(* Types.                                                                   *)
(***************************************************************************)
\* The initial state has the types.
LEMMA InitTypes == ASSUME Init PROVE TypeOK
<1>1. PortfolioTypes  BY DEF Init, PortfolioTypes, Days
<1>2. BookTypes  BY DEF Init, BookTypes
<1>3. BreakerTypes  BY DEF Init, BreakerTypes
<1>4. StreakTypes  BY DEF Init, StreakTypes
<1>5. DailyTypes  BY DEF Init, DailyTypes
<1>6. FlattenTypes
  <2>1. pendingFlatten = NoSymbol /\ flattening = {}  BY DEF Init
  <2> QED  BY <2>1 DEF FlattenTypes
<1>7. HistoryTypes
  <2>1. crashes = 0 /\ flattens = 0 /\ botStops = 0 /\ booked = 0  BY DEF Init
  <2>2. mustHalt \in BOOLEAN  BY DEF Init
  <2> QED  BY <2>1, <2>2 DEF HistoryTypes
<1>8. StoreTypes  BY DEF Init, StoreTypes, Days
<1> QED  BY <1>1, <1>2, <1>3, <1>4, <1>5, <1>6, <1>7, <1>8 DEF TypeOK

\* A marked portfolio holds levels.
LEMMA MarkedTypes ==
    ASSUME PortfolioTypes, NEW e \in Levels, Marked(e)
    PROVE  resetDay' \in Days /\ equity' \in Levels /\ peak' \in Levels
           /\ dailyPeak' \in Levels
BY MaxIsLevel DEF PortfolioTypes, Marked

\* A tick keeps the types.
LEMMA TickTypes == ASSUME TypeOK, NEW s \in Symbols, NEW e \in Levels, Tick(s, e)
                   PROVE  TypeOK'
<1>1. PortfolioTypes'
  BY MarkedTypes DEF TypeOK, Tick, PortfolioTypes, portfolioVars, DailyPnl
<1>2. BreakerTypes'
  BY MarkedTypes, DrawdownIsNat DEF TypeOK, Tick, BreakerTypes, PortfolioTypes, Marked,
       breakerVars, SetBreaker
<1>3. DailyTypes'
  BY MaxIsLevel DEF TypeOK, Tick, DailyTypes, PortfolioTypes, dailyVars, FlattenDue
<1>4. FlattenTypes'
  BY DEF TypeOK, Tick, FlattenTypes, flattenVars
<1>5. HistoryTypes'
  BY DEF TypeOK, Tick, HistoryTypes, rowVars
<1>6. (BookTypes /\ StreakTypes /\ StoreTypes)'
  BY DEF TypeOK, Tick, BookTypes, StreakTypes, StoreTypes, bookVars, rowVars,
       streakVars, storeVars
<1> QED  BY <1>1, <1>2, <1>3, <1>4, <1>5, <1>6 DEF TypeOK

\* A gate keeps the types.
LEMMA GateTypes ==
    ASSUME TypeOK, NEW s \in Symbols, NEW capped \in BOOLEAN, NEW submit \in BOOLEAN,
           Gate(s, capped, submit)
    PROVE  TypeOK'
<1>1. BookTypes'
  BY DEF TypeOK, Gate, BookTypes, bookVars, rowVars
<1>2. BreakerTypes'
  BY DEF TypeOK, Gate, BreakerTypes, PortfolioTypes, breakerVars, SetBreaker
<1>3. StreakTypes'
  BY DEF TypeOK, Gate, StreakTypes, PortfolioTypes, streakVars, StreakOfToday
<1>4. DailyTypes'
  BY MaxIsLevel DEF TypeOK, Gate, DailyTypes, PortfolioTypes, dailyVars
<1>5. HistoryTypes'
  BY DEF TypeOK, Gate, HistoryTypes
<1>6. (PortfolioTypes /\ FlattenTypes /\ StoreTypes)'
  BY DEF TypeOK, Gate, PortfolioTypes, FlattenTypes, StoreTypes, portfolioVars,
       flattenVars, storeVars
<1> QED  BY <1>1, <1>2, <1>3, <1>4, <1>5, <1>6 DEF TypeOK

\* A fill keeps the types.
LEMMA FillsTypes == ASSUME TypeOK, NEW s \in Symbols, Fills(s)
                    PROVE  TypeOK'
<1>1. PortfolioTypes'
  BY MarkedTypes DEF TypeOK, Fills, PortfolioTypes, portfolioVars, DailyPnl
<1>2. BookTypes'
  BY DEF TypeOK, Fills, BookTypes, bookVars, rowVars
<1>3. (BreakerTypes /\ StreakTypes /\ DailyTypes /\ FlattenTypes /\ StoreTypes /\ HistoryTypes)'
  BY DEF TypeOK, Fills, BreakerTypes, StreakTypes, DailyTypes, FlattenTypes,
       StoreTypes, HistoryTypes, rowVars, breakerVars, streakVars, dailyVars, flattenVars,
       storeVars
<1> QED  BY <1>1, <1>2, <1>3 DEF TypeOK

\* A lapsed entry keeps the types.
LEMMA LapsesTypes == ASSUME TypeOK, NEW s \in Symbols, Lapses(s)
                     PROVE  TypeOK'
<1>1. BookTypes'
  BY DEF TypeOK, Lapses, BookTypes, bookVars, rowVars
<1>2. (PortfolioTypes /\ BreakerTypes /\ StreakTypes /\ DailyTypes /\ FlattenTypes /\ StoreTypes /\ HistoryTypes)'
  BY DEF TypeOK, Lapses, PortfolioTypes, BreakerTypes, StreakTypes, DailyTypes,
       FlattenTypes, StoreTypes, HistoryTypes, portfolioVars, rowVars, breakerVars,
       streakVars, dailyVars, flattenVars, storeVars
<1> QED  BY <1>1, <1>2 DEF TypeOK

\* An exit keeps the types.
LEMMA ExitTypes ==
    ASSUME TypeOK, NEW s \in Symbols, NEW pnl \in Pnls, NEW stop \in BOOLEAN,
           Exit(s, pnl, stop)
    PROVE  TypeOK'
<1>1. PortfolioTypes'
  BY MarkedTypes DEF TypeOK, Exit, PortfolioTypes, portfolioVars, Leaves, Credited,
       DailyPnl
<1>2. BookTypes'
  BY DEF TypeOK, Exit, BookTypes, Leaves, RowClosed
<1>3. StreakTypes'
  <2>1. CASE stop /\ MaxStops > 0
    <3>1. /\ stopCount' = (IF stopDay = day THEN stopCount ELSE 0) + 1
          /\ stopDay' = day
          /\ stopOn' \in BOOLEAN
      BY <2>1 DEF Exit, StopRecorded
    <3> QED  BY <3>1 DEF TypeOK, StreakTypes, PortfolioTypes
  <2>2. CASE ~(stop /\ MaxStops > 0)  BY <2>2 DEF TypeOK, Exit, StreakTypes, streakVars
  <2> QED  BY <2>1, <2>2
<1>4. FlattenTypes'
  BY DEF TypeOK, Exit, FlattenTypes, flattenVars
<1>5. StoreTypes'
  BY <1>1, <1>2 DEF TypeOK, Exit, StoreTypes, PortfolioTypes, BookTypes,
       BreakerTypes, DailyTypes, Snapshot, Persisted
<1>6. HistoryTypes'
  BY DEF TypeOK, Exit, HistoryTypes, Leaves
<1>7. (BreakerTypes /\ DailyTypes)'
  BY DEF TypeOK, Exit, BreakerTypes, DailyTypes, breakerVars, dailyVars
<1> QED  BY <1>1, <1>2, <1>3, <1>4, <1>5, <1>6, <1>7 DEF TypeOK

\* A close by the exchange keeps the types.
LEMMA NativeCloseTypes ==
    ASSUME TypeOK, NEW s \in Symbols, NEW pnl \in Pnls, NEW stop \in BOOLEAN,
           NEW today \in BOOLEAN, NativeClose(s, pnl, stop, today)
    PROVE  TypeOK'
<1>1. PortfolioTypes'
  BY MarkedTypes DEF TypeOK, NativeClose, PortfolioTypes, Leaves, Credited, DailyPnl
<1>2. BookTypes'
  BY DEF TypeOK, NativeClose, BookTypes, Leaves, RowClosed
<1>3. HistoryTypes'
  BY DEF TypeOK, NativeClose, HistoryTypes, Leaves
<1>4. (BreakerTypes /\ StreakTypes /\ DailyTypes /\ FlattenTypes /\ StoreTypes)'
  BY DEF TypeOK, NativeClose, BreakerTypes, StreakTypes, DailyTypes, FlattenTypes,
       StoreTypes, breakerVars, streakVars, dailyVars, flattenVars, storeVars
<1> QED  BY <1>1, <1>2, <1>3, <1>4 DEF TypeOK

\* A suspended position keeps the types.
LEMMA SuspendTypes == ASSUME TypeOK, NEW s \in Symbols, NEW e \in Levels, Suspend(s, e)
                      PROVE  TypeOK'
<1>1. (PortfolioTypes /\ BookTypes)'
  BY DEF TypeOK, Suspend, PortfolioTypes, BookTypes, rowVars
<1>2. (BreakerTypes /\ StreakTypes /\ DailyTypes /\ FlattenTypes /\ StoreTypes)'
  BY DEF TypeOK, Suspend, BreakerTypes, StreakTypes, DailyTypes, FlattenTypes,
       StoreTypes, breakerVars, streakVars, dailyVars, flattenVars, storeVars
<1>3. HistoryTypes'
  BY DEF TypeOK, Suspend, HistoryTypes, rowVars
<1> QED  BY <1>1, <1>2, <1>3 DEF TypeOK

\* The retried close of a waiting row keeps the types.
LEMMA RetryCloseTypes ==
    ASSUME TypeOK, NEW s \in Symbols, NEW pnl \in Pnls, NEW stop \in BOOLEAN,
           NEW today \in BOOLEAN, RetryClose(s, pnl, stop, today)
    PROVE  TypeOK'
<1>1. (PortfolioTypes /\ positions \subseteq Symbols /\ booked \in Int)'
  <2>1. CASE Leaves(s, pnl)
    BY <2>1, MarkedTypes DEF TypeOK, RetryClose, PortfolioTypes, BookTypes, HistoryTypes,
       Leaves, Credited, DailyPnl
  <2>2. CASE Unknown(s)
    BY <2>2 DEF TypeOK, RetryClose, PortfolioTypes, BookTypes, HistoryTypes, Unknown, DailyPnl
  <2> QED  BY <2>1, <2>2 DEF RetryClose
<1>2. BookTypes'
  BY <1>1 DEF TypeOK, RetryClose, BookTypes, RowClosed
<1>3. HistoryTypes'
  BY <1>1 DEF TypeOK, RetryClose, HistoryTypes
<1>4. (BreakerTypes /\ StreakTypes /\ DailyTypes /\ FlattenTypes /\ StoreTypes)'
  BY DEF TypeOK, RetryClose, BreakerTypes, StreakTypes, DailyTypes, FlattenTypes,
       StoreTypes, breakerVars, streakVars, dailyVars, flattenVars, storeVars
<1> QED  BY <1>1, <1>2, <1>3, <1>4 DEF TypeOK

\* The start of a flatten keeps the types.
LEMMA StartFlattenTypes == ASSUME TypeOK, StartFlatten
                           PROVE  TypeOK'
<1>1. FlattenTypes'
  BY DEF TypeOK, StartFlatten, FlattenTypes, BookTypes, flattenVars
<1>2. (PortfolioTypes /\ BookTypes /\ BreakerTypes /\ StreakTypes /\ DailyTypes /\ StoreTypes /\ HistoryTypes)'
  BY DEF TypeOK, StartFlatten, PortfolioTypes, BookTypes, BreakerTypes, StreakTypes,
       DailyTypes, StoreTypes, HistoryTypes, portfolioVars, bookVars, rowVars,
       breakerVars, streakVars, dailyVars, storeVars
<1> QED  BY <1>1, <1>2 DEF TypeOK

\* A skipped flatten keeps the types.
LEMMA SkipFlattenTypes == ASSUME TypeOK, NEW s \in Symbols, SkipFlatten(s)
                          PROVE  TypeOK'
<1>1. FlattenTypes'
  BY DEF TypeOK, SkipFlatten, FlattenTypes, flattenVars
<1>2. (PortfolioTypes /\ BookTypes /\ BreakerTypes /\ StreakTypes /\ DailyTypes /\ StoreTypes /\ HistoryTypes)'
  BY DEF TypeOK, SkipFlatten, PortfolioTypes, BookTypes, BreakerTypes, StreakTypes,
       DailyTypes, StoreTypes, HistoryTypes, portfolioVars, bookVars, rowVars,
       breakerVars, streakVars, dailyVars, storeVars
<1> QED  BY <1>1, <1>2 DEF TypeOK

\* A snapshot keeps the types.
LEMMA SaveSnapshotTypes == ASSUME TypeOK, SaveSnapshot
                           PROVE  TypeOK'
<1>1. StoreTypes'
  BY DEF TypeOK, SaveSnapshot, StoreTypes, PortfolioTypes, BookTypes, portfolioVars,
       bookVars, storeVars, Snapshot
<1>2. (PortfolioTypes /\ BookTypes /\ BreakerTypes /\ StreakTypes /\ DailyTypes /\ FlattenTypes /\ HistoryTypes)'
  BY DEF TypeOK, SaveSnapshot, PortfolioTypes, BookTypes, BreakerTypes, StreakTypes,
       DailyTypes, FlattenTypes, HistoryTypes, portfolioVars, bookVars, rowVars,
       breakerVars, streakVars, dailyVars, flattenVars
<1> QED  BY <1>1, <1>2 DEF TypeOK

\* A midnight keeps the types.
LEMMA NewDayTypes == ASSUME TypeOK, NewDay
                     PROVE  TypeOK'
<1>1. PortfolioTypes'
  BY DEF TypeOK, NewDay, PortfolioTypes, portfolioVars, Days
<1>2. BookTypes'
  BY DEF TypeOK, NewDay, BookTypes, bookVars
<1>3. HistoryTypes'
  <2>1. crashes' = crashes /\ flattens' = 0 /\ botStops' = 0 /\ booked' = 0
    BY DEF NewDay
  <2>2. mustHalt' \in BOOLEAN  BY DEF NewDay
  <2> QED  BY <2>1, <2>2 DEF TypeOK, HistoryTypes
<1>4. (BreakerTypes /\ StreakTypes /\ DailyTypes /\ FlattenTypes /\ StoreTypes)'
  BY DEF TypeOK, NewDay, BreakerTypes, StreakTypes, DailyTypes, FlattenTypes,
       StoreTypes, breakerVars, streakVars, dailyVars, flattenVars, storeVars
<1> QED  BY <1>1, <1>2, <1>3, <1>4 DEF TypeOK

\* A restart keeps the types.
LEMMA RestartTypes == ASSUME TypeOK, Restart
                      PROVE  TypeOK'
<1>1. PortfolioTypes'
  <2>1. /\ snap.equity \in Levels /\ snap.peak \in Levels
        /\ snap.dailyPeak \in Levels /\ snap.dailyPnl \in Int
    BY DEF TypeOK, StoreTypes
  <2>2. peak' \in Levels  BY <2>1, MaxIsLevel DEF Restart, RestoredPeak
  <2>3. dailyPeak' \in Levels  BY <2>1, MaxIsLevel DEF Restart
  <2>4. dailyPnl' \in Int  BY <2>1 DEF TypeOK, BookTypes, Restart, MaxOf
  <2> QED  BY <2>1, <2>2, <2>3, <2>4 DEF TypeOK, PortfolioTypes, Restart
<1>2. BookTypes'
  BY DEF TypeOK, Restart, BookTypes, StoreTypes, RestoreBook
<1>3. BreakerTypes'
  BY <1>1, DrawdownIsNat DEF TypeOK, Restart, BreakerTypes, StoreTypes, PortfolioTypes,
       breakerVars, RestoreBreaker, SetBreaker
<1>4. StreakTypes'
  BY DEF TypeOK, Restart, StreakTypes, PortfolioTypes, BookTypes, streakVars,
       RestoreStreak
<1>5. DailyTypes'
  BY MaxIsLevel DEF TypeOK, Restart, DailyTypes, PortfolioTypes, StoreTypes, dailyVars,
       RestoreDaily
<1>6. FlattenTypes'
  BY DEF TypeOK, Restart, FlattenTypes, flattenVars
<1>7. HistoryTypes'
  BY DEF TypeOK, Restart, HistoryTypes, RestoreBreaker
<1>8. StoreTypes'
  BY DEF TypeOK, Restart, StoreTypes, storeVars
<1> QED  BY <1>1, <1>2, <1>3, <1>4, <1>5, <1>6, <1>7, <1>8 DEF TypeOK

\* Every step keeps the types.
LEMMA TypesKept == ASSUME TypeOK, [Next]_vars PROVE TypeOK'
<1>1. ASSUME NEW s \in Symbols, NEW e \in Levels, Tick(s, e)
    PROVE  TypeOK'
  BY <1>1, TickTypes
<1>2. ASSUME NEW s \in Symbols, NEW capped \in BOOLEAN, NEW submit \in BOOLEAN,
                 Gate(s, capped, submit)
    PROVE  TypeOK'
  BY <1>2, GateTypes
<1>3. ASSUME NEW s \in Symbols, Fills(s)
    PROVE  TypeOK'
  BY <1>3, FillsTypes
<1>4. ASSUME NEW s \in Symbols, Lapses(s)
    PROVE  TypeOK'
  BY <1>4, LapsesTypes
<1>5. ASSUME NEW s \in Symbols, NEW pnl \in Pnls, NEW stop \in BOOLEAN,
                 Exit(s, pnl, stop)
    PROVE  TypeOK'
  BY <1>5, ExitTypes
<1>6. ASSUME NEW s \in Symbols, NEW pnl \in Pnls, NEW stop \in BOOLEAN,
             NEW today \in BOOLEAN, NativeClose(s, pnl, stop, today)
    PROVE  TypeOK'
  BY <1>6, NativeCloseTypes
<1>13. ASSUME NEW s \in Symbols, NEW e \in Levels, Suspend(s, e)
    PROVE  TypeOK'
  BY <1>13, SuspendTypes
<1>14. ASSUME NEW s \in Symbols, NEW pnl \in Pnls, NEW stop \in BOOLEAN,
              NEW today \in BOOLEAN, RetryClose(s, pnl, stop, today)
    PROVE  TypeOK'
  BY <1>14, RetryCloseTypes
<1>7. ASSUME NEW s \in Symbols, SkipFlatten(s)
    PROVE  TypeOK'
  BY <1>7, SkipFlattenTypes
<1>8. CASE StartFlatten  BY <1>8, StartFlattenTypes
<1>9. CASE SaveSnapshot  BY <1>9, SaveSnapshotTypes
<1>10. CASE NewDay  BY <1>10, NewDayTypes
<1>11. CASE Restart  BY <1>11, RestartTypes
<1>12. CASE UNCHANGED vars
  BY <1>12 DEF TypeOK, PortfolioTypes, BookTypes, BreakerTypes, StreakTypes, DailyTypes,
     FlattenTypes, StoreTypes, HistoryTypes, vars, portfolioVars, bookVars, rowVars,
     breakerVars, streakVars, dailyVars, flattenVars, storeVars
<1> QED  BY <1>1, <1>2, <1>3, <1>4, <1>5, <1>6, <1>7, <1>8, <1>9, <1>10, <1>11,
     <1>12, <1>13, <1>14 DEF Next

\* The variables only ever hold what the code keeps in them: days that were reached,
\* levels the equity had, symbols of the configuration.
THEOREM TypeCorrect == Spec => []TypeOK
<1>1. Init => TypeOK  BY InitTypes
<1>2. TypeOK /\ [Next]_vars => TypeOK'  BY TypesKept
<1> QED  BY <1>1, <1>2, PTL DEF Spec

-----------------------------------------------------------------------------
\* Entries are submitted by the gate and by nothing else.
LEMMA OnlyGateSubmits ==
    ASSUME [Next]_vars, Submits
    PROVE  \E s \in Symbols, capped \in BOOLEAN, submit \in BOOLEAN : Gate(s, capped,
    submit)
<1>1. ASSUME entries' = entries PROVE FALSE  BY <1>1 DEF Submits
<1>2. ASSUME NEW s \in Symbols, NEW e \in Levels, Tick(s, e) PROVE FALSE
  BY <1>1, <1>2 DEF Tick, rowVars
<1>3. ASSUME NEW s \in Symbols, Fills(s) \/ Lapses(s) \/ SkipFlatten(s) PROVE FALSE
  BY <1>1, <1>3 DEF Fills, Lapses, SkipFlatten, rowVars
<1>4. ASSUME NEW s \in Symbols, NEW pnl \in Pnls, NEW stop \in BOOLEAN,
             NEW today \in BOOLEAN,
             Exit(s, pnl, stop) \/ NativeClose(s, pnl, stop, today)
             \/ RetryClose(s, pnl, stop, today)
      PROVE  FALSE
  BY <1>1, <1>4 DEF Exit, NativeClose, RetryClose
<1>7. ASSUME NEW s \in Symbols, NEW e \in Levels, Suspend(s, e) PROVE FALSE
  BY <1>1, <1>7 DEF Suspend, rowVars
<1>5. ASSUME StartFlatten \/ SaveSnapshot \/ NewDay \/ Restart PROVE FALSE
  BY <1>1, <1>5 DEF StartFlatten, SaveSnapshot, NewDay, Restart, rowVars
<1>6. ASSUME UNCHANGED vars PROVE FALSE  BY <1>1, <1>6 DEF vars, rowVars
<1> QED  BY <1>2, <1>3, <1>4, <1>5, <1>6, <1>7 DEF Next

-----------------------------------------------------------------------------
(***************************************************************************)
(* The stop streak.                                                         *)
(***************************************************************************)
\* The count of the risk manager is of another day, when the bot executed no stop
\* loss today, or covers those it executed; the circuit is on once it is at its limit.
StreakInv == MaxStops > 0 =>
    /\ stopDay # day => botStops = 0
    /\ stopDay = day => stopCount >= botStops
    /\ stopCount >= MaxStops => stopOn
    /\ botStops <= stopsToday

\* Every step keeps the invariant of the stop streak.
LEMMA StreakInvKept == ASSUME TypeOK, StreakInv, [Next]_vars PROVE StreakInv'
<1>1. ASSUME NEW s \in Symbols, NEW capped \in BOOLEAN, NEW submit \in BOOLEAN,
                 Gate(s, capped, submit)
      PROVE  StreakInv'
  <2>1. \/ UNCHANGED streakVars
        \/ StreakOfToday
    BY <1>1 DEF Gate
  <2>2. UNCHANGED <<day, botStops, stopsToday>>  BY <1>1 DEF Gate
  <2> QED  BY <2>1, <2>2 DEF StreakInv, StreakOfToday, streakVars, TypeOK, StreakTypes,
              HistoryTypes
<1>2. ASSUME NEW s \in Symbols, NEW pnl \in Pnls, NEW stop \in BOOLEAN,
                 Exit(s, pnl, stop)
      PROVE  StreakInv'
  <2>1. CASE stop /\ MaxStops > 0
    <3>1. /\ stopCount' = (IF stopDay = day THEN stopCount ELSE 0) + 1
          /\ stopDay' = day
          /\ stopCount' >= MaxStops => stopOn'
      BY <1>2, <2>1 DEF Exit, StopRecorded
    <3>2. /\ day' = day
          /\ \/ botStops' = botStops + 1 /\ stopsToday' = stopsToday + 1
             \/ botStops' = botStops /\ stopsToday' = stopsToday
      BY <1>2 DEF Exit, RowClosed
    <3> QED  BY <3>1, <3>2 DEF StreakInv, TypeOK, StreakTypes, HistoryTypes, BookTypes
  <2>2. CASE ~stop
    BY <1>2, <2>2 DEF Exit, RowClosed, StreakInv, streakVars
  <2>3. CASE ~(MaxStops > 0)  BY <2>3 DEF StreakInv
  <2> QED  BY <2>1, <2>2, <2>3
<1>3. ASSUME NEW s \in Symbols, NEW pnl \in Pnls, NEW stop \in BOOLEAN,
             NEW today \in BOOLEAN,
             NativeClose(s, pnl, stop, today) \/ RetryClose(s, pnl, stop, today)
      PROVE  StreakInv'
  <2>1. UNCHANGED <<day, streakVars, botStops>> /\ RowClosed(pnl, stop, today)
    BY <1>3 DEF NativeClose, RetryClose
  <2> QED  BY <2>1 DEF RowClosed, StreakInv, streakVars, TypeOK, HistoryTypes, BookTypes
<1>4. CASE NewDay
  BY <1>4 DEF NewDay, StreakInv, streakVars, TypeOK, StreakTypes
<1>5. CASE Restart
  BY <1>5 DEF Restart, RestoreStreak, StreakInv, rowVars
<1>6. ASSUME UNCHANGED <<day, streakVars, botStops, stopsToday>> PROVE StreakInv'
  BY <1>6 DEF StreakInv, streakVars, rowVars
<1>14. ASSUME NEW s \in Symbols, NEW e \in Levels, Suspend(s, e)
       PROVE  StreakInv'
  BY <1>14, <1>6 DEF Suspend, streakVars, rowVars
<1>7. ASSUME NEW s \in Symbols, NEW e \in Levels, Tick(s, e)
      PROVE  StreakInv'
  BY <1>7, <1>6 DEF Tick, streakVars, rowVars
<1>8. ASSUME NEW s \in Symbols, Fills(s)
      PROVE  StreakInv'
  BY <1>8, <1>6 DEF Fills, streakVars, rowVars
<1>9. ASSUME NEW s \in Symbols, Lapses(s)
      PROVE  StreakInv'
  BY <1>9, <1>6 DEF Lapses, streakVars, rowVars
<1>10. ASSUME NEW s \in Symbols, SkipFlatten(s)
      PROVE  StreakInv'
  BY <1>10, <1>6 DEF SkipFlatten, streakVars, rowVars
<1>11. CASE StartFlatten
  BY <1>11, <1>6 DEF StartFlatten, streakVars, rowVars
<1>12. CASE SaveSnapshot
  BY <1>12, <1>6 DEF SaveSnapshot, streakVars, rowVars
<1>13. CASE UNCHANGED vars  BY <1>13, <1>6 DEF vars, streakVars, rowVars
<1> QED  BY <1>1, <1>2, <1>3, <1>4, <1>5, <1>7, <1>8, <1>9, <1>10, <1>11, <1>12,
     <1>13, <1>14 DEF Next

\* An entry is submitted only if the bot executed fewer stop losses today than the
\* limit, for every limit and however restarts and midnights fall.
THEOREM BotStops == Spec => BotStopsBlock
<1>1. Init => StreakInv  BY DEF Init, StreakInv
<1>2. TypeOK /\ StreakInv /\ [Next]_vars => StreakInv'  BY StreakInvKept
<1>3. ASSUME TypeOK, StreakInv, [Next]_vars
      PROVE  [Submits /\ MaxStops > 0 => botStops < MaxStops]_vars
  <2>1. ASSUME NEW s \in Symbols, NEW capped \in BOOLEAN, NEW submit \in BOOLEAN,
               Gate(s, capped, submit), Submits, MaxStops > 0
        PROVE  botStops < MaxStops
    <3>1. ~StreakHolds  BY <2>1 DEF Gate, Submits
    <3>2. CASE stopDay = day
      <4>1. ~stopOn  BY <2>1, <3>1, <3>2 DEF StreakHolds
      <4>2. ~(stopCount >= MaxStops) /\ stopCount >= botStops
        BY <1>3, <2>1, <3>2, <4>1 DEF StreakInv
      <4> QED  BY <1>3, <4>2 DEF TypeOK, StreakTypes, HistoryTypes
    <3>3. CASE stopDay # day  BY <1>3, <2>1, <3>3 DEF StreakInv
    <3> QED  BY <3>2, <3>3
  <2>2. Submits => \E s \in Symbols, capped \in BOOLEAN, submit \in BOOLEAN :
                      Gate(s, capped, submit)
    BY <1>3, OnlyGateSubmits
  <2> QED  BY <2>1, <2>2
<1> QED  BY <1>1, <1>2, <1>3, TypeCorrect, PTL DEF Spec, BotStopsBlock

-----------------------------------------------------------------------------
(***************************************************************************)
(* The daily flatten.                                                       *)
(***************************************************************************)
\* A flatten asked for today has marked today's trip as consumed.
FlattenInv == flattens > 0 => flattens = 1 /\ ddDay = day /\ ddUsed

\* Every step keeps the invariant of the daily flatten.
LEMMA FlattenInvKept == ASSUME TypeOK, FlattenInv, [Next]_vars PROVE FlattenInv'
<1>1. ASSUME NEW s \in Symbols, NEW e \in Levels, Tick(s, e)
      PROVE  FlattenInv'
  <2>1. CASE flattens' = flattens + 1
    <3>1. flattens + 1 /= flattens  BY DEF TypeOK, HistoryTypes
    <3>2. ddDay = day /\ ~ddUsed /\ ddDay' = day /\ day' = day /\ ddUsed'
      BY <1>1, <2>1, <3>1, Zenon DEF Tick, FlattenDue
    <3>3. flattens = 0  BY <3>2 DEF FlattenInv, TypeOK, HistoryTypes
    <3> QED  BY <2>1, <3>2, <3>3 DEF FlattenInv
  <2>2. CASE flattens' = flattens
    BY <1>1, <2>2 DEF Tick, FlattenInv
  <2> QED  BY <1>1, <2>1, <2>2 DEF Tick
<1>2. ASSUME NEW s \in Symbols, NEW capped \in BOOLEAN, NEW submit \in BOOLEAN,
                 Gate(s, capped, submit)
      PROVE  FlattenInv'
  <2>1. /\ flattens' = flattens /\ ddUsed' = ddUsed /\ day' = day
        /\ ddDay' \in {ddDay, day}
    BY <1>2 DEF Gate
  <2> QED  BY <2>1 DEF FlattenInv
<1>3. CASE NewDay
  BY <1>3 DEF NewDay, FlattenInv
<1>4. CASE Restart
  BY <1>4 DEF Restart, FlattenInv
<1>5. ASSUME UNCHANGED <<day, dailyVars, flattens>> PROVE FlattenInv'
  BY <1>5 DEF FlattenInv, dailyVars
<1>6. ASSUME NEW s \in Symbols, Fills(s)
      PROVE  FlattenInv'
  BY <1>6, <1>5 DEF Fills, dailyVars
<1>7. ASSUME NEW s \in Symbols, Lapses(s)
      PROVE  FlattenInv'
  BY <1>7, <1>5 DEF Lapses, dailyVars
<1>8. ASSUME NEW s \in Symbols, NEW pnl \in Pnls, NEW stop \in BOOLEAN,
                 Exit(s, pnl, stop)
      PROVE  FlattenInv'
  BY <1>8, <1>5 DEF Exit, dailyVars
<1>9. ASSUME NEW s \in Symbols, NEW pnl \in Pnls, NEW stop \in BOOLEAN,
             NEW today \in BOOLEAN,
             NativeClose(s, pnl, stop, today) \/ RetryClose(s, pnl, stop, today)
      PROVE  FlattenInv'
  BY <1>9, <1>5 DEF NativeClose, RetryClose, dailyVars
<1>14. ASSUME NEW s \in Symbols, NEW e \in Levels, Suspend(s, e)
       PROVE  FlattenInv'
  BY <1>14, <1>5 DEF Suspend, dailyVars
<1>10. ASSUME NEW s \in Symbols, SkipFlatten(s)
      PROVE  FlattenInv'
  BY <1>10, <1>5 DEF SkipFlatten, dailyVars
<1>11. CASE StartFlatten
  BY <1>11, <1>5 DEF StartFlatten, dailyVars
<1>12. CASE SaveSnapshot
  BY <1>12, <1>5 DEF SaveSnapshot, dailyVars
<1>13. CASE UNCHANGED vars  BY <1>13, <1>5 DEF vars, dailyVars
<1> QED  BY <1>1, <1>2, <1>3, <1>4, <1>6, <1>7, <1>8, <1>9, <1>10, <1>11, <1>12,
     <1>13, <1>14 DEF Next

\* A process asks for at most one flatten a day.
THEOREM OneFlatten == Spec => []OneFlattenADay
<1>1. Init => FlattenInv  BY DEF Init, FlattenInv
<1>2. TypeOK /\ FlattenInv /\ [Next]_vars => FlattenInv'  BY FlattenInvKept
<1>3. TypeOK /\ FlattenInv => OneFlattenADay
  BY DEF FlattenInv, OneFlattenADay, TypeOK, HistoryTypes
<1> QED  BY <1>1, <1>2, <1>3, TypeCorrect, PTL DEF Spec

-----------------------------------------------------------------------------
(***************************************************************************)
(* The daily loss limit.                                                    *)
(***************************************************************************)
\* Until a restart the portfolio's PnL of the day is that of the positions that left it
\* today, or was last reset on an earlier day and none left it today.
LossInv == /\ resetDay <= day
           /\ crashes = 0 =>
                 /\ resetDay = day => dailyPnl = booked
                 /\ resetDay < day => booked = 0

\* A position that leaves the book is booked.
LEMMA LeavesBooks ==
    ASSUME TypeOK, LossInv, NEW s \in Symbols, NEW pnl \in Pnls, Leaves(s, pnl),
           day' = day, crashes' = crashes
    PROVE  LossInv'
BY DEF Leaves, Credited, Marked, DailyPnl, LossInv, TypeOK, PortfolioTypes, HistoryTypes, Days

\* Every step keeps the invariant of the PnL of the day.
LEMMA LossInvKept == ASSUME TypeOK, LossInv, [Next]_vars PROVE LossInv'
<1>1. ASSUME NEW s \in Symbols, NEW e \in Levels, Tick(s, e)
      PROVE  LossInv'
  BY <1>1 DEF Tick, Marked, DailyPnl, LossInv, TypeOK, PortfolioTypes, Days, rowVars
<1>2. ASSUME NEW s \in Symbols, Fills(s)
      PROVE  LossInv'
  BY <1>2 DEF Fills, Marked, DailyPnl, LossInv, TypeOK, PortfolioTypes, Days, rowVars
<1>3. ASSUME NEW s \in Symbols, NEW pnl \in Pnls, NEW stop \in BOOLEAN,
                 Exit(s, pnl, stop)
      PROVE  LossInv'
  <2>1. Leaves(s, pnl) /\ day' = day /\ crashes' = crashes  BY <1>3 DEF Exit
  <2> QED  BY <2>1, LeavesBooks
<1>4. ASSUME NEW s \in Symbols, NEW pnl \in Pnls, NEW stop \in BOOLEAN,
             NEW today \in BOOLEAN, NativeClose(s, pnl, stop, today)
      PROVE  LossInv'
  <2>1. Leaves(s, pnl) /\ day' = day /\ crashes' = crashes  BY <1>4 DEF NativeClose
  <2> QED  BY <2>1, LeavesBooks
<1>14. ASSUME NEW s \in Symbols, NEW pnl \in Pnls, NEW stop \in BOOLEAN,
              NEW today \in BOOLEAN, RetryClose(s, pnl, stop, today)
       PROVE  LossInv'
  <2>1. day' = day /\ crashes' = crashes  BY <1>14 DEF RetryClose
  <2>2. CASE Leaves(s, pnl)  BY <2>1, <2>2, LeavesBooks
  <2>3. CASE Unknown(s)
    BY <2>1, <2>3 DEF Unknown, DailyPnl, LossInv, TypeOK, PortfolioTypes, Days
  <2> QED  BY <1>14, <2>2, <2>3 DEF RetryClose
<1>15. ASSUME NEW s \in Symbols, NEW e \in Levels, Suspend(s, e)
       PROVE  LossInv'
  BY <1>15 DEF Suspend, LossInv, rowVars
<1>5. CASE NewDay
  BY <1>5 DEF NewDay, LossInv, TypeOK, PortfolioTypes, Days, portfolioVars
<1>6. CASE Restart
  <2>1. resetDay' = day /\ day' = day /\ crashes' = crashes + 1  BY <1>6 DEF Restart
  <2> QED  BY <2>1 DEF LossInv, TypeOK, PortfolioTypes, HistoryTypes, Days
<1>7. ASSUME UNCHANGED <<day, portfolioVars, booked, crashes>> PROVE LossInv'
  BY <1>7 DEF LossInv, portfolioVars, rowVars
<1>8. ASSUME NEW s \in Symbols, NEW capped \in BOOLEAN, NEW submit \in BOOLEAN,
                 Gate(s, capped, submit)
      PROVE  LossInv'
  BY <1>8, <1>7 DEF Gate, portfolioVars, rowVars
<1>9. ASSUME NEW s \in Symbols, Lapses(s)
      PROVE  LossInv'
  BY <1>9, <1>7 DEF Lapses, portfolioVars, rowVars
<1>10. ASSUME NEW s \in Symbols, SkipFlatten(s)
      PROVE  LossInv'
  BY <1>10, <1>7 DEF SkipFlatten, portfolioVars, rowVars
<1>11. CASE StartFlatten
  BY <1>11, <1>7 DEF StartFlatten, portfolioVars, rowVars
<1>12. CASE SaveSnapshot
  BY <1>12, <1>7 DEF SaveSnapshot, portfolioVars, rowVars
<1>13. CASE UNCHANGED vars  BY <1>13, <1>7 DEF vars, portfolioVars, rowVars
<1> QED  BY <1>1, <1>2, <1>3, <1>4, <1>5, <1>6, <1>8, <1>9, <1>10, <1>11, <1>12,
     <1>13, <1>14, <1>15 DEF Next

\* Until a restart, an entry is submitted only while the losses of the positions that
\* left the book today stay below the limit, whoever closed them, whatever day the
\* portfolio last saw and whatever was suspended in between.
THEOREM DailyLoss == Spec => DailyLossBlocksUntilRestart
<1>1. Init => LossInv
  <2>1. ASSUME Init
        PROVE  resetDay = 1 /\ day = 1 /\ dailyPnl = 0 /\ booked = 0
    BY <2>1 DEF Init
  <2> QED  BY <2>1 DEF LossInv
<1>2. TypeOK /\ LossInv /\ [Next]_vars => LossInv'  BY LossInvKept
<1>3. ASSUME TypeOK, LossInv, [Next]_vars
      PROVE  [Submits => ~LossReached \/ crashes > 0]_vars
  <2>1. ASSUME NEW s \in Symbols, NEW capped \in BOOLEAN, NEW submit \in BOOLEAN,
               Gate(s, capped, submit), Submits, LossReached, crashes = 0
        PROVE  FALSE
    <3>1. ~(MaxOf(-dailyPnl, 0) * 100 >= DailyLossPct * equity)
      BY <2>1 DEF Gate, Submits
    <3>2. CASE resetDay = day
      BY <1>3, <2>1, <3>1, <3>2 DEF LossInv, LossReached
    <3>3. CASE resetDay < day
      <4>1. booked = 0  BY <1>3, <2>1, <3>3 DEF LossInv
      <4>2. 0 >= DailyLossPct * equity  BY <2>1, <4>1 DEF LossReached, MaxOf
      <4>3. MaxOf(-dailyPnl, 0) * 100 >= 0
        BY <1>3 DEF MaxOf, TypeOK, PortfolioTypes
      <4>4. DailyLossPct * equity \in Int
        BY <1>3 DEF TypeOK, PortfolioTypes
      <4>5. MaxOf(-dailyPnl, 0) * 100 \in Int
        BY <1>3 DEF MaxOf, TypeOK, PortfolioTypes
      <4> QED  BY <3>1, <4>2, <4>3, <4>4, <4>5
    <3> QED  BY <1>3, <3>2, <3>3 DEF LossInv, TypeOK, PortfolioTypes, Days
  <2>2. Submits => \E s \in Symbols, capped \in BOOLEAN, submit \in BOOLEAN :
                      Gate(s, capped, submit)
    BY <1>3, OnlyGateSubmits
  <2>3. crashes = 0 \/ crashes > 0  BY <1>3 DEF TypeOK, HistoryTypes
  <2> QED  BY <2>1, <2>2, <2>3
<1> QED  BY <1>1, <1>2, <1>3, TypeCorrect, PTL DEF Spec, DailyLossBlocksUntilRestart

-----------------------------------------------------------------------------
(***************************************************************************)
(* The drawdown breaker.                                                    *)
(***************************************************************************)
\* Until a restart the breaker is on, at a drawdown not below the recovery band, for as
\* long as a trip neither recovered nor expired.
HaltInv == crashes = 0 /\ mustHalt => cbOn /\ cbDay = day /\ lastDd >= Recovery

\* Every step keeps the invariant of the breaker.
LEMMA HaltInvKept == ASSUME TypeOK, Recovery <= CbPct, HaltInv, [Next]_vars PROVE HaltInv'
<1>1. ASSUME NEW s \in Symbols, NEW e \in Levels, Tick(s, e)
      PROVE  HaltInv'
  <2>1. lastDd' = Drawdown(peak', e) /\ crashes' = crashes /\ day' = day
    BY <1>1 DEF Tick
  <2>2. ASSUME mustHalt', crashes = 0 PROVE cbOn' /\ cbDay' = day /\ lastDd' >= Recovery
    <3>1. /\ lastDd' >= Recovery
          /\ \/ mustHalt
             \/ ~BreakerHolds(lastDd') /\ lastDd' >= CbPct
          /\ SetBreaker(BreakerHolds(lastDd') \/ (~BreakerHolds(lastDd') /\ lastDd' >= CbPct))
      BY <1>1, <2>2 DEF Tick
    <3>2. mustHalt => BreakerHolds(lastDd')  BY <2>2, <3>1 DEF HaltInv, BreakerHolds
    <3> QED  BY <3>1, <3>2 DEF SetBreaker
  <2> QED  BY <2>1, <2>2 DEF HaltInv
<1>2. ASSUME NEW s \in Symbols, NEW capped \in BOOLEAN, NEW submit \in BOOLEAN,
                 Gate(s, capped, submit)
      PROVE  HaltInv'
  <2>1. UNCHANGED <<day, lastDd, crashes>>  BY <1>2 DEF Gate
  <2>2. ASSUME mustHalt', crashes = 0 PROVE cbOn' /\ cbDay' = day /\ lastDd >= Recovery
    <3>1. CASE mustHalt
      <4>1. BreakerHolds(lastDd) /\ lastDd >= Recovery
        BY <2>2, <3>1 DEF HaltInv, BreakerHolds
      <4> QED  BY <1>2, <4>1 DEF Gate, SetBreaker
    <3>2. CASE ~mustHalt  BY <1>2, <2>2, <3>2 DEF Gate, SetBreaker
    <3> QED  BY <3>1, <3>2
  <2> QED  BY <2>1, <2>2 DEF HaltInv
<1>3. CASE NewDay  BY <1>3 DEF NewDay, HaltInv
<1>4. CASE Restart  BY <1>4 DEF Restart, HaltInv, TypeOK, HistoryTypes
<1>5. ASSUME UNCHANGED <<day, breakerVars, crashes, mustHalt>> PROVE HaltInv'
  BY <1>5 DEF HaltInv, breakerVars
<1>6. ASSUME NEW s \in Symbols, Fills(s) \/ Lapses(s) \/ SkipFlatten(s)
      PROVE  HaltInv'
  BY <1>6, <1>5 DEF Fills, Lapses, SkipFlatten
<1>7. ASSUME NEW s \in Symbols, NEW pnl \in Pnls, NEW stop \in BOOLEAN,
             NEW today \in BOOLEAN,
             \/ Exit(s, pnl, stop) \/ NativeClose(s, pnl, stop, today)
             \/ RetryClose(s, pnl, stop, today)
      PROVE  HaltInv'
  BY <1>7, <1>5 DEF Exit, NativeClose, RetryClose
<1>8. ASSUME NEW s \in Symbols, NEW e \in Levels, Suspend(s, e)
      PROVE  HaltInv'
  BY <1>8, <1>5 DEF Suspend
<1>9. CASE StartFlatten \/ SaveSnapshot
  BY <1>9, <1>5 DEF StartFlatten, SaveSnapshot
<1>10. CASE UNCHANGED vars  BY <1>10, <1>5 DEF vars
<1> QED  BY <1>1, <1>2, <1>3, <1>4, <1>6, <1>7, <1>8, <1>9, <1>10 DEF Next

\* Until a restart no entry is submitted between a drawdown trip and the recovery or
\* the midnight that ends it, if the recovery band lies below the limit.
THEOREM DrawdownHalt == ASSUME Recovery <= CbPct PROVE Spec => TripHaltsUntilRestart
<1>1. Init => HaltInv  BY DEF Init, HaltInv
<1>2. TypeOK /\ HaltInv /\ [Next]_vars => HaltInv'  BY HaltInvKept
<1>3. ASSUME TypeOK, HaltInv, [Next]_vars
      PROVE  [Submits => ~mustHalt \/ crashes > 0]_vars
  <2>1. ASSUME NEW s \in Symbols, NEW capped \in BOOLEAN, NEW submit \in BOOLEAN,
               Gate(s, capped, submit), Submits, mustHalt, crashes = 0
        PROVE  FALSE
    <3>1. ~BreakerHolds(lastDd)  BY <2>1 DEF Gate, Submits
    <3> QED  BY <1>3, <2>1, <3>1 DEF HaltInv, BreakerHolds
  <2>2. Submits => \E s \in Symbols, capped \in BOOLEAN, submit \in BOOLEAN :
                      Gate(s, capped, submit)
    BY <1>3, OnlyGateSubmits
  <2>3. crashes = 0 \/ crashes > 0  BY <1>3 DEF TypeOK, HistoryTypes
  <2> QED  BY <2>1, <2>2, <2>3
<1> QED  BY <1>1, <1>2, <1>3, TypeCorrect, PTL DEF Spec, TripHaltsUntilRestart
=============================================================================
