------------------------------ MODULE MCRiskGate ------------------------------
(* Instances of RiskGate for TLC. *)
EXTENDS RiskGate, TLC

CONSTANTS s1, s2

TwoSymbols == {s1, s2}
\* The symbols are alike in the specification and in its properties.
SymbolSymmetry == Permutations(TwoSymbols)

\* No count of stops beyond the limit and no loss beyond -3 (there is no gain, and -3
\* reaches the limit at every level) makes a difference.
Stops(n) == IF n > MaxStops THEN MaxStops ELSE n
Loss(pnl) == IF pnl < -3 THEN -3 ELSE pnl

\* What the last restart reads of the store: of a flag only whether it was saved today.
ReadableStore ==
    <<snap.equity, snap.peak, MaxOf(snap.dailyPeak, snap.equity), Loss(snap.dailyPnl),
      snap.positions, saved.ddOn /\ saved.ddDay = day,
      saved.cbOn /\ saved.cbDay = day /\ 0 >= Recovery>>

\* A circuit or streak of an earlier day reads as none.
TodaysCircuits ==
    <<cbOn /\ cbDay = day, IF stopDay = day THEN <<Stops(stopCount), stopOn>> ELSE <<0, FALSE>>,
      IF ddDay = day THEN <<ddOn, ddPeak, ddUsed>> ELSE <<>> >>

\* After the restart nothing reads the store, the daily peak and the daily queries, no
\* property reads mustHalt and booked, and after the last entry none reads what should
\* have kept it out: states that differ only there are one. (MaxCrashes is at most 1.)
ReadableState ==
    <<day, equity, peak, Loss(dailyPnl), resetDay, bookVars, resting, entries,
      lastDd, TodaysCircuits, flattenVars, crashes, flattens,
      IF crashes < MaxCrashes
         THEN <<ReadableStore, dailyPeak, Stops(stopsToday), Loss(pnlToday)>> ELSE <<>>,
      IF entries < MaxEntries
         THEN <<Stops(botStops), IF crashes = 0 THEN <<mustHalt, Loss(booked)>> ELSE <<>> >>
         ELSE <<>> >>

\* No drawdown, one between the recovery band and the trip, one that trips.
ThreeLevels == {88, 94, 100}
\* An exit at break-even, and one that alone reaches the daily loss limit.
BreakEvenOrLoss == {-3, 0}
=============================================================================
