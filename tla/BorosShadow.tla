----------------------------- MODULE BorosShadow -----------------------------
(***************************************************************************)
(* The Boros spread shadow (src/boros_shadow): a daemon that every hour       *)
(* takes one pass over the markets, enters hypothetical trades, marks every   *)
(* open one with the funding since its last mark, and closes those that are   *)
(* liquidated, delisted or mature.  All its state is in SQLite and every      *)
(* write commits by itself, so a pass can end between any two of them: a      *)
(* write that fails ends the pass, which the next tick repeats as a new pass; *)
(* the end of the process is followed by a boot whose backfill replays the    *)
(* stored passes that a trade has no mark for.                               *)
(*                                                                          *)
(* Time is counted in half hours: an even one is off schedule, an odd one     *)
(* the :05-:09 window of its hour.  A pass is shorter than that.  Funding is   *)
(* one unit per half hour, on one perp leg: read from the venue's history by  *)
(* a cursor, or sampled (Lighter) and weighted with the time since the last   *)
(* mark.  The Boros leg pays the same unit, so that the books of a trade       *)
(* should cancel; at any pass each of the two rates may be unavailable.       *)
(***************************************************************************)
EXTENDS Integers, FiniteSets

CONSTANTS
    Assets,
    Sampled,        \* the assets whose leg B is sampled
    Maturity,       \* the half hour at which each asset's market matures
    Fallback,       \* CLOSE_FALLBACK_H, in half hours
    DayLength,      \* half hours of a day
    MaxTime, MaxTrades, MaxFaults

ASSUME BoundsAssumption ==
    /\ Fallback \in Nat /\ DayLength \in Nat \ {0}
    /\ MaxTime \in Nat /\ MaxTrades \in Nat /\ MaxFaults \in Nat
ASSUME MarketsAssumption ==
    IsFiniteSet(Assets) /\ Sampled \subseteq Assets /\ Maturity \in [Assets -> Nat]

VARIABLES
    \* ---- boros_trades with boros_close, last of boros_marks, boros_funding
    trades, marks, funding,
    passes,         \* boros_snapshots: the half hour of each stored pass
    hours,          \* meta: last_snapshot_hour, last_pass_hour
    running,        \* the process is up
    pass,           \* the pass or the replay under way
    now,
    torn,           \* history: trades a pass or the process ended in the middle of
    late,           \* history: trades with funding read after an interval without any
    left            \* writes that may still fail and crashes that may still happen

ledger == <<trades, marks, funding, passes, hours>>
vars == <<ledger, running, pass, now, torn, late, left>>

Ids == 1 .. MaxTrades
Trade == [asset : Assets, entry : Nat, pass : Nat, state : {"open", "closed", "liquidated"},
          closed : BOOLEAN]
\* A mark carries the last mid of each perp leg; mid: each leg has had a book since the entry.
Mark == [pass : Nat, at : Nat, floating : Int, dead : BOOLEAN, mid : BOOLEAN]
Funding == [cash : Int, cursor : Nat, at : SUBSET Nat]
Steps == {"idle", "register", "next", "fund", "mark", "fate", "close", "settle"}
Pass == [at : Steps, replay : BOOLEAN, no : Nat, time : Nat, todo : SUBSET Ids, owes : Int]
Idle == [at |-> "idle", replay |-> FALSE, no |-> 0, time |-> 0, todo |-> {}, owes |-> 0]

Known == DOMAIN trades

TypeOK ==
    /\ Known \subseteq Ids /\ DOMAIN marks = Known /\ DOMAIN funding = Known
    /\ \A i \in Known : trades[i] \in Trade /\ marks[i] \in Mark /\ funding[i] \in Funding
    /\ \A n \in DOMAIN passes : passes[n] \in Nat
    /\ hours \in [snapshot : Int, pass : Int] /\ hours.snapshot <= hours.pass
    /\ running \in BOOLEAN
    /\ pass \in Pass
    /\ now \in Nat
    /\ torn \subseteq Ids /\ late \subseteq Ids
    /\ left \in Nat

Empty == [i \in {} |-> 0]

Init ==
    /\ trades = Empty /\ marks = Empty /\ funding = Empty /\ passes = Empty
    /\ hours = [snapshot |-> -1, pass |-> -1]
    /\ running = TRUE /\ pass = Idle /\ now = 0
    /\ torn = {} /\ late = {}
    /\ left = MaxFaults

-----------------------------------------------------------------------------
(* Helpers.                                                                  *)

Hour(t) == t \div 2
InWindow(t) == t % 2 = 1
Open == {i \in Known : trades[i].state = "open"}
Least(S) == CHOOSE i \in S : \A j \in S : i <= j
Cur == Least(pass.todo)
Add(f, k, v) == [x \in DOMAIN f \cup {k} |-> IF x = k THEN v ELSE f[x]]
At(step) == pass' = [pass EXCEPT !.at = step]
Last == Cardinality(DOMAIN passes)

\* A trade that has its close row and is still open.
Wedged == \E i \in Open : trades[i].closed

\* _snapshot_due
Due == hours.snapshot < Hour(now) /\ (InWindow(now) \/ hours.pass < Hour(now))

-----------------------------------------------------------------------------
(* A pass.                                                                   *)

Tick ==
    /\ now < MaxTime /\ pass.at = "idle"
    /\ now' = now + 1
    /\ UNCHANGED <<ledger, running, pass, torn, late, left>>

\* The markets and the books are stored together.  The passes that a wedged trade ends
\* in the same half hour, one a minute, are counted as one.
StartPass ==
    LET again == Wedged /\ Last > 0 /\ passes[Last] = now
        no == IF again THEN Last ELSE Last + 1
    IN  /\ running /\ pass.at = "idle" /\ Due
        /\ passes' = Add(passes, no, now)
        /\ pass' = [Idle EXCEPT !.at = "register", !.no = no, !.time = now]
        /\ UNCHANGED <<trades, marks, funding, hours, running, now, torn, late, left>>

\* _register: one open trade a market, one entry a day and asset, in the window.
Register(a) ==
    LET i == Cardinality(Known) + 1
        day == pass.time \div DayLength
    IN  /\ pass.at = "register" /\ InWindow(pass.time)
        /\ i \in Ids /\ pass.time < Maturity[a]
        /\ \A j \in Open : trades[j].asset # a
        /\ \A j \in Known : trades[j].asset = a => trades[j].entry \div DayLength # day
        /\ trades' = Add(trades, i, [asset |-> a, entry |-> pass.time, pass |-> pass.no,
                                     state |-> "open", closed |-> FALSE])
        /\ marks' = Add(marks, i, [pass |-> 0, at |-> pass.time, floating |-> 0, dead |-> FALSE,
                                   mid |-> FALSE])
        /\ funding' = Add(funding, i, [cash |-> 0, cursor |-> pass.time, at |-> {}])
        /\ UNCHANGED <<passes, hours, running, pass, now, torn, late, left>>

Registered ==
    /\ pass.at = "register"
    /\ pass' = [pass EXCEPT !.at = "next", !.todo = Open]
    /\ UNCHANGED <<ledger, running, now, torn, late, left>>

\* mark_trade: the funding of the interval, if its rate can be read, and against it
\* the Boros floating amount.  A missing floating rate is proxied with the funding
\* read, a missing funding rate with the floating amount, which is stored as funding.
\* A row of the same leg and time is not stored twice.  The funding is written first
\* and the mark, with its floating amount, last.
ProxiedNever(paid, floats) == FALSE

Proxied(paid, floats) == floats /\ ~ paid

Fund(paid, floats) ==
    LET i == Cur
        f == funding[i]
        sampled == trades[i].asset \in Sampled
        since == pass.time - marks[i].at
        cash == IF sampled THEN since ELSE pass.time - f.cursor
    IN  /\ pass.at = "next" /\ pass.todo # {}
        /\ funding' = [funding EXCEPT ![i] =
                IF paid /\ ~ sampled
                THEN [f EXCEPT !.cash = f.cash + cash, !.cursor = pass.time]
                ELSE IF (paid \/ Proxied(paid, floats)) /\ pass.time \notin f.at
                THEN [cash |-> f.cash + since, cursor |-> pass.time,
                      at |-> {t \in f.at : t > marks[i].at} \cup {pass.time}]
                ELSE f]
        /\ pass' = [pass EXCEPT !.at = "mark",
                !.owes = IF floats THEN since ELSE IF paid THEN cash ELSE 0]
        /\ late' = IF paid /\ floats /\ cash # since THEN late \cup {i} ELSE late
        /\ UNCHANGED <<trades, marks, passes, hours, running, now, torn, left>>

\* The pass that enters a trade has priced it with the books that it marks it with.
MarkTrade(dead, booked) ==
    /\ pass.at = "mark"
    /\ trades[Cur].pass = pass.no => booked
    /\ marks' = [marks EXCEPT ![Cur] =
            [pass |-> pass.no, at |-> pass.time, floating |-> marks[Cur].floating - pass.owes,
             dead |-> dead, mid |-> marks[Cur].mid \/ booked]]
    /\ At("fate")
    /\ UNCHANGED <<trades, funding, passes, hours, running, now, torn, late, left>>

Goes == pass' = [pass EXCEPT !.at = "next", !.todo = pass.todo \ {Cur}, !.owes = 0]

\* check_trade_fate: dead, delisted, or mature in the window; a mature trade waits
\* for a book that prices it no longer than CLOSE_FALLBACK_H, and is then closed at the
\* mids that its mark carries, as a delisted one is.
ClosesInWindow(delisted, priced) ==
    /\ InWindow(pass.time)
    /\ marks[Cur].dead \/ pass.time >= Maturity[trades[Cur].asset]

ClosesPriced(delisted, priced) ==
    \/ marks[Cur].dead
    \/ delisted /\ pass.time < Maturity[trades[Cur].asset] /\ marks[Cur].mid
    \/ InWindow(pass.time) /\ pass.time >= Maturity[trades[Cur].asset] /\ priced

Closes(delisted, priced) ==
    LET maturity == Maturity[trades[Cur].asset]
        mid == marks[Cur].mid
    IN  \/ marks[Cur].dead
        \/ delisted /\ pass.time < maturity /\ mid
        \/ /\ InWindow(pass.time) /\ pass.time >= maturity
           /\ priced \/ (mid /\ pass.time > maturity + Fallback)

Fate(delisted, priced) ==
    /\ pass.at = "fate"
    /\ priced => marks[Cur].mid
    /\ IF Closes(delisted, priced) THEN At("close") ELSE Goes
    /\ UNCHANGED <<ledger, running, now, torn, late, left>>

\* _write_close: the close row, of which a trade has one, and then the trade's state.
Close ==
    /\ pass.at = "close" /\ ~ trades[Cur].closed
    /\ trades' = [trades EXCEPT ![Cur].closed = TRUE]
    /\ At("settle")
    /\ UNCHANGED <<marks, funding, passes, hours, running, now, torn, late, left>>

Settle ==
    /\ pass.at = "settle"
    /\ trades' = [trades EXCEPT ![Cur].state = IF marks[Cur].dead THEN "liquidated" ELSE "closed"]
    /\ Goes
    /\ UNCHANGED <<marks, funding, passes, hours, running, now, torn, late, left>>

\* The hour is stamped, in the window as consumed.
StampConsumed == [snapshot |-> Hour(pass.time), pass |-> Hour(pass.time)]
StampSnapshot == [hours EXCEPT !.snapshot = Hour(pass.time)]

Stamp == [snapshot |-> IF InWindow(pass.time) THEN Hour(pass.time) ELSE hours.snapshot,
          pass |-> Hour(pass.time)]

EndPass ==
    /\ pass.at = "next" /\ pass.todo = {} /\ ~ pass.replay
    /\ hours' = Stamp
    /\ pass' = Idle
    /\ UNCHANGED <<trades, marks, funding, passes, running, now, torn, late, left>>

-----------------------------------------------------------------------------
(* What ends a pass early, and the backfill.                                 *)

InTrade == IF pass.at \in {"mark", "fate", "close", "settle"} THEN {Cur} ELSE {}

\* The pass was at its end, and of the two stamps the first is written.
HalfStamped ==
    /\ pass.at = "next" /\ pass.todo = {} /\ ~ pass.replay
    /\ hours' = [hours EXCEPT !.pass = Hour(pass.time)]

\* tick() logs the exception; out of the backfill it ends the process.
Abandon ==
    /\ pass' = Idle
    /\ running' = ~ pass.replay
    /\ torn' = torn \cup InTrade
    /\ UNCHANGED <<trades, marks, funding, passes, now, late>>

Fail ==
    /\ running /\ pass.at # "idle"
    /\ left > 0 /\ left' = left - 1
    /\ UNCHANGED hours \/ HalfStamped
    /\ Abandon

\* A second close row violates UNIQUE(trade_id).
Refused ==
    /\ pass.at = "close" /\ trades[Cur].closed
    /\ UNCHANGED <<hours, left>>
    /\ Abandon

Crash ==
    /\ running
    /\ left > 0 /\ left' = left - 1
    /\ running' = FALSE
    /\ pass' = Idle
    /\ torn' = torn \cup InTrade
    /\ UNCHANGED hours \/ HalfStamped
    /\ UNCHANGED <<trades, marks, funding, passes, now, late>>

\* backfill: the open trades without a mark of this stored pass or a later one.
UnmarkedOrLast(n) == {i \in Open : trades[i].entry < passes[n] /\ marks[i].pass <= n}

Unmarked(n) == {i \in Open : trades[i].entry < passes[n] /\ marks[i].pass < n}
Behind == {n \in DOMAIN passes : Unmarked(n) # {}}

Boot ==
    /\ ~ running
    /\ running' = TRUE
    /\ pass' = [Idle EXCEPT !.at = "next", !.replay = TRUE]
    /\ UNCHANGED <<ledger, now, torn, late, left>>

\* Mutant of Replay: the last stored pass is taken to be complete.
ReplayButLast ==
    LET ahead == {m \in Behind : m > pass.no /\ m < Last} IN
    /\ pass.at = "next" /\ pass.replay /\ pass.todo = {}
    /\ IF ahead = {} THEN pass' = Idle
       ELSE pass' = [pass EXCEPT !.no = Least(ahead), !.time = passes[Least(ahead)],
                                 !.todo = Unmarked(Least(ahead))]
    /\ UNCHANGED <<ledger, running, now, torn, late, left>>

Replay ==
    LET n == Least({m \in Behind : m > pass.no}) IN
    /\ pass.at = "next" /\ pass.replay /\ pass.todo = {}
    /\ IF {m \in Behind : m > pass.no} = {} THEN pass' = Idle
       ELSE pass' = [pass EXCEPT !.no = n, !.time = passes[n], !.todo = Unmarked(n)]
    /\ UNCHANGED <<ledger, running, now, torn, late, left>>

-----------------------------------------------------------------------------
Step ==
    \/ StartPass \/ Registered \/ Close \/ Settle \/ EndPass
    \/ Refused \/ Replay
    \/ \E paid, floats \in BOOLEAN : Fund(paid, floats)
    \/ \E dead, booked \in BOOLEAN : MarkTrade(dead, booked)
    \/ \E delisted, priced \in BOOLEAN : Fate(delisted, priced)

Next ==
    \/ Tick
    \/ Step
    \/ \E a \in Assets : Register(a)
    \/ Fail \/ Crash \/ Boot

Spec == Init /\ [][Next]_vars

\* Time passes, pm2 starts the process again and the loop ticks every minute.
FairSpec == Spec /\ WF_vars(Tick) /\ WF_vars(Step) /\ WF_vars(Boot)

-----------------------------------------------------------------------------
(* Properties.                                                               *)

\* In the books of every trade the floating amount cancels the funding, unless a pass
\* or the process has ended between the two writes.
Cancels ==
    pass.at # "mark" =>
        \A i \in Known \ (torn \cup late) : marks[i].floating + funding[i].cash = 0

\* Between two passes no open trade has a mark that should have closed it, unless the pass
\* ended before its fate was decided: a mark at which it was liquidated, or one taken in the
\* window when the market had been mature for longer than CLOSE_FALLBACK_H and each leg has
\* a mid.
Overdue(i) ==
    marks[i].mid /\ InWindow(marks[i].at) /\ marks[i].at > Maturity[trades[i].asset] + Fallback
FateActed ==
    pass.at = "idle" => \A i \in Open \ torn : ~ marks[i].dead /\ ~ Overdue(i)

\* Marks follow the order of the passes, one a pass, whatever is replayed.
MarksForward ==
    [][~ Wedged => \A i \in Known : marks'[i] # marks[i] =>
            marks'[i].pass > marks[i].pass /\ marks'[i].at >= marks[i].at]_vars

\* A pass that comes to its end, and a replay that does, leaves no stored pass behind: every
\* open trade has a mark of each pass since its entry, or of a later one, whatever writes
\* and processes have failed before.
NoPassForgotten ==
    [][pass.at = "next" /\ pass'.at = "idle" /\ left' = left => Behind' = {}]_vars

\* A trade that is mature is closed in the end, unless a leg of it has had no book in any
\* pass that marked it, or one of the trades has a close row and is open: the passes end there.
Mature(i) == i \in Open /\ now >= Maturity[trades[i].asset]
MaturedCloses == \A i \in Ids : Mature(i) ~> (~ Mature(i) \/ Wedged \/ ~ marks[i].mid)
=============================================================================
