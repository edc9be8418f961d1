----------------------------- MODULE CarryShadow -----------------------------
(***************************************************************************)
(* The carry shadow daemon (src/research/carry_shadow): hypothetical         *)
(* spot/perp episodes, one per pair, that live in memory (EpisodePool) and   *)
(* as rows of an SQLite ledger, until one of the kill criteria ends the      *)
(* study.  Four coroutines of one event loop touch them: the websocket loop  *)
(* (book ticks and, after an outage, the replay of the gap), the funding     *)
(* poll, the margin sweep and the heartbeat, which only reports.             *)
(*                                                                          *)
(* Each ledger write commits by itself, so a handler that writes twice can   *)
(* be cut in two by the end of the process.  Where the second half is a step *)
(* of its own owed names it, and while it is not "nothing", while a sweep is *)
(* under way or while the replay is between two episodes no other coroutine  *)
(* runs (Held); the commits of one step only the end of the process can tell *)
(* apart, and Crash chooses how many were made (Cut).  Prices are left out:  *)
(* what a margin check or a gate finds is a choice.  Of the money only the   *)
(* funding is counted, one unit an hour.                                     *)
(***************************************************************************)
EXTENDS Integers, FiniteSets

CONSTANTS
    Pairs,
    MaxEpisodes,    \* bound on the episodes opened
    MaxHours,       \* bound on the funding hours that pass
    MaxRestarts,    \* bound on the times the process ends
    MaxDrops,       \* bound on the websocket outages
    MaxSweeps,      \* bound on the margin sweeps that find something
    MinAttempts,    \* FILL_RATE_MIN_ATTEMPTS
    EdgeCheck,      \* EDGE_CHECK_MIN_EPS
    ReadTarget      \* READ_EPS_TARGET

ASSUME BoundsAssumption ==
    /\ MaxEpisodes \in Nat /\ MaxHours \in Nat /\ MaxRestarts \in Nat
    /\ MaxDrops \in Nat /\ MaxSweeps \in Nat
    /\ MinAttempts \in Nat \ {0} /\ EdgeCheck \in Nat /\ ReadTarget \in Nat
ASSUME PairsAssumption == IsFiniteSet(Pairs) /\ 0 \notin Pairs

VARIABLES
    rows,       \* the episodes table
    stats,      \* fill_stats: rows and filled rows of each leg
    study,      \* meta: dead, and the verdict of the final readout
    liquidated, \* the episodes that were liquidated, a row and then an event
    running,    \* the process is up and booted
    pool,       \* EpisodePool.episodes: the episode of each pair
    mem,        \* the Episode objects: state, filled legs, funding in collateral
    dead,       \* EpisodePool.dead
    ws,         \* websocket: down, replaying the gap, streaming
    heard,      \* _last_ws_ms is set
    gap,        \* _catchup_gap: where it is, the episodes to come, the one asked about
    sweep,      \* the episodes the margin sweep has still to look at
    owed,       \* the second half of the handler under way
    hour,       \* funding hours published
    \* ---- history: open episodes an outage has hidden, episodes read back after
    \* ---- a restart, why a kill criterion may be met and the study alive
    unseen, reloaded, excuse,
    left        \* what may still happen

ledger == <<rows, stats, study, liquidated>>
process == <<running, pool, mem, dead, ws, heard, gap, sweep, owed>>
vars == <<ledger, process, hour, unseen, reloaded, excuse, left>>

None == 0
Ids == 1 .. MaxEpisodes
Legs == {"spot", "perp"}
States == {"none", "pending_entry", "open", "pending_exit", "closed", "aborted", "liquidated"}
Row == [pair : Pairs \cup {None}, state : States, last : Nat, cum : Nat, margin : Nat,
        flagged : BOOLEAN]
Episode == [state : States, legs : SUBSET Legs, funding : Nat]
NoRow == [pair |-> None, state |-> "none", last |-> 0, cum |-> 0, margin |-> 0,
          flagged |-> FALSE]
NoEpisode == [state |-> "none", legs |-> {}, funding |-> 0]
NoPool == [p \in Pairs |-> None]
NoGap == [at |-> "none", todo |-> {}, cur |-> None]

TypeOK ==
    /\ rows \in [Ids -> Row]
    /\ stats \in [Legs -> [n : Nat, f : Nat]]
    /\ study \in [dead : BOOLEAN, readout : {"none", "A", "C"}]
    /\ liquidated \subseteq Ids
    /\ running \in BOOLEAN /\ dead \in BOOLEAN /\ heard \in BOOLEAN
    /\ pool \in [Pairs -> Ids \cup {None}]
    /\ mem \in [Ids -> Episode]
    /\ ws \in {"down", "gap", "stream"}
    /\ gap \in [at : {"none", "next", "asked", "pending", "unwind"}, todo : SUBSET Ids,
                cur : Ids \cup {None}]
    /\ sweep \subseteq Ids
    /\ owed \in {"nothing", "gates", "die", "force"}
    /\ hour \in Nat
    /\ unseen \subseteq Ids /\ reloaded \subseteq Ids
    /\ excuse \subseteq {"torn", "threshold"}
    /\ left \in [restarts : Nat, drops : Nat, sweeps : Nat]

Init ==
    /\ rows = [i \in Ids |-> NoRow]
    /\ stats = [l \in Legs |-> [n |-> 0, f |-> 0]]
    /\ study = [dead |-> FALSE, readout |-> "none"]
    /\ liquidated = {}
    /\ running = TRUE /\ pool = NoPool /\ mem = [i \in Ids |-> NoEpisode] /\ dead = FALSE
    /\ ws = "down" /\ heard = FALSE /\ gap = NoGap /\ sweep = {} /\ owed = "nothing"
    /\ hour = 0
    /\ unseen = {} /\ reloaded = {} /\ excuse = {}
    /\ left = [restarts |-> MaxRestarts, drops |-> MaxDrops, sweeps |-> MaxSweeps]

-----------------------------------------------------------------------------
(* Helpers.                                                                  *)

LiveEpisodes == {pool[p] : p \in Pairs} \ {None}
In(state) == {i \in LiveEpisodes : mem[i].state = state}
Settled(s) == s \in {"closed", "aborted", "liquidated"}
Unsettled == {i \in Ids : rows[i].state \in {"pending_entry", "open", "pending_exit"}}
ClosedRows == {i \in Ids : rows[i].state = "closed"}
Unused == {i \in Ids : rows[i].state = "none"}
NextId == CHOOSE i \in Unused : \A j \in Unused : i <= j

\* The coroutine that has the thread until it awaits.
Held == owed # "nothing" \/ sweep # {} \/ gap.at \in {"next", "pending"}
Free == running /\ ~ Held

Spend(f) == left[f] > 0 /\ left' = [left EXCEPT ![f] = left[f] - 1]
Without(p) == [pool EXCEPT ![p] = None]
SetRow(i, s) == rows' = [rows EXCEPT ![i].state = s]
SetEpisode(i, s) == mem' = [mem EXCEPT ![i].state = s]
One(b) == IF b THEN 1 ELSE 0

\* record_fill for the legs written, of which legs have filled.  The table has one row
\* for a leg and a time: an attempt adds a row or takes the place of the row (old) of
\* another pair's attempt with the same time, as the aborts of one replay do.
Record(i, written, legs) ==
    \E old \in [Legs -> {"none", "unfilled", "filled"}] :
       /\ \A l \in Legs :
             /\ old[l] # "none" =>
                   l \in written /\ \E j \in Ids : rows[j].pair \notin {None, rows[i].pair}
             /\ old[l] = "unfilled" => stats[l].f < stats[l].n
             /\ old[l] = "filled" => stats[l].f > 0
       /\ stats' = [l \in Legs |->
             IF l \notin written THEN stats[l]
             ELSE [n |-> stats[l].n + One(old[l] = "none"),
                   f |-> stats[l].f + One(l \in legs) - One(old[l] = "filled")]]

RateFails == \E l \in Legs : stats[l].n >= MinAttempts /\ 5 * stats[l].f < 2 * stats[l].n

-----------------------------------------------------------------------------
(* The funding poll.                                                         *)

\* Hours without an episode to credit them to are left out.
Publish ==
    /\ hour < MaxHours /\ ~ Held
    /\ \E i \in Ids : rows[i].state \in {"open", "pending_exit"}
    /\ hour' = hour + 1
    /\ UNCHANGED <<ledger, process, unseen, reloaded, excuse, left>>

\* Mutant of Accrue: the collateral of an exiting episode gets nothing.
AccrueOpen(p, exits) ==
    LET i == pool[p] IN
    /\ Free /\ i \in In("open") \cup In("pending_exit")
    /\ exits => heard /\ i \in In("open")
    /\ exits \/ rows[i].last < hour
    /\ rows' = [rows EXCEPT ![i].cum = rows[i].cum + (hour - rows[i].last), ![i].last = hour,
                            ![i].state = IF exits THEN "pending_exit" ELSE mem[i].state]
    /\ mem' = [mem EXCEPT ![i].state = IF exits THEN "pending_exit" ELSE mem[i].state,
                  ![i].funding = IF mem[i].state = "open"
                                 THEN mem[i].funding + (hour - rows[i].last)
                                 ELSE mem[i].funding]
    /\ UNCHANGED <<stats, study, liquidated, running, pool, dead, ws, heard, gap, sweep,
                   owed, hour, unseen, reloaded, excuse, left>>

\* _accrue credits the hours since the last one credited; _maybe_exit follows.
Accrue(p, exits) ==
    LET i == pool[p]
        state == IF exits THEN "pending_exit" ELSE mem[i].state
    IN  /\ Free
        /\ i \in In("open") \cup In("pending_exit")
        /\ exits => heard /\ i \in In("open")
        /\ exits \/ rows[i].last < hour
        /\ rows' = [rows EXCEPT ![i].cum = rows[i].cum + (hour - rows[i].last),
                                ![i].last = hour, ![i].state = state]
        /\ mem' = [mem EXCEPT ![i].funding = mem[i].funding + (hour - rows[i].last),
                              ![i].state = state]
        /\ UNCHANGED <<stats, study, liquidated, running, pool, dead, ws, heard, gap, sweep,
                       owed, hour, unseen, reloaded, excuse, left>>

\* No order is placed against a book that was never heard.
MaybeEntry(p) ==
    /\ Free /\ heard
    /\ ~ dead /\ pool[p] = None
    /\ Unused # {}
    /\ rows' = [rows EXCEPT ![NextId] = [NoRow EXCEPT !.pair = p, !.state = "pending_entry"]]
    /\ mem' = [mem EXCEPT ![NextId] = [NoEpisode EXCEPT !.state = "pending_entry"]]
    /\ pool' = [pool EXCEPT ![p] = NextId]
    /\ UNCHANGED <<stats, study, liquidated, running, dead, ws, heard, gap, sweep, owed,
                   hour, unseen, reloaded, excuse, left>>

-----------------------------------------------------------------------------
(* What ends an episode.                                                     *)

\* Mutant of Opened: the accrual starts an hour late.
OpenedLate(i) ==
    /\ Record(i, Legs, Legs)
    /\ rows' = [rows EXCEPT ![i].state = "open", ![i].last = hour + 1]
    /\ mem' = [mem EXCEPT ![i].state = "open", ![i].legs = {}]
    /\ excuse' = excuse
    /\ UNCHANGED <<pool, owed>>

\* _handle_entry_event: a fill checks no gate, an abort does.
Opened(i) ==
    /\ Record(i, Legs, Legs)
    /\ rows' = [rows EXCEPT ![i].state = "open", ![i].last = hour]
    /\ mem' = [mem EXCEPT ![i].state = "open", ![i].legs = {}]
    /\ excuse' = IF RateFails' THEN excuse \cup {"threshold"} ELSE excuse
    /\ UNCHANGED <<pool, owed>>

\* Mutant of Aborted: the gates are left to the episodes that close.
AbortedUngated(i, legs) ==
    /\ Record(i, Legs, legs)
    /\ SetRow(i, "aborted")
    /\ SetEpisode(i, "aborted")
    /\ pool' = Without(rows[i].pair)
    /\ owed' = owed

Aborted(i, legs) ==
    /\ Record(i, Legs, legs)
    /\ SetRow(i, "aborted")
    /\ SetEpisode(i, "aborted")
    /\ pool' = Without(rows[i].pair)
    /\ owed' = "gates"

\* _close_episode: the row takes the episode's collateral, the pair is free.
Closed(i) ==
    /\ rows' = [rows EXCEPT ![i].state = "closed", ![i].margin = mem[i].funding]
    /\ SetEpisode(i, "closed")
    /\ pool' = Without(rows[i].pair)
    /\ owed' = "gates"

\* Mutant of MarginTick: the state of the episode is not looked at again.
MarginTickBlind(i, ev) ==
    IF ev = "delev_floor" THEN Closed(i) /\ UNCHANGED liquidated
    ELSE IF ev = "liquidated"
    THEN /\ SetRow(i, "liquidated") /\ SetEpisode(i, "liquidated")
         /\ liquidated' = liquidated \cup {i}
         /\ owed' = IF dead THEN "nothing" ELSE "die"
         /\ UNCHANGED pool
    ELSE UNCHANGED <<rows, mem, pool, liquidated, owed>>

\* on_margin_tick and what the daemon writes about its answer.
MarginTick(i, ev) ==
    \/ /\ ev = "none" \/ mem[i].state # "open"
       /\ UNCHANGED <<rows, mem, pool, liquidated, owed>>
    \/ /\ ev = "rebalance" /\ mem[i].state = "open"
       /\ rows' = [rows EXCEPT ![i].margin = mem[i].funding]
       /\ UNCHANGED <<mem, pool, liquidated, owed>>
    \/ /\ ev = "delev_floor" /\ mem[i].state = "open"
       /\ Closed(i)
       /\ UNCHANGED liquidated
    \/ /\ ev = "liquidated" /\ mem[i].state = "open"
       /\ SetRow(i, "liquidated")
       /\ SetEpisode(i, "liquidated")
       /\ liquidated' = liquidated \cup {i}
       /\ owed' = IF dead THEN "nothing" ELSE "die"
       /\ UNCHANGED pool

Events == {"none", "rebalance", "delev_floor", "liquidated"}

\* _final_readout is evaluated once.
FinalReadout(verdict) ==
    IF Cardinality(ClosedRows) >= ReadTarget /\ study.readout = "none"
    THEN /\ study' = [study EXCEPT !.readout = verdict]
         /\ owed' = IF verdict = "C" THEN "die" ELSE "nothing"
    ELSE owed' = "nothing" /\ UNCHANGED study

\* _check_interim_gates; the edge and the hurdle are choices.
Gates(edgeFails, verdict) ==
    /\ owed = "gates"
    /\ edgeFails => Cardinality(ClosedRows) >= EdgeCheck
    /\ IF dead THEN owed' = "nothing" /\ UNCHANGED study
       ELSE IF RateFails \/ edgeFails THEN owed' = "die" /\ UNCHANGED study
       ELSE FinalReadout(verdict)
    /\ excuse' = excuse \ {"threshold"}
    /\ UNCHANGED <<rows, stats, liquidated, running, pool, mem, dead, ws, heard, gap,
                   sweep, hour, unseen, reloaded, left>>

\* _die: the flag is stored first, then the rows of the pool are closed.
Die ==
    /\ owed = "die"
    /\ study' = [study EXCEPT !.dead = TRUE]
    /\ dead' = TRUE
    /\ owed' = "force"
    /\ UNCHANGED <<rows, stats, liquidated, running, pool, mem, ws, heard, gap, sweep,
                   hour, unseen, reloaded, excuse, left>>

Stopped(S) == [i \in Ids |-> IF i \in S THEN [rows[i] EXCEPT !.state = "closed"] ELSE rows[i]]

ForceStop ==
    /\ owed = "force"
    /\ rows' = Stopped(LiveEpisodes)
    /\ pool' = NoPool
    /\ owed' = "nothing"
    /\ UNCHANGED <<stats, study, liquidated, running, mem, dead, ws, heard, gap, sweep,
                   hour, unseen, reloaded, excuse, left>>

-----------------------------------------------------------------------------
(* The margin sweep, over the episodes the pool held when it began.          *)

StartSweep ==
    /\ Free /\ heard
    /\ In("open") # {}
    /\ Spend("sweeps")
    /\ sweep' = LiveEpisodes
    /\ UNCHANGED <<ledger, running, pool, mem, dead, ws, heard, gap, owed, hour, unseen,
                   reloaded, excuse>>

SweepOne(i, ev) ==
    /\ owed = "nothing" /\ i \in sweep
    /\ MarginTick(i, ev)
    /\ sweep' = sweep \ {i}
    /\ UNCHANGED <<stats, study, running, dead, ws, heard, gap, hour, unseen, reloaded,
                   excuse, left>>

-----------------------------------------------------------------------------
(* The websocket loop.                                                       *)

\* A book tick: what has filled since the last one, and whether the window is over.
Book(p, legs, expired) ==
    LET i == pool[p]
    IN  /\ Free /\ ws = "stream"
        /\ heard' = TRUE
        /\ IF i \notin In("pending_entry") \cup In("pending_exit")
           THEN /\ legs = {} /\ ~ expired /\ ~ heard
                /\ UNCHANGED <<rows, stats, mem, pool, owed, excuse>>
           ELSE /\ mem[i].legs \subseteq legs
                /\ \/ /\ mem[i].state = "pending_entry" /\ legs = Legs
                      /\ Opened(i)
                   \/ /\ mem[i].state = "pending_entry" /\ legs # Legs /\ expired
                      /\ Aborted(i, legs)
                      /\ UNCHANGED excuse
                   \/ /\ mem[i].state = "pending_exit" /\ (legs = Legs \/ expired)
                      /\ Closed(i)
                      /\ Record(i, Legs, legs)
                      /\ UNCHANGED excuse
                   \/ /\ legs # Legs /\ ~ expired
                      /\ mem' = [mem EXCEPT ![i].legs = legs]
                      /\ UNCHANGED <<rows, stats, pool, owed, excuse>>
        /\ UNCHANGED <<study, liquidated, running, dead, ws, gap, sweep, hour, unseen,
                       reloaded, left>>

\* The outage, whose gap the next connection replays if anything was ever heard.
Drop ==
    /\ Free /\ ws = "stream"
    /\ Spend("drops")
    /\ ws' = "down"
    /\ unseen' = unseen \cup In("open")
    /\ UNCHANGED <<ledger, running, pool, mem, dead, heard, gap, sweep, owed, hour,
                   reloaded, excuse>>

Connect ==
    /\ Free /\ ws = "down"
    /\ IF heard
       THEN ws' = "gap" /\ gap' = [NoGap EXCEPT !.at = "next", !.todo = LiveEpisodes]
       ELSE ws' = "stream" /\ gap' = gap
    /\ UNCHANGED <<ledger, running, pool, mem, dead, heard, sweep, owed, hour, unseen,
                   reloaded, excuse, left>>

\* _catchup_gap, first loop: the candles of the next open episode are asked for.
AskGap(i) ==
    /\ gap.at = "next" /\ owed = "nothing"
    /\ i \in gap.todo /\ mem[i].state = "open"
    /\ gap' = [at |-> "asked", todo |-> gap.todo \ {i}, cur |-> i]
    /\ UNCHANGED <<ledger, running, pool, mem, dead, ws, heard, sweep, owed, hour, unseen,
                   reloaded, excuse, left>>

\* Mutant of AnswerGap: the row of an episode that has no candles is not flagged.
AnswerGapUnflagged(candles, ev) ==
    /\ gap.at = "asked" /\ ~ Held
    /\ IF candles THEN MarginTick(gap.cur, ev)
       ELSE ev = "none" /\ UNCHANGED <<rows, mem, pool, liquidated, owed>>
    /\ unseen' = IF candles THEN unseen \ {gap.cur} ELSE unseen
    /\ gap' = [gap EXCEPT !.at = "next", !.cur = None]
    /\ UNCHANGED <<stats, study, running, dead, ws, heard, sweep, hour, reloaded, excuse,
                   left>>

\* Without candles the episode is flagged, with them it meets the worst price.
AnswerGap(candles, ev) ==
    LET i == gap.cur
    IN  /\ gap.at = "asked" /\ ~ Held
        /\ IF candles THEN MarginTick(i, ev)
           ELSE /\ ev = "none"
                /\ rows' = [rows EXCEPT ![i].flagged = TRUE]
                /\ UNCHANGED <<mem, pool, liquidated, owed>>
        /\ unseen' = IF candles THEN unseen \ {i} ELSE unseen
        /\ gap' = [gap EXCEPT !.at = "next", !.cur = None]
        /\ UNCHANGED <<stats, study, running, dead, ws, heard, sweep, hour, reloaded, excuse,
                       left>>

\* Second loop: the entries that were pending; those whose window is over end.
TurnToPending ==
    /\ gap.at = "next" /\ owed = "nothing"
    /\ \A i \in gap.todo : mem[i].state # "open"
    /\ gap' = [NoGap EXCEPT !.at = "pending", !.todo = LiveEpisodes]
    /\ UNCHANGED <<ledger, running, pool, mem, dead, ws, heard, sweep, owed, hour, unseen,
                   reloaded, excuse, left>>

\* The gap is longer than GAP_UNVERIFIED_MS.  An attempt with one leg filled ends in
\* memory at once and in the ledger only when the candles that price it are there.
\* (The flag of an attempt that ends with no leg filled is left out: the row is settled.)
EndPending(i, expired) ==
    /\ gap.at = "pending" /\ owed = "nothing"
    /\ i \in gap.todo /\ mem[i].state = "pending_entry"
    /\ IF ~ expired
       THEN /\ rows' = [rows EXCEPT ![i].flagged = TRUE]
            /\ gap' = [gap EXCEPT !.todo = gap.todo \ {i}]
            /\ UNCHANGED <<stats, mem, pool, owed>>
       ELSE IF mem[i].legs = {}
       THEN /\ Aborted(i, {})
            /\ gap' = [gap EXCEPT !.todo = gap.todo \ {i}]
       ELSE /\ SetEpisode(i, "aborted")
            /\ rows' = [rows EXCEPT ![i].flagged = TRUE]
            /\ gap' = [at |-> "unwind", todo |-> gap.todo \ {i}, cur |-> i]
            /\ UNCHANGED <<stats, pool, owed>>
    /\ UNCHANGED <<study, liquidated, running, dead, ws, heard, sweep, hour, unseen,
                   reloaded, excuse, left>>

Unwind ==
    /\ gap.at = "unwind" /\ ~ Held
    /\ Aborted(gap.cur, mem[gap.cur].legs)
    /\ gap' = [gap EXCEPT !.at = "pending", !.cur = None]
    /\ UNCHANGED <<study, liquidated, running, dead, ws, heard, sweep, hour, unseen,
                   reloaded, excuse, left>>

Stream ==
    /\ gap.at = "pending" /\ owed = "nothing"
    /\ \A i \in gap.todo : mem[i].state # "pending_entry"
    /\ gap' = NoGap /\ ws' = "stream"
    /\ UNCHANGED <<ledger, running, pool, mem, dead, heard, sweep, owed, hour, unseen,
                   reloaded, excuse, left>>

-----------------------------------------------------------------------------
(* The end of the process, wherever it is, and the next boot.                *)

\* A handler that ends the attempt of episode i may be running.
Ending(i, legs) ==
    \/ /\ Free /\ ws = "stream" /\ i \in In("pending_entry") \cup In("pending_exit")
       /\ mem[i].legs \subseteq legs
    \/ /\ gap.at = "pending" /\ owed = "nothing" /\ i \in gap.todo
       /\ mem[i].state = "pending_entry" /\ mem[i].legs = {} /\ legs = {}
    \/ /\ gap.at = "unwind" /\ ~ Held /\ i = gap.cur
       /\ mem[i].state = "aborted" /\ legs = mem[i].legs

\* What the ledger holds when the process ends between two commits of one step: an
\* entry records one leg, the other and then its row; an exit its row and then the
\* legs; the death of the study closes one row after the other.
Cut ==
    \/ \E i \in Ids, legs \in SUBSET Legs :
          /\ Ending(i, legs)
          /\ IF mem[i].state = "pending_exit"
             THEN /\ rows' = [rows EXCEPT ![i].state = "closed", ![i].margin = mem[i].funding]
                  /\ \E written \in {{}, {"spot"}} : Record(i, written, legs)
             ELSE /\ UNCHANGED rows
                  /\ \E written \in {{"spot"}, Legs} : Record(i, written, legs)
    \/ /\ owed = "force"
       /\ \E S \in SUBSET LiveEpisodes : rows' = Stopped(S)
       /\ UNCHANGED stats

\* The ledger names what the study dies of, and the study lives.
DeathDue == ~ study.dead /\ (liquidated # {} \/ study.readout = "C" \/ RateFails)

\* The study is "torn" when a handler is cut that leaves its death due, or half done.
Crash ==
    /\ running /\ Spend("restarts")
    /\ UNCHANGED <<study, liquidated, hour, unseen, reloaded>>
    /\ \/ owed = "nothing" /\ UNCHANGED <<rows, stats, excuse>>
       \/ /\ Cut \/ (UNCHANGED <<rows, stats>> /\ owed # "nothing")
          /\ excuse' = IF owed = "force" \/ DeathDue'
                       THEN excuse \cup {"torn"} ELSE excuse
    /\ running' = FALSE
    /\ pool' = NoPool /\ mem' = [i \in Ids |-> NoEpisode] /\ dead' = FALSE
    /\ ws' = "down" /\ heard' = FALSE /\ gap' = NoGap /\ sweep' = {} /\ owed' = "nothing"

Reload(open) ==
    /\ pool' = [p \in Pairs |-> IF \E i \in open : rows[i].pair = p
                                THEN CHOOSE i \in open : rows[i].pair = p ELSE None]
    /\ mem' = [i \in Ids |-> IF i \in open
                             THEN [state |-> "open", legs |-> {}, funding |-> rows[i].margin]
                             ELSE NoEpisode]
    /\ unseen' = unseen \cup open
    /\ reloaded' = reloaded \cup open

\* Mutants of Boot: the flag of a dead study is not read; an entry that was pending is
\* left as it is.
BootAlive ==
    /\ ~ running /\ running' = TRUE
    /\ dead' = FALSE
    /\ rows' = [i \in Ids |-> IF rows[i].state = "pending_entry"
                              THEN [rows[i] EXCEPT !.state = "aborted"] ELSE rows[i]]
    /\ Reload({i \in Ids : rows[i].state = "open"})
    /\ UNCHANGED <<stats, study, liquidated, ws, heard, gap, sweep, owed, hour, excuse, left>>

BootKeepsPending ==
    /\ ~ running /\ running' = TRUE
    /\ dead' = study.dead
    /\ Reload({i \in Ids : rows[i].state = "open"})
    /\ UNCHANGED <<ledger, ws, heard, gap, sweep, owed, hour, excuse, left>>

\* boot: an entry that was pending is aborted, an exit that was pending is not read.
Boot ==
    /\ ~ running
    /\ running' = TRUE
    /\ dead' = study.dead
    /\ rows' = [i \in Ids |-> IF rows[i].state = "pending_entry"
                              THEN [rows[i] EXCEPT !.state = "aborted"] ELSE rows[i]]
    /\ Reload({i \in Ids : rows[i].state = "open"})
    /\ UNCHANGED <<stats, study, liquidated, ws, heard, gap, sweep, owed, hour, excuse, left>>

-----------------------------------------------------------------------------
GapStep ==
    \/ \E i \in Ids : AskGap(i) \/ \E x \in BOOLEAN : EndPending(i, x)
    \/ \E c \in BOOLEAN, ev \in Events : AnswerGap(c, ev)
    \/ TurnToPending \/ Unwind \/ Stream
GateStep == Die \/ ForceStop \/ \E x \in BOOLEAN, v \in {"A", "C"} : Gates(x, v)

Next ==
    \/ Publish
    \/ \E p \in Pairs : \/ MaybeEntry(p)
                        \/ \E x \in BOOLEAN : Accrue(p, x)
                        \/ \E x \in BOOLEAN, legs \in SUBSET Legs : Book(p, legs, x)
    \/ GateStep
    \/ StartSweep
    \/ \E i \in Ids, ev \in Events : SweepOne(i, ev)
    \/ Drop \/ Connect \/ GapStep
    \/ Crash \/ Boot

Spec == Init /\ [][Next]_vars

\* pm2 starts the process again, the event loop runs what it has begun, the websocket
\* loop reconnects and the exchange goes on sending books: a window that is over is
\* seen to be.
Expires(p) == \E legs \in SUBSET Legs : Book(p, legs, TRUE)
FairSpec ==
    /\ Spec
    /\ WF_vars(Boot) /\ WF_vars(GateStep) /\ WF_vars(Connect) /\ WF_vars(GapStep)
    /\ WF_vars(\E i \in Ids, ev \in Events : SweepOne(i, ev))
    /\ \A p \in Pairs : WF_vars(Expires(p))

-----------------------------------------------------------------------------
(* Properties.                                                               *)

\* Between two handlers of a running process.
Quiet == running /\ owed = "nothing"

\* An exit that was pending when the process ended: its row is not read again.
Lost(i) == rows[i].state = "pending_exit" /\ mem[i].state = "none"

\* A row that is not settled is the episode of its pair, unless a restart lost its
\* exit; and death leaves none of those open, unless the process ended during it.
Tracked ==
    Quiet => \A i \in Unsettled \ {j \in Ids : Lost(j)} :
                 pool[rows[i].pair] = i /\ (study.dead => "torn" \in excuse)

\* Once a liquidation, a missed hurdle or a low fill rate is on record the study is
\* dead, unless the process ended with the record made and the flag not, or it was a
\* fill that brought the rows to the threshold.  The rate is that of the rows the
\* table has, which attempts of the same time share.
KillCriteria ==
    Quiet /\ "torn" \notin excuse =>
        /\ liquidated # {} \/ study.readout = "C" => study.dead
        /\ RateFails /\ "threshold" \notin excuse => study.dead

\* Nothing enters once the study is dead, whatever restarts.
NoEntryAfterDeath ==
    [][study.dead => \A i \in Ids : rows[i].state = "none" => rows'[i].state = "none"]_vars

\* While the study lives a settled row stays as it was settled, although the replay of
\* a gap goes on with episodes it chose before it waited.
SettledStays ==
    [][\A i \in Ids : Settled(rows[i].state) /\ ~ study.dead
                      => rows'[i].state = rows[i].state]_vars

\* When books stream again, an open episode that an outage has hidden has been replayed
\* at the worst price or its row says so; a restart's own outage is neither.
GapsReplayed ==
    ws = "stream" => \A i \in (In("open") \cap unseen) \ reloaded : rows[i].flagged

\* The result of an episode closed while the study lives holds the funding its row has
\* accrued, unless a restart read the episode back.
PnlCountsFunding ==
    \A i \in ClosedRows \ reloaded : study.dead \/ rows[i].margin = rows[i].cum

Life == INSTANCE EpisodeLifecycle WITH
    phase <- [i \in Ids |-> rows[i].state],
    pair <- [i \in Ids |-> rows[i].pair],
    over <- study.dead

\* The table implements EpisodeLifecycle: through outages, crashes between two commits and
\* restarts no pair has two episodes that are pending or open, a row moves as its phase
\* allows, and a study that is dead enters nothing.
RowsFollowLifecycle == Life!Spec

\* An entry does not stay pending for ever.
PendingEntryResolves ==
    \A i \in Ids : rows[i].state = "pending_entry" ~> rows[i].state # "pending_entry"
=============================================================================
