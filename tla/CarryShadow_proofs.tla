-------------------------- MODULE CarryShadow_proofs --------------------------
(***************************************************************************)
(* The safety properties of the carry study, for any pairs, any number of     *)
(* episodes, hours, outages, sweeps and restarts, and any thresholds.         *)
(***************************************************************************)
EXTENDS CarryShadow, TLAPS, LeastElement

-----------------------------------------------------------------------------
(* Types, variable by variable.                                               *)

RowsType == rows \in [Ids -> Row]
StatsType == stats \in [Legs -> [n : Nat, f : Nat]]
StudyType == study \in [dead : BOOLEAN, readout : {"none", "A", "C"}]
LiquidatedType == liquidated \subseteq Ids
FlagType == running \in BOOLEAN /\ dead \in BOOLEAN /\ heard \in BOOLEAN
PoolType == pool \in [Pairs -> Ids \cup {None}]
MemType == mem \in [Ids -> Episode]
WsType == ws \in {"down", "gap", "stream"}
GapType == gap \in [at : {"none", "next", "asked", "pending", "unwind"}, todo : SUBSET Ids,
                    cur : Ids \cup {None}]
SweepType == sweep \subseteq Ids
OwedType == owed \in {"nothing", "gates", "die", "force"}
HourType == hour \in Nat
HistoryType == unseen \subseteq Ids /\ reloaded \subseteq Ids /\ excuse \subseteq {"torn", "threshold"}
LeftType == left \in [restarts : Nat, drops : Nat, sweeps : Nat]

\* No row is credited an hour that has not been published, and a call that waits for
\* candles knows its episode.
Credited == \A i \in Ids : rows[i].last <= hour
Asked == gap.at \in {"asked", "unwind"} => gap.cur \in Ids

Types ==
    /\ RowsType /\ StatsType /\ StudyType /\ LiquidatedType /\ FlagType /\ PoolType /\ MemType
    /\ WsType /\ GapType /\ SweepType /\ OwedType /\ HourType /\ HistoryType /\ LeftType
    /\ Credited /\ Asked

LEMMA TypesImply == Types => TypeOK
BY DEF Types, TypeOK, RowsType, StatsType, StudyType, LiquidatedType, FlagType, PoolType,
       MemType, WsType, GapType, SweepType, OwedType, HourType, HistoryType, LeftType

(* A variable that stays keeps its type.                                      *)
LEMMA TypesKept ==
    ASSUME Types
    PROVE  /\ UNCHANGED rows => RowsType'
           /\ UNCHANGED stats => StatsType'
           /\ UNCHANGED study => StudyType'
           /\ UNCHANGED liquidated => LiquidatedType'
           /\ UNCHANGED <<running, dead, heard>> => FlagType'
           /\ UNCHANGED pool => PoolType'
           /\ UNCHANGED mem => MemType'
           /\ UNCHANGED ws => WsType'
           /\ UNCHANGED gap => GapType' /\ Asked'
           /\ UNCHANGED sweep => SweepType'
           /\ UNCHANGED owed => OwedType'
           /\ UNCHANGED hour => HourType'
           /\ UNCHANGED <<unseen, reloaded, excuse>> => HistoryType'
           /\ UNCHANGED left => LeftType'
           /\ UNCHANGED <<rows, hour>> => Credited'
<1>1. UNCHANGED rows => RowsType'
  BY DEF Types, RowsType
<1>2. UNCHANGED stats => StatsType'
  BY DEF Types, StatsType
<1>3. UNCHANGED study => StudyType'
  BY DEF Types, StudyType
<1>4. UNCHANGED liquidated => LiquidatedType'
  BY DEF Types, LiquidatedType
<1>5. UNCHANGED <<running, dead, heard>> => FlagType'
  BY Zenon DEF Types, FlagType
<1>6. UNCHANGED pool => PoolType'
  BY DEF Types, PoolType
<1>7. UNCHANGED mem => MemType'
  BY DEF Types, MemType
<1>8. UNCHANGED ws => WsType'
  BY DEF Types, WsType
<1>9. UNCHANGED gap => GapType'
  BY DEF Types, GapType
<1>10. UNCHANGED gap => Asked'
  BY DEF Types, Asked
<1>11. UNCHANGED sweep => SweepType'
  BY DEF Types, SweepType
<1>12. UNCHANGED owed => OwedType'
  BY DEF Types, OwedType
<1>13. UNCHANGED hour => HourType'
  BY DEF Types, HourType
<1>14. UNCHANGED <<unseen, reloaded, excuse>> => HistoryType'
  BY Zenon DEF Types, HistoryType
<1>15. UNCHANGED left => LeftType'
  BY DEF Types, LeftType
<1>16. UNCHANGED <<rows, hour>> => Credited'
  BY Zenon DEF Types, Credited
<1> QED BY <1>1, <1>2, <1>3, <1>4, <1>5, <1>6, <1>7, <1>8, <1>9, <1>10, <1>11, <1>12, <1>13, <1>14, <1>15, <1>16

-----------------------------------------------------------------------------
(* One row changes, or one episode, and the others stay.                      *)

RowIs(i, r) == rows'[i] = r /\ \A j \in Ids : j # i => rows'[j] = rows[j]
EpisodeIs(i, e) == mem'[i] = e /\ \A j \in Ids : j # i => mem'[j] = mem[j]

LEMMA RowSet ==
    ASSUME RowsType, NEW i \in Ids, NEW r \in Row, rows' = [rows EXCEPT ![i] = r]
    PROVE  RowsType' /\ RowIs(i, r)
BY DEF RowsType, RowIs

LEMMA EpisodeSet ==
    ASSUME MemType, NEW i \in Ids, NEW e \in Episode, mem' = [mem EXCEPT ![i] = e]
    PROVE  MemType' /\ EpisodeIs(i, e)
BY DEF MemType, EpisodeIs

LEMMA RowState ==
    ASSUME RowsType, NEW i \in Ids, NEW s \in States, SetRow(i, s)
    PROVE  RowsType' /\ RowIs(i, [rows[i] EXCEPT !.state = s])
BY DEF RowsType, RowIs, SetRow, Row, States

LEMMA EpisodeState ==
    ASSUME MemType, NEW i \in Ids, NEW s \in States, SetEpisode(i, s)
    PROVE  MemType' /\ EpisodeIs(i, [mem[i] EXCEPT !.state = s])
BY DEF MemType, EpisodeIs, SetEpisode, Episode, States

LEMMA RowFlagged ==
    ASSUME RowsType, NEW i \in Ids, rows' = [rows EXCEPT ![i].flagged = TRUE]
    PROVE  RowsType' /\ RowIs(i, [rows[i] EXCEPT !.flagged = TRUE])
BY DEF RowsType, RowIs, Row

LEMMA RowMargin ==
    ASSUME RowsType, NEW i \in Ids, NEW m \in Nat, rows' = [rows EXCEPT ![i].margin = m]
    PROVE  RowsType' /\ RowIs(i, [rows[i] EXCEPT !.margin = m])
BY DEF RowsType, RowIs, Row

LEMMA RowClosed ==
    ASSUME RowsType, NEW i \in Ids, NEW m \in Nat,
           rows' = [rows EXCEPT ![i].state = "closed", ![i].margin = m]
    PROVE  RowsType' /\ RowIs(i, [rows[i] EXCEPT !.state = "closed", !.margin = m])
BY ZenonT(40) DEF RowsType, RowIs, Row, States

LEMMA RowOpens ==
    ASSUME RowsType, NEW i \in Ids, NEW h \in Nat,
           rows' = [rows EXCEPT ![i].state = "open", ![i].last = h]
    PROVE  RowsType' /\ RowIs(i, [rows[i] EXCEPT !.state = "open", !.last = h])
BY ZenonT(40) DEF RowsType, RowIs, Row, States

LEMMA EpisodeOpens ==
    ASSUME MemType, NEW i \in Ids, mem' = [mem EXCEPT ![i].state = "open", ![i].legs = {}]
    PROVE  MemType' /\ EpisodeIs(i, [mem[i] EXCEPT !.state = "open", !.legs = {}])
BY DEF MemType, EpisodeIs, Episode, States

LEMMA EpisodeLegs ==
    ASSUME MemType, NEW i \in Ids, NEW legs \in SUBSET Legs, mem' = [mem EXCEPT ![i].legs = legs]
    PROVE  MemType' /\ EpisodeIs(i, [mem[i] EXCEPT !.legs = legs])
BY DEF MemType, EpisodeIs, Episode

LEMMA EpisodeAccrues ==
    ASSUME MemType, NEW i \in Ids, NEW n \in Nat, NEW s \in States,
           mem' = [mem EXCEPT ![i].funding = n, ![i].state = s]
    PROVE  MemType' /\ EpisodeIs(i, [mem[i] EXCEPT !.funding = n, !.state = s])
BY DEF MemType, EpisodeIs, Episode, States

LEMMA RowAccrues ==
    ASSUME RowsType, NEW i \in Ids, NEW s \in States, NEW c \in Nat, NEW h \in Nat,
           rows' = [rows EXCEPT ![i].cum = c, ![i].last = h, ![i].state = s]
    PROVE  RowsType' /\ RowIs(i, [rows[i] EXCEPT !.cum = c, !.last = h, !.state = s])
<1> DEFINE r1 == [rows[i] EXCEPT !.cum = c]
           r2 == [r1 EXCEPT !.last = h]
           r3 == [r2 EXCEPT !.state = s]
           f1 == [rows EXCEPT ![i] = r1]
           f2 == [f1 EXCEPT ![i] = r2]
<1>1. rows[i] \in Row /\ DOMAIN rows = Ids /\ rows = [j \in Ids |-> rows[j]]
  BY DEF RowsType
<1>2. r1 \in Row
  BY <1>1 DEF Row
<1>3. r2 \in Row
  <2> HIDE DEF r1
  <2> QED BY <1>2 DEF Row
<1>4. r3 \in Row
  <2> HIDE DEF r2
  <2> QED BY <1>3 DEF Row, States
<1>5. f1[i] = r1 /\ f1 = [j \in Ids |-> IF j = i THEN r1 ELSE rows[j]]
  <2> HIDE DEF r1
  <2> QED BY <1>1
<1>6. f2[i] = r2 /\ f2 = [j \in Ids |-> IF j = i THEN r2 ELSE rows[j]]
  <2> HIDE DEF r1, r2, f1
  <2> QED BY <1>1, <1>5 DEF f2
<1>7. rows' = [f2 EXCEPT ![i] = [f2[i] EXCEPT !.state = s]]
  <2>1. f1 = [rows EXCEPT ![i].cum = c]
    OBVIOUS
  <2>2. f2 = [f1 EXCEPT ![i].last = h]
    BY <1>5
  <2> QED BY <2>1, <2>2
<1>8. rows' = [j \in Ids |-> IF j = i THEN r3 ELSE rows[j]]
  <2> HIDE DEF r1, r2, f1, f2
  <2> QED BY <1>6, <1>7 DEF r3
<1> HIDE DEF r1, r2, r3, f1, f2
<1>9. rows'[i] = r3 /\ \A j \in Ids : j # i => rows'[j] = rows[j]
  BY <1>8
<1>10. RowsType'
  BY <1>8, <1>4, <1>1 DEF RowsType
<1> QED BY <1>9, <1>10 DEF RowIs, r3, r2, r1

LEMMA StatsRecorded ==
    ASSUME StatsType, NEW i, NEW written, NEW legs, Record(i, written, legs)
    PROVE  StatsType'
<1>1. PICK old \in [Legs -> {"none", "unfilled", "filled"}] :
         /\ \A l \in Legs : old[l] = "filled" => stats[l].f > 0
         /\ stats' = [l \in Legs |->
               IF l \notin written THEN stats[l]
               ELSE [n |-> stats[l].n + One(old[l] = "none"),
                     f |-> stats[l].f + One(l \in legs) - One(old[l] = "filled")]]
  BY DEF Record
<1>2. ASSUME NEW l \in Legs PROVE stats'[l] \in [n : Nat, f : Nat]
  <2>1. stats[l].n \in Nat /\ stats[l].f \in Nat /\ stats[l] \in [n : Nat, f : Nat]
    BY DEF StatsType
  <2>2. stats[l].n + One(old[l] = "none") \in Nat
    BY <2>1 DEF One
  <2>3. stats[l].f + One(l \in legs) - One(old[l] = "filled") \in Nat
    <3>1. CASE old[l] = "filled"
      BY <1>1, <2>1, <3>1 DEF One
    <3>2. CASE old[l] # "filled"
      BY <2>1, <3>2 DEF One
    <3> QED BY <3>1, <3>2
  <2> QED BY <1>1, <2>1, <2>2, <2>3
<1>3. DOMAIN stats' = Legs /\ stats' = [l \in Legs |-> stats'[l]]
  BY <1>1
<1> QED BY <1>2, <1>3 DEF StatsType

LEMMA FundSpent ==
    ASSUME LeftType, NEW f \in {"restarts", "drops", "sweeps"}, Spend(f)
    PROVE  LeftType'
BY DEF LeftType, Spend

LEMMA NextIdUnused == Unused # {} => NextId \in Unused
<1> SUFFICES ASSUME Unused # {} PROVE NextId \in Unused
  OBVIOUS
<1>1. Unused \in SUBSET Nat
  BY BoundsAssumption DEF Unused, Ids
<1>2. \E i \in Unused : \A j \in Unused : i <= j
  BY <1>1, Minimum
<1> QED BY <1>2, Zenon DEF NextId

LEMMA LiveIds == PoolType => LiveEpisodes \subseteq Ids
BY DEF PoolType, LiveEpisodes

-----------------------------------------------------------------------------
(* What the handlers do to an episode.                                        *)

\* Every row but i's stays, and i's keeps its pair, hours and flag.
RowsBut(i) ==
    /\ rows'[i].pair = rows[i].pair /\ rows'[i].last = rows[i].last
    /\ rows'[i].cum = rows[i].cum /\ rows'[i].flagged = rows[i].flagged
    /\ \A j \in Ids : j # i => rows'[j] = rows[j]
EpisodesBut(i) == \A j \in Ids : j # i => mem'[j] = mem[j]

\* An episode is settled, and its pair may be free.
Ended(i) ==
    /\ RowsBut(i) /\ EpisodesBut(i)
    /\ Settled(rows'[i].state) /\ mem'[i].state = rows'[i].state
    /\ rows'[i].state = "closed" => rows'[i].margin = mem[i].funding
    /\ pool' = Without(rows[i].pair) \/ pool' = pool

EndTypes == RowsType' /\ MemType' /\ PoolType' /\ OwedType' /\ Credited'

LEMMA RowsButCredited ==
    ASSUME Types, NEW i \in Ids, RowsBut(i), UNCHANGED hour
    PROVE  Credited'
BY DEF Types, Credited, RowsBut

LEMMA WithoutType ==
    ASSUME PoolType, NEW p
    PROVE  Without(p) \in [Pairs -> Ids \cup {None}]
BY DEF PoolType, Without

LEMMA AbortedEffect ==
    ASSUME Types, NEW i \in Ids, NEW legs \in SUBSET Legs, Aborted(i, legs), UNCHANGED hour
    PROVE  EndTypes /\ StatsType' /\ Ended(i) /\ rows'[i].state = "aborted"
<1>1. "aborted" \in States
  BY DEF States
<1>2. RowsType' /\ RowIs(i, [rows[i] EXCEPT !.state = "aborted"])
  BY <1>1, RowState, Zenon DEF Types, Aborted
<1>3. MemType' /\ EpisodeIs(i, [mem[i] EXCEPT !.state = "aborted"])
  BY <1>1, EpisodeState, Zenon DEF Types, Aborted
<1>4. rows[i] \in Row /\ mem[i] \in Episode
  BY DEF Types, RowsType, MemType
<1>5. RowsBut(i) /\ rows'[i].state = "aborted"
  BY <1>2, <1>4 DEF RowIs, RowsBut, Row
<1>6. EpisodesBut(i) /\ mem'[i].state = "aborted"
  BY <1>3, <1>4 DEF EpisodeIs, EpisodesBut, Episode
<1>7. Ended(i)
  BY <1>5, <1>6 DEF Ended, Settled, Aborted
<1>8. PoolType' /\ OwedType' /\ StatsType'
  BY WithoutType, StatsRecorded DEF Types, Aborted, PoolType, OwedType
<1> QED BY <1>2, <1>3, <1>5, <1>7, <1>8, RowsButCredited DEF EndTypes

LEMMA ClosedEffect ==
    ASSUME Types, NEW i \in Ids, Closed(i), UNCHANGED hour
    PROVE  EndTypes /\ Ended(i) /\ rows'[i].state = "closed"
<1>1. rows[i] \in Row /\ mem[i] \in Episode /\ mem[i].funding \in Nat
  BY DEF Types, RowsType, MemType, Episode
<1>2. RowsType' /\ RowIs(i, [rows[i] EXCEPT !.state = "closed", !.margin = mem[i].funding])
  BY <1>1, RowClosed, Zenon DEF Types, Closed
<1>3. MemType' /\ EpisodeIs(i, [mem[i] EXCEPT !.state = "closed"])
  <2>1. "closed" \in States
    BY DEF States
  <2> QED BY <2>1, EpisodeState, Zenon DEF Types, Closed
<1>4. RowsBut(i) /\ rows'[i].state = "closed" /\ rows'[i].margin = mem[i].funding
  BY <1>1, <1>2 DEF RowIs, RowsBut, Row
<1>5. EpisodesBut(i) /\ mem'[i].state = "closed"
  BY <1>1, <1>3 DEF EpisodeIs, EpisodesBut, Episode
<1>6. Ended(i)
  BY <1>4, <1>5 DEF Ended, Settled, Closed
<1>7. PoolType' /\ OwedType'
  BY WithoutType DEF Types, Closed, PoolType, OwedType
<1> QED BY <1>2, <1>3, <1>4, <1>6, <1>7, RowsButCredited DEF EndTypes

\* A margin check that leaves the episode as it is, moves margin or settles it.
Unmoved == UNCHANGED <<rows, mem, pool, liquidated, owed>>
Rebalanced(i) ==
    /\ RowsBut(i) /\ rows'[i].state = rows[i].state /\ rows'[i].margin = mem[i].funding
    /\ UNCHANGED <<mem, pool, liquidated, owed>>
Struck(i) ==
    /\ Ended(i)
    /\ \/ owed' = "gates" /\ UNCHANGED liquidated /\ rows'[i].state = "closed"
       \/ owed' = (IF dead THEN "nothing" ELSE "die") /\ rows'[i].state = "liquidated"
          /\ liquidated' = liquidated \cup {i}

LEMMA MarginTickEffect ==
    ASSUME Types, NEW i \in Ids, NEW ev \in Events, MarginTick(i, ev), UNCHANGED hour
    PROVE  /\ EndTypes /\ LiquidatedType'
           /\ \/ Unmoved
              \/ mem[i].state = "open" /\ (Rebalanced(i) \/ Struck(i))
<1>1. rows[i] \in Row /\ mem[i] \in Episode /\ mem[i].funding \in Nat
  BY DEF Types, RowsType, MemType, Episode
<1>2. CASE Unmoved
  <2>1. RowsType' /\ MemType' /\ PoolType' /\ OwedType' /\ LiquidatedType'
    BY <1>2, TypesKept DEF Unmoved
  <2>2. Credited'
    BY <1>2, TypesKept DEF Unmoved
  <2> QED BY <1>2, <2>1, <2>2 DEF EndTypes
<1>3. CASE /\ mem[i].state = "open"
           /\ rows' = [rows EXCEPT ![i].margin = mem[i].funding]
           /\ UNCHANGED <<mem, pool, liquidated, owed>>
  <2>1. RowsType' /\ RowIs(i, [rows[i] EXCEPT !.margin = mem[i].funding])
    BY <1>1, <1>3, RowMargin, Zenon DEF Types
  <2>2. RowsBut(i) /\ rows'[i].state = rows[i].state /\ rows'[i].margin = mem[i].funding
    BY <1>1, <2>1 DEF RowIs, RowsBut, Row
  <2>3. MemType' /\ PoolType' /\ OwedType' /\ LiquidatedType'
    BY <1>3, TypesKept
  <2> QED BY <1>3, <2>1, <2>2, <2>3, RowsButCredited DEF EndTypes, Rebalanced
<1>4. CASE mem[i].state = "open" /\ Closed(i) /\ UNCHANGED liquidated
  <2>1. EndTypes /\ Ended(i) /\ rows'[i].state = "closed"
    BY <1>4, ClosedEffect
  <2>2. LiquidatedType'
    BY <1>4, TypesKept
  <2> QED BY <1>4, <2>1, <2>2 DEF Struck, Closed
<1>5. CASE /\ mem[i].state = "open"
           /\ SetRow(i, "liquidated") /\ SetEpisode(i, "liquidated")
           /\ liquidated' = liquidated \cup {i}
           /\ owed' = IF dead THEN "nothing" ELSE "die"
           /\ UNCHANGED pool
  <2>1. "liquidated" \in States
    BY DEF States
  <2>2. RowsType' /\ RowIs(i, [rows[i] EXCEPT !.state = "liquidated"])
    BY <1>5, <2>1, RowState DEF Types
  <2>3. MemType' /\ EpisodeIs(i, [mem[i] EXCEPT !.state = "liquidated"])
    BY <1>5, <2>1, EpisodeState DEF Types
  <2>4. RowsBut(i) /\ rows'[i].state = "liquidated"
    BY <1>1, <2>2 DEF RowIs, RowsBut, Row
  <2>5. EpisodesBut(i) /\ mem'[i].state = "liquidated"
    BY <1>1, <2>3 DEF EpisodeIs, EpisodesBut, Episode
  <2>6. Ended(i)
    BY <1>5, <2>4, <2>5 DEF Ended, Settled
  <2>7. PoolType' /\ OwedType' /\ LiquidatedType'
    <3>1. owed' = "nothing" \/ owed' = "die"
      BY <1>5
    <3> QED BY <1>5, <3>1 DEF Types, PoolType, OwedType, LiquidatedType
  <2> QED BY <1>5, <2>2, <2>3, <2>4, <2>6, <2>7, RowsButCredited DEF EndTypes, Struck
<1> QED BY <1>2, <1>3, <1>4, <1>5, Zenon DEF MarginTick, Unmoved

\* A fill completes the entry.
OpenedNow(i) ==
    /\ rows'[i].pair = rows[i].pair /\ rows'[i].last = hour /\ rows'[i].cum = rows[i].cum
    /\ rows'[i].flagged = rows[i].flagged /\ rows'[i].state = "open"
    /\ \A j \in Ids : j # i => rows'[j] = rows[j]
    /\ EpisodesBut(i) /\ mem'[i].state = "open" /\ mem'[i].funding = mem[i].funding

LEMMA OpenedEffect ==
    ASSUME Types, NEW i \in Ids, Opened(i), UNCHANGED hour
    PROVE  /\ RowsType' /\ MemType' /\ StatsType' /\ Credited'
           /\ excuse' \subseteq {"torn", "threshold"}
           /\ OpenedNow(i)
<1>1. rows[i] \in Row /\ mem[i] \in Episode /\ hour \in Nat
  BY DEF Types, RowsType, MemType, HourType
<1>2. RowsType' /\ RowIs(i, [rows[i] EXCEPT !.state = "open", !.last = hour])
  BY <1>1, RowOpens, Zenon DEF Types, Opened
<1>3. MemType' /\ EpisodeIs(i, [mem[i] EXCEPT !.state = "open", !.legs = {}])
  BY EpisodeOpens, Zenon DEF Types, Opened
<1>4. StatsType'
  BY StatsRecorded DEF Types, Opened
<1>5. excuse' \subseteq {"torn", "threshold"}
  BY DEF Types, HistoryType, Opened
<1>6. OpenedNow(i)
  BY <1>1, <1>2, <1>3 DEF RowIs, EpisodeIs, OpenedNow, EpisodesBut, Row, Episode
<1>7. Credited'
  BY <1>1, <1>6 DEF OpenedNow, Types, Credited
<1> QED BY <1>2, <1>3, <1>4, <1>5, <1>6, <1>7

-----------------------------------------------------------------------------
(* Every step keeps the types.                                                *)

LEMMA PublishTypes == Types /\ Publish => Types'
<1> SUFFICES ASSUME Types, Publish PROVE Types'
  OBVIOUS
<1>1. HourType' /\ Credited'
  BY DEF Types, HourType, Credited, RowsType, Row, Publish, ledger
<1> QED BY <1>1, TypesKept DEF Types, Publish, ledger, process

LEMMA AccrueEffect ==
    ASSUME Types, NEW p \in Pairs, NEW exits \in BOOLEAN, Accrue(p, exits)
    PROVE  LET i == pool[p]
               s == IF exits THEN "pending_exit" ELSE mem[i].state
               n == hour - rows[i].last
           IN  /\ i \in LiveEpisodes /\ i \in Ids /\ mem[i].state \in {"open", "pending_exit"}
               /\ s \in {"open", "pending_exit"}
               /\ RowsType' /\ MemType'
               /\ RowIs(i, [rows[i] EXCEPT !.cum = rows[i].cum + n, !.last = hour, !.state = s])
               /\ EpisodeIs(i, [mem[i] EXCEPT !.funding = mem[i].funding + n, !.state = s])
<1> DEFINE i == pool[p]
           s == IF exits THEN "pending_exit" ELSE mem[i].state
           n == hour - rows[i].last
<1>1. i \in LiveEpisodes /\ mem[i].state \in {"open", "pending_exit"} /\ i \in Ids
  BY LiveIds DEF Types, Accrue, In
<1>2. s \in {"open", "pending_exit"} /\ s \in States
  BY <1>1 DEF States
<1>3. rows[i].cum + n \in Nat /\ mem[i].funding + n \in Nat /\ hour \in Nat
  <2>1. rows[i].cum \in Nat /\ rows[i].last \in Nat /\ mem[i].funding \in Nat
    BY <1>1 DEF Types, RowsType, MemType, Row, Episode
  <2>2. hour \in Nat /\ rows[i].last <= hour
    BY <1>1 DEF Types, HourType, Credited
  <2> QED BY <2>1, <2>2
<1>4. rows' = [rows EXCEPT ![i].cum = rows[i].cum + n, ![i].last = hour, ![i].state = s]
  BY DEF Accrue
<1>5. mem' = [mem EXCEPT ![i].funding = mem[i].funding + n, ![i].state = s]
  BY DEF Accrue
<1> HIDE DEF i, s, n
<1>6. /\ RowsType'
      /\ RowIs(i, [rows[i] EXCEPT !.cum = rows[i].cum + n, !.last = hour, !.state = s])
  BY <1>1, <1>2, <1>3, <1>4, RowAccrues, Zenon DEF Types
<1>7. MemType' /\ EpisodeIs(i, [mem[i] EXCEPT !.funding = mem[i].funding + n, !.state = s])
  BY <1>1, <1>2, <1>3, <1>5, EpisodeAccrues, Zenon DEF Types
<1> QED BY <1>1, <1>2, <1>6, <1>7 DEF i, s, n

\* Funding is credited to one episode, up to the current hour.
Accrued(i, s, n) ==
    /\ rows'[i].pair = rows[i].pair /\ rows'[i].flagged = rows[i].flagged
    /\ rows'[i].state = s /\ rows'[i].last = hour /\ rows'[i].cum = rows[i].cum + n
    /\ \A j \in Ids : j # i => rows'[j] = rows[j]
    /\ EpisodesBut(i) /\ mem'[i].state = s /\ mem'[i].funding = mem[i].funding + n

LEMMA AccrueStep ==
    ASSUME Types, NEW p \in Pairs, NEW exits \in BOOLEAN, Accrue(p, exits)
    PROVE  /\ Types'
           /\ pool[p] \in LiveEpisodes /\ pool[p] \in Ids
           /\ mem[pool[p]].state \in {"open", "pending_exit"}
           /\ \E s \in {"open", "pending_exit"}, n \in Int :
                  Accrued(pool[p], s, n) /\ (s = "open" => mem[pool[p]].state = "open")
<1> DEFINE i == pool[p]
           s == IF exits THEN "pending_exit" ELSE mem[i].state
           n == hour - rows[i].last
<1>1. /\ i \in LiveEpisodes /\ i \in Ids /\ mem[i].state \in {"open", "pending_exit"}
      /\ s \in {"open", "pending_exit"}
      /\ RowsType' /\ MemType'
      /\ RowIs(i, [rows[i] EXCEPT !.cum = rows[i].cum + n, !.last = hour, !.state = s])
      /\ EpisodeIs(i, [mem[i] EXCEPT !.funding = mem[i].funding + n, !.state = s])
  BY AccrueEffect
<1>2. rows[i] \in Row /\ mem[i] \in Episode /\ n \in Int /\ hour \in Nat
  BY <1>1 DEF Types, RowsType, MemType, Row, HourType
<1>7. s = "open" => mem[i].state = "open"
  OBVIOUS
<1> HIDE DEF i, s, n
<1>3. Accrued(i, s, n)
  BY <1>1, <1>2 DEF Accrued, RowIs, EpisodeIs, EpisodesBut, Row, Episode
<1>4. hour' = hour /\ UNCHANGED <<stats, study, liquidated, running, pool, dead, ws, heard,
                                  gap, sweep, owed, unseen, reloaded, excuse, left>>
  BY DEF Accrue
<1>5. Credited'
  BY <1>2, <1>3, <1>4 DEF Types, Credited, Accrued
<1>6. Types'
  BY <1>1, <1>4, <1>5, TypesKept DEF Types
<1>8. \E t \in {"open", "pending_exit"}, k \in Int :
          Accrued(i, t, k) /\ (t = "open" => mem[i].state = "open")
  BY <1>1, <1>2, <1>3, <1>7
<1> QED BY <1>1, <1>6, <1>8 DEF i

\* A new row, and its episode in the pool.
Entered(i, p) ==
    /\ rows[i].state = "none"
    /\ rows'[i] = [NoRow EXCEPT !.pair = p, !.state = "pending_entry"]
    /\ \A j \in Ids : j # i => rows'[j] = rows[j]
    /\ mem'[i] = [NoEpisode EXCEPT !.state = "pending_entry"]
    /\ EpisodesBut(i)
    /\ pool' = [pool EXCEPT ![p] = i]

LEMMA EntryStep ==
    ASSUME Types, NEW p \in Pairs, MaybeEntry(p)
    PROVE  Types' /\ \E i \in Ids : Entered(i, p)
<1> DEFINE i == NextId
           r == [NoRow EXCEPT !.pair = p, !.state = "pending_entry"]
           e == [NoEpisode EXCEPT !.state = "pending_entry"]
<1>1. i \in Ids /\ rows[i].state = "none"
  BY NextIdUnused DEF MaybeEntry, Unused
<1>2. r \in Row /\ e \in Episode
  BY DEF NoRow, Row, States, NoEpisode, Episode
<1>3. r.last = 0
  BY DEF NoRow
<1>4. rows' = [rows EXCEPT ![i] = r] /\ mem' = [mem EXCEPT ![i] = e]
      /\ pool' = [pool EXCEPT ![p] = i]
  BY DEF MaybeEntry
<1>5. UNCHANGED <<stats, study, liquidated, running, dead, ws, heard, gap, sweep, owed,
                   hour, unseen, reloaded, excuse, left>>
  BY DEF MaybeEntry
<1> HIDE DEF i, r, e
<1>6. RowsType' /\ RowIs(i, r)
  BY <1>1, <1>2, <1>4, RowSet, Zenon DEF Types
<1>7. MemType' /\ EpisodeIs(i, e)
  BY <1>1, <1>2, <1>4, EpisodeSet, Zenon DEF Types
<1>8. PoolType'
  BY <1>1, <1>4 DEF Types, PoolType
<1>9. Credited'
  <2>1. hour' = hour /\ hour \in Nat
    BY <1>5 DEF Types, HourType
  <2> QED BY <1>3, <1>6, <2>1 DEF RowIs, Types, Credited
<1>10. Types'
  BY <1>5, <1>6, <1>7, <1>8, <1>9, TypesKept DEF Types
<1>11. Entered(i, p)
  BY <1>1, <1>4, <1>6, <1>7 DEF Entered, RowIs, EpisodeIs, EpisodesBut, r, e
<1> QED BY <1>1, <1>10, <1>11

\* What a book tick does: nothing, another leg, an entry complete, an episode settled.
Filled(i) == UNCHANGED <<rows, stats, pool, owed, excuse>> /\ EpisodesBut(i)
             /\ mem'[i].state = mem[i].state /\ mem'[i].funding = mem[i].funding
Booked(i) ==
    \/ UNCHANGED <<rows, stats, mem, pool, owed, excuse>>
    \/ /\ i \in Ids /\ i \in LiveEpisodes
       /\ \/ Filled(i)
          \/ mem[i].state = "pending_entry" /\ Opened(i) /\ OpenedNow(i)
          \/ /\ mem[i].state \in {"pending_entry", "pending_exit"}
             /\ Ended(i) /\ owed' = "gates" /\ UNCHANGED excuse
             /\ mem[i].state = "pending_entry" => rows'[i].state = "aborted"
             /\ mem[i].state = "pending_exit" => rows'[i].state = "closed"

LEMMA BookStep ==
    ASSUME Types, NEW p \in Pairs, NEW legs \in SUBSET Legs, NEW expired \in BOOLEAN,
           Book(p, legs, expired)
    PROVE  Types' /\ Booked(pool[p])
<1> DEFINE i == pool[p]
<1>1. heard' = TRUE /\ owed = "nothing"
      /\ UNCHANGED <<study, liquidated, running, dead, ws, gap, sweep, hour, unseen,
                     reloaded, left>>
  BY DEF Book, Free, Held
<1>2. FlagType'
  BY <1>1, Zenon DEF Types, FlagType
<1>3. CASE UNCHANGED <<rows, stats, mem, pool, owed, excuse>>
  BY <1>1, <1>2, <1>3, TypesKept DEF Types, Booked
<1>4. CASE i \in In("pending_entry") \cup In("pending_exit")
  <2>1. i \in Ids /\ i \in LiveEpisodes /\ mem[i].state \in {"pending_entry", "pending_exit"}
    BY <1>4, LiveIds DEF Types, In
  <2>2. HistoryType' <=> excuse' \subseteq {"torn", "threshold"}
    BY <1>1 DEF Types, HistoryType
  <2>3. CASE mem[i].state = "pending_entry" /\ Opened(i)
    <3>1. RowsType' /\ MemType' /\ StatsType' /\ Credited' /\ HistoryType' /\ OpenedNow(i)
      BY <1>1, <2>1, <2>2, <2>3, OpenedEffect
    <3>2. PoolType' /\ OwedType'
      BY <2>3, TypesKept DEF Opened
    <3> QED BY <1>1, <1>2, <2>1, <2>3, <3>1, <3>2, TypesKept DEF Types, Booked
  <2>4. CASE mem[i].state = "pending_entry" /\ Aborted(i, legs) /\ UNCHANGED excuse
    <3>1. EndTypes /\ StatsType' /\ Ended(i) /\ rows'[i].state = "aborted"
      BY <1>1, <2>1, <2>4, AbortedEffect
    <3>2. owed' = "gates"
      BY <2>4 DEF Aborted
    <3> QED BY <1>1, <1>2, <2>1, <2>4, <3>1, <3>2, TypesKept DEF Types, Booked, EndTypes
  <2>5. CASE mem[i].state = "pending_exit" /\ Closed(i) /\ Record(i, Legs, legs) /\ UNCHANGED excuse
    <3>1. EndTypes /\ Ended(i) /\ rows'[i].state = "closed"
      BY <1>1, <2>1, <2>5, ClosedEffect
    <3>2. owed' = "gates" /\ StatsType'
      BY <2>5, StatsRecorded DEF Closed, Types
    <3> QED BY <1>1, <1>2, <2>1, <2>5, <3>1, <3>2, TypesKept DEF Types, Booked, EndTypes
  <2>6. CASE mem' = [mem EXCEPT ![i].legs = legs] /\ UNCHANGED <<rows, stats, pool, owed, excuse>>
    <3>1. MemType' /\ EpisodeIs(i, [mem[i] EXCEPT !.legs = legs])
      BY <2>1, <2>6, EpisodeLegs, Zenon DEF Types
    <3>2. mem[i] \in Episode
      BY <2>1 DEF Types, MemType
    <3>3. Filled(i)
      BY <2>6, <3>1, <3>2 DEF Filled, EpisodeIs, EpisodesBut, Episode
    <3> QED BY <1>1, <1>2, <2>1, <2>6, <3>1, <3>3, TypesKept DEF Types, Booked
  <2> QED BY <1>4, <2>3, <2>4, <2>5, <2>6, Zenon DEF Book
<1> QED BY <1>3, <1>4, Zenon DEF Book


LEMMA GatesTypes ==
    ASSUME Types, NEW x \in BOOLEAN, NEW v \in {"A", "C"}, Gates(x, v)
    PROVE  Types'
<1>1. UNCHANGED <<rows, stats, liquidated, running, pool, mem, dead, ws, heard, gap,
                  sweep, hour, unseen, reloaded, left>>
  BY DEF Gates
<1>2. HistoryType'
  BY DEF Gates, Types, HistoryType
<1>3. StudyType' /\ OwedType'
  <2>1. owed' \in {"nothing", "die"}
    BY DEF Gates, FinalReadout
  <2>2. UNCHANGED study \/ study' = [study EXCEPT !.readout = v]
    BY Zenon DEF Gates, FinalReadout
  <2> QED BY <2>1, <2>2 DEF Types, StudyType, OwedType
<1> QED BY <1>1, <1>2, <1>3, TypesKept DEF Types

LEMMA DieTypes == Types /\ Die => Types'
<1> SUFFICES ASSUME Types, Die PROVE Types'
  OBVIOUS
<1>1. UNCHANGED <<rows, stats, liquidated, running, pool, mem, ws, heard, gap, sweep,
                  hour, unseen, reloaded, excuse, left>>
  BY DEF Die
<1>2. StudyType' /\ OwedType'
  BY DEF Die, Types, StudyType, OwedType
<1>3. FlagType'
  BY DEF Die, Types, FlagType
<1> QED BY <1>1, <1>2, <1>3, TypesKept DEF Types

\* The rows of some ids get another state, and nothing else of them changes.
RowsOnlyState ==
    \A i \in Ids :
        /\ rows'[i].pair = rows[i].pair /\ rows'[i].last = rows[i].last
        /\ rows'[i].cum = rows[i].cum /\ rows'[i].margin = rows[i].margin
        /\ rows'[i].flagged = rows[i].flagged

LEMMA StoppedEffect ==
    ASSUME Types, NEW S, rows' = Stopped(S)
    PROVE  /\ RowsType' /\ RowsOnlyState
           /\ \A i \in Ids : IF i \in S THEN rows'[i].state = "closed"
                             ELSE rows'[i] = rows[i]
<1>1. ASSUME NEW i \in Ids
      PROVE  /\ rows[i] \in Row
             /\ rows'[i] = IF i \in S THEN [rows[i] EXCEPT !.state = "closed"] ELSE rows[i]
  BY DEF Stopped, Types, RowsType
<1>2. \A i \in Ids : rows'[i] \in Row
  BY ZenonT(40), <1>1 DEF Row, States
<1>3. RowsType'
  BY <1>2 DEF Stopped, RowsType
<1>4. RowsOnlyState /\ \A i \in Ids : IF i \in S THEN rows'[i].state = "closed"
                                      ELSE rows'[i] = rows[i]
  BY <1>1 DEF RowsOnlyState, Row
<1> QED BY <1>3, <1>4

LEMMA ForceStopStep ==
    ASSUME Types, ForceStop
    PROVE  /\ Types' /\ RowsOnlyState
           /\ \A i \in Ids : IF i \in LiveEpisodes THEN rows'[i].state = "closed"
                             ELSE rows'[i] = rows[i]
<1>1. owed' = "nothing" /\ pool' = NoPool
      /\ UNCHANGED <<stats, study, liquidated, running, mem, dead, ws, heard, gap, sweep,
                     hour, unseen, reloaded, excuse, left>>
  BY DEF ForceStop
<1>2. RowsType' /\ RowsOnlyState
      /\ \A i \in Ids : IF i \in LiveEpisodes THEN rows'[i].state = "closed"
                        ELSE rows'[i] = rows[i]
  BY StoppedEffect DEF ForceStop
<1>3. PoolType' /\ OwedType'
  BY <1>1 DEF PoolType, OwedType, NoPool
<1>4. Credited'
  BY <1>1, <1>2 DEF RowsOnlyState, Types, Credited
<1> QED BY <1>1, <1>2, <1>3, <1>4, TypesKept DEF Types

LEMMA StartSweepTypes == Types /\ StartSweep => Types'
<1> SUFFICES ASSUME Types, StartSweep PROVE Types'
  OBVIOUS
<1>1. LeftType'
  BY FundSpent DEF Types, StartSweep
<1>2. SweepType'
  BY LiveIds DEF Types, StartSweep, SweepType
<1>3. UNCHANGED <<rows, stats, study, liquidated, running, pool, mem, dead, ws, heard, gap,
                  owed, hour, unseen, reloaded, excuse>>
  BY DEF StartSweep, ledger
<1> QED BY <1>1, <1>2, <1>3, TypesKept DEF Types

\* What a margin check found and did.
Ticked(i) ==
    \/ Unmoved
    \/ mem[i].state = "open" /\ (Rebalanced(i) \/ Struck(i))

LEMMA SweepStep ==
    ASSUME Types, NEW i \in Ids, NEW ev \in Events, SweepOne(i, ev)
    PROVE  Types' /\ Ticked(i)
<1>1. UNCHANGED <<stats, study, running, dead, ws, heard, gap, hour, unseen, reloaded,
                  excuse, left>> /\ sweep' = sweep \ {i} /\ MarginTick(i, ev)
  BY DEF SweepOne
<1>2. EndTypes /\ LiquidatedType' /\ Ticked(i)
  BY <1>1, MarginTickEffect DEF Ticked
<1>3. SweepType'
  BY <1>1 DEF Types, SweepType
<1> QED BY <1>1, <1>2, <1>3, TypesKept DEF Types, EndTypes

LEMMA DropTypes == Types /\ Drop => Types'
<1> SUFFICES ASSUME Types, Drop PROVE Types'
  OBVIOUS
<1>1. LeftType' /\ WsType'
  BY FundSpent DEF Types, Drop, WsType
<1>2. HistoryType'
  BY LiveIds DEF Types, Drop, HistoryType, In
<1>3. UNCHANGED <<rows, stats, study, liquidated, running, pool, mem, dead, heard, gap,
                  sweep, owed, hour>>
  BY DEF Drop, ledger
<1> QED BY <1>1, <1>2, <1>3, TypesKept DEF Types

LEMMA ConnectTypes == Types /\ Connect => Types'
<1> SUFFICES ASSUME Types, Connect PROVE Types'
  OBVIOUS
<1>1. UNCHANGED <<rows, stats, study, liquidated, running, pool, mem, dead, heard, sweep,
                  owed, hour, unseen, reloaded, excuse, left>>
  BY DEF Connect, ledger
<1>2. WsType'
  BY DEF Connect, WsType
<1>3. LiveEpisodes \in SUBSET Ids
  BY LiveIds DEF Types
<1>4. GapType' /\ Asked'
  <2>1. CASE gap' = gap
    BY <2>1, TypesKept
  <2>2. CASE gap' = [NoGap EXCEPT !.at = "next", !.todo = LiveEpisodes]
    BY <1>3, <2>2 DEF NoGap, GapType, Asked
  <2> QED BY <2>1, <2>2, Zenon DEF Connect
<1> QED BY <1>1, <1>2, <1>4, TypesKept DEF Types

LEMMA AskGapTypes ==
    ASSUME Types, NEW i \in Ids, AskGap(i)
    PROVE  Types'
<1>1. UNCHANGED <<rows, stats, study, liquidated, running, pool, mem, dead, ws, heard,
                  sweep, owed, hour, unseen, reloaded, excuse, left>>
  BY DEF AskGap, ledger
<1>2. GapType' /\ Asked'
  BY DEF AskGap, Types, GapType, Asked
<1> QED BY <1>1, <1>2, TypesKept DEF Types

LEMMA AnswerGapStep ==
    ASSUME Types, NEW c \in BOOLEAN, NEW ev \in Events, AnswerGap(c, ev)
    PROVE  /\ Types' /\ gap.cur \in Ids
           /\ \/ c /\ Ticked(gap.cur)
              \/ /\ ~ c /\ RowIs(gap.cur, [rows[gap.cur] EXCEPT !.flagged = TRUE])
                 /\ UNCHANGED <<mem, pool, liquidated, owed>>
<1> DEFINE i == gap.cur
<1>1. i \in Ids
  BY DEF AnswerGap, Types, Asked
<1>2. UNCHANGED <<stats, study, running, dead, ws, heard, sweep, hour, reloaded, excuse, left>>
  BY DEF AnswerGap
<1>3. gap' = [gap EXCEPT !.at = "next", !.cur = None]
      /\ unseen' = IF c THEN unseen \ {i} ELSE unseen
  BY DEF AnswerGap
<1>4. GapType' /\ Asked'
  BY <1>3 DEF Types, GapType, Asked
<1>5. HistoryType'
  BY <1>2, <1>3 DEF Types, HistoryType
<1>6. CASE c /\ MarginTick(i, ev)
  <2> HIDE DEF i
  <2>1. EndTypes /\ LiquidatedType' /\ Ticked(i)
    BY <1>1, <1>2, <1>6, MarginTickEffect DEF Ticked
  <2> QED BY <1>1, <1>2, <1>4, <1>5, <1>6, <2>1, TypesKept DEF Types, EndTypes, i
<1>7. CASE ~ c /\ rows' = [rows EXCEPT ![i].flagged = TRUE] /\ UNCHANGED <<mem, pool, liquidated, owed>>
  <2> HIDE DEF i
  <2>1. RowsType' /\ RowIs(i, [rows[i] EXCEPT !.flagged = TRUE])
    BY <1>1, <1>7, RowFlagged, Zenon DEF Types
  <2>2. rows[i] \in Row
    BY <1>1 DEF Types, RowsType
  <2>3. Credited'
    BY <1>2, <2>1, <2>2 DEF RowIs, Types, Credited, Row
  <2> QED BY <1>1, <1>2, <1>4, <1>5, <1>7, <2>1, <2>3, TypesKept DEF Types, i
<1> QED BY <1>6, <1>7, Zenon DEF AnswerGap

LEMMA TurnTypes == Types /\ TurnToPending => Types'
<1> SUFFICES ASSUME Types, TurnToPending PROVE Types'
  OBVIOUS
<1>1. UNCHANGED <<rows, stats, study, liquidated, running, pool, mem, dead, ws, heard,
                  sweep, owed, hour, unseen, reloaded, excuse, left>>
  BY DEF TurnToPending, ledger
<1>2. LiveEpisodes \in SUBSET Ids
  BY LiveIds DEF Types
<1>3. GapType' /\ Asked'
  BY <1>2 DEF TurnToPending, GapType, Asked, NoGap
<1> QED BY <1>1, <1>3, TypesKept DEF Types

\* What the second loop does to a pending entry: it waits on, it is aborted, or it is
\* aborted in memory and the candles are asked for.
Waits(i) == RowIs(i, [rows[i] EXCEPT !.flagged = TRUE]) /\ UNCHANGED <<mem, pool, owed>>
Unwinds(i) ==
    /\ RowIs(i, [rows[i] EXCEPT !.flagged = TRUE])
    /\ EpisodesBut(i) /\ mem'[i].state = "aborted"
    /\ UNCHANGED <<pool, owed>>

LEMMA EndPendingStep ==
    ASSUME Types, NEW i \in Ids, NEW x \in BOOLEAN, EndPending(i, x)
    PROVE  /\ Types'
           /\ \/ Waits(i) /\ gap' = [gap EXCEPT !.todo = gap.todo \ {i}]
              \/ Ended(i) /\ rows'[i].state = "aborted" /\ owed' = "gates"
                 /\ gap' = [gap EXCEPT !.todo = gap.todo \ {i}]
              \/ Unwinds(i) /\ gap' = [at |-> "unwind", todo |-> gap.todo \ {i}, cur |-> i]
<1>1. UNCHANGED <<study, liquidated, running, dead, ws, heard, sweep, hour, unseen,
                  reloaded, excuse, left>> /\ gap.at = "pending"
  BY DEF EndPending
<1>2. rows[i] \in Row /\ mem[i] \in Episode
  BY DEF Types, RowsType, MemType
<1>3. CASE /\ gap' = [gap EXCEPT !.todo = gap.todo \ {i}] /\ rows' = [rows EXCEPT ![i].flagged = TRUE]
           /\ UNCHANGED <<stats, mem, pool, owed>>
  <2>1. RowsType' /\ RowIs(i, [rows[i] EXCEPT !.flagged = TRUE])
    BY <1>3, RowFlagged, Zenon DEF Types
  <2>2. GapType' /\ Asked'
    BY <1>1, <1>3 DEF Types, GapType, Asked
  <2>3. Credited'
    BY <1>1, <1>2, <2>1 DEF RowIs, Types, Credited, Row
  <2> QED BY <1>1, <1>3, <2>1, <2>2, <2>3, TypesKept DEF Types, Waits
<1>4. CASE Aborted(i, {}) /\ gap' = [gap EXCEPT !.todo = gap.todo \ {i}]
  <2>1. EndTypes /\ StatsType' /\ Ended(i) /\ rows'[i].state = "aborted"
    BY <1>1, <1>4, AbortedEffect
  <2>2. GapType' /\ Asked'
    BY <1>1, <1>4 DEF Types, GapType, Asked
  <2>3. owed' = "gates"
    BY <1>4 DEF Aborted
  <2> QED BY <1>1, <1>4, <2>1, <2>2, <2>3, TypesKept DEF Types, EndTypes
<1>5. CASE /\ SetEpisode(i, "aborted") /\ rows' = [rows EXCEPT ![i].flagged = TRUE]
           /\ gap' = [at |-> "unwind", todo |-> gap.todo \ {i}, cur |-> i]
           /\ UNCHANGED <<stats, pool, owed>>
  <2>1. RowsType' /\ RowIs(i, [rows[i] EXCEPT !.flagged = TRUE])
    BY <1>5, RowFlagged, Zenon DEF Types
  <2>2. MemType' /\ EpisodeIs(i, [mem[i] EXCEPT !.state = "aborted"])
    <3>1. "aborted" \in States
      BY DEF States
    <3> QED BY <1>5, <3>1, EpisodeState, Zenon DEF Types
  <2>3. GapType' /\ Asked'
    BY <1>5 DEF Types, GapType, Asked
  <2>4. Credited'
    BY <1>1, <1>2, <2>1 DEF RowIs, Types, Credited, Row
  <2>5. EpisodesBut(i) /\ mem'[i].state = "aborted"
    BY <1>2, <2>2 DEF EpisodeIs, EpisodesBut, Episode
  <2> QED BY <1>1, <1>5, <2>1, <2>2, <2>3, <2>4, <2>5, TypesKept DEF Types, Unwinds
<1> QED BY <1>3, <1>4, <1>5, Zenon DEF EndPending

LEMMA UnwindStep ==
    ASSUME Types, Unwind
    PROVE  /\ Types' /\ gap.cur \in Ids
           /\ Ended(gap.cur) /\ rows'[gap.cur].state = "aborted" /\ owed' = "gates"
<1> DEFINE i == gap.cur
           legs == mem[i].legs
<1>1. i \in Ids
  BY DEF Unwind, Types, Asked
<1>2. legs \in SUBSET Legs
  BY <1>1 DEF Types, MemType, Episode
<1>3. UNCHANGED <<study, liquidated, running, dead, ws, heard, sweep, hour, unseen,
                  reloaded, excuse, left>>
      /\ gap' = [gap EXCEPT !.at = "pending", !.cur = None] /\ Aborted(i, legs)
  BY DEF Unwind
<1>4. GapType' /\ Asked'
  BY <1>3 DEF Types, GapType, Asked
<1> HIDE DEF i, legs
<1>5. EndTypes /\ StatsType' /\ Ended(i) /\ rows'[i].state = "aborted"
  BY <1>1, <1>2, <1>3, AbortedEffect
<1>6. owed' = "gates"
  BY <1>3 DEF Aborted
<1> QED BY <1>1, <1>3, <1>4, <1>5, <1>6, TypesKept DEF Types, EndTypes, i

LEMMA StreamTypes == Types /\ Stream => Types'
<1> SUFFICES ASSUME Types, Stream PROVE Types'
  OBVIOUS
<1>1. UNCHANGED <<rows, stats, study, liquidated, running, pool, mem, dead, heard,
                  sweep, owed, hour, unseen, reloaded, excuse, left>>
  BY DEF Stream, ledger
<1>2. GapType' /\ Asked' /\ WsType'
  BY DEF Stream, GapType, Asked, NoGap, WsType
<1> QED BY <1>1, <1>2, TypesKept DEF Types

\* What a cut leaves of the rows: the row of an exit closed and its legs perhaps not
\* recorded, or some of the rows closed that the death of the study closes.
CutExit(i) ==
    /\ mem[i].state = "pending_exit" /\ i \in LiveEpisodes /\ owed = "nothing"
    /\ RowsBut(i) /\ rows'[i].state = "closed" /\ rows'[i].margin = mem[i].funding
CutForce(S) ==
    /\ owed = "force" /\ RowsOnlyState
    /\ \A i \in Ids : IF i \in S THEN rows'[i].state = "closed" ELSE rows'[i] = rows[i]
CutRows ==
    \/ UNCHANGED rows
    \/ \E i \in Ids : CutExit(i)
    \/ \E S \in SUBSET LiveEpisodes : CutForce(S)

LEMMA CutStep ==
    ASSUME Types, Cut
    PROVE  RowsType' /\ StatsType' /\ CutRows
<1>1. ASSUME NEW i \in Ids, NEW legs \in SUBSET Legs, Ending(i, legs),
             mem[i].state = "pending_exit",
             rows' = [rows EXCEPT ![i].state = "closed", ![i].margin = mem[i].funding],
             \E written \in {{}, {"spot"}} : Record(i, written, legs)
      PROVE  RowsType' /\ StatsType' /\ CutRows
  <2>1. rows[i] \in Row /\ mem[i].funding \in Nat
    BY DEF Types, RowsType, MemType, Episode
  <2>2. RowsType' /\ RowIs(i, [rows[i] EXCEPT !.state = "closed", !.margin = mem[i].funding])
    BY <1>1, <2>1, RowClosed DEF Types
  <2>3. RowsBut(i) /\ rows'[i].state = "closed" /\ rows'[i].margin = mem[i].funding
    BY <2>1, <2>2 DEF RowIs, RowsBut, Row
  <2>4. StatsType'
    BY <1>1, StatsRecorded DEF Types
  <2>5. i \in LiveEpisodes /\ owed = "nothing"
    BY <1>1 DEF Ending, In, Free, Held
  <2> QED BY <1>1, <2>2, <2>3, <2>4, <2>5 DEF CutRows, CutExit
<1>2. ASSUME NEW i \in Ids, NEW legs \in SUBSET Legs,
             UNCHANGED rows, \E written \in {{"spot"}, Legs} : Record(i, written, legs)
      PROVE  RowsType' /\ StatsType' /\ CutRows
  <2>1. StatsType'
    BY <1>2, StatsRecorded DEF Types
  <2> QED BY <1>2, <2>1, TypesKept DEF CutRows
<1>3. ASSUME owed = "force", NEW S \in SUBSET LiveEpisodes, rows' = Stopped(S),
             UNCHANGED stats
      PROVE  RowsType' /\ StatsType' /\ CutRows
  <2>1. RowsType' /\ CutForce(S)
    BY <1>3, StoppedEffect DEF CutForce
  <2> QED BY <1>3, <2>1, TypesKept DEF CutRows
<1> QED BY <1>1, <1>2, <1>3, Zenon DEF Cut

LEMMA CrashStep ==
    ASSUME Types, Crash
    PROVE  /\ RowsType' /\ StatsType' /\ CutRows
           /\ excuse \subseteq excuse' /\ excuse' \subseteq excuse \cup {"torn"}
           /\ owed = "force" => "torn" \in excuse'
<1>1. UNCHANGED <<rows, stats>> => RowsType' /\ StatsType' /\ CutRows
  BY TypesKept DEF CutRows
<1>2. Cut => RowsType' /\ StatsType' /\ CutRows
  BY CutStep
<1>3. /\ excuse \subseteq excuse' /\ excuse' \subseteq excuse \cup {"torn"}
      /\ owed = "force" => "torn" \in excuse'
  BY Zenon DEF Crash
<1> QED BY <1>1, <1>2, <1>3 DEF Crash

LEMMA CutCredited ==
    ASSUME Types, CutRows, UNCHANGED hour
    PROVE  Credited'
<1>1. \A i \in Ids : rows'[i].last = rows[i].last
  BY DEF CutRows, CutExit, CutForce, RowsBut, RowsOnlyState
<1> QED BY <1>1 DEF Types, Credited

LEMMA CrashTypes == Types /\ Crash => Types'
<1> SUFFICES ASSUME Types, Crash PROVE Types'
  OBVIOUS
<1>1. UNCHANGED <<study, liquidated, hour, unseen, reloaded>>
  BY DEF Crash
<1>2. LeftType'
  BY FundSpent DEF Types, Crash
<1>3. GapType' /\ Asked' /\ WsType' /\ SweepType' /\ OwedType' /\ PoolType'
  BY DEF Crash, GapType, Asked, NoGap, WsType, SweepType, OwedType, PoolType, NoPool
<1>4. MemType'
  BY DEF Crash, MemType, NoEpisode, Episode, States
<1>5. FlagType'
  BY DEF Crash, Types, FlagType
<1>6. HistoryType'
  BY <1>1, CrashStep DEF Types, HistoryType
<1>7. RowsType' /\ StatsType' /\ Credited'
  BY <1>1, CrashStep, CutCredited
<1> QED BY <1>1, <1>2, <1>3, <1>4, <1>5, <1>6, <1>7, TypesKept DEF Types

\* What a boot makes of the ledger and of the pool.
Aborts ==
    \A i \in Ids : IF rows[i].state = "pending_entry" THEN rows'[i].state = "aborted"
                   ELSE rows'[i] = rows[i]
OpenRows == {i \in Ids : rows[i].state = "open"}
Reloaded ==
    \A i \in Ids : mem'[i] = IF i \in OpenRows
                             THEN [state |-> "open", legs |-> {}, funding |-> rows[i].margin]
                             ELSE NoEpisode

LEMMA BootStep ==
    ASSUME Types, Boot
    PROVE  /\ Types' /\ RowsOnlyState /\ Aborts /\ Reloaded
           /\ \A p \in Pairs : \/ /\ pool'[p] \in OpenRows /\ rows[pool'[p]].pair = p
                               \/ /\ pool'[p] = None
                                  /\ \A i \in OpenRows : rows[i].pair # p
           /\ unseen' = unseen \cup OpenRows /\ reloaded' = reloaded \cup OpenRows
<1>1. /\ dead' = study.dead /\ running' = TRUE
      /\ UNCHANGED <<stats, study, liquidated, ws, heard, gap, sweep, owed, hour, excuse, left>>
  BY DEF Boot
<1>2. ASSUME NEW i \in Ids
      PROVE  /\ rows[i] \in Row
             /\ rows'[i] = IF rows[i].state = "pending_entry"
                           THEN [rows[i] EXCEPT !.state = "aborted"] ELSE rows[i]
  BY DEF Boot, Types, RowsType
<1>3. RowsType'
  <2>1. \A i \in Ids : rows'[i] \in Row
    BY ZenonT(40), <1>2 DEF Row, States
  <2> QED BY <2>1 DEF Boot, RowsType
<1>4. RowsOnlyState /\ Aborts
  BY <1>2 DEF RowsOnlyState, Aborts, Row
<1>5. Reload(OpenRows)
  BY DEF Boot, OpenRows
<1>6. OpenRows \subseteq Ids
  BY DEF OpenRows
<1>7. Reloaded
  BY <1>5 DEF Reload, Reloaded
<1>8. MemType'
  <2>1. mem' = [i \in Ids |-> IF i \in OpenRows
                              THEN [state |-> "open", legs |-> {}, funding |-> rows[i].margin]
                              ELSE NoEpisode]
    BY <1>5 DEF Reload
  <2>2. \A i \in Ids : rows[i].margin \in Nat
    BY <1>2 DEF Row
  <2>3. NoEpisode \in Episode
    BY DEF NoEpisode, Episode, States
  <2>4. \A i \in Ids : [state |-> "open", legs |-> {}, funding |-> rows[i].margin] \in Episode
    BY <2>2 DEF Episode, States
  <2> QED BY <2>1, <2>3, <2>4 DEF MemType
<1>9. ASSUME NEW p \in Pairs
      PROVE  \/ pool'[p] \in OpenRows /\ rows[pool'[p]].pair = p
             \/ pool'[p] = None /\ \A i \in OpenRows : rows[i].pair # p
  <2>1. pool'[p] = IF \E i \in OpenRows : rows[i].pair = p
                   THEN CHOOSE i \in OpenRows : rows[i].pair = p ELSE None
    BY <1>5 DEF Reload
  <2> QED BY <2>1
<1>10. PoolType'
  <2>1. pool' = [p \in Pairs |-> pool'[p]]
    BY <1>5 DEF Reload
  <2>2. \A p \in Pairs : pool'[p] \in Ids \cup {None}
    BY <1>6, <1>9
  <2> QED BY <2>1, <2>2 DEF PoolType
<1>11. unseen' = unseen \cup OpenRows /\ reloaded' = reloaded \cup OpenRows
  BY <1>5 DEF Reload
<1>12. HistoryType'
  BY <1>1, <1>6, <1>11 DEF Types, HistoryType
<1>13. FlagType'
  BY <1>1 DEF Types, FlagType, StudyType
<1>14. Credited'
  BY <1>1, <1>4 DEF RowsOnlyState, Types, Credited
<1> QED BY <1>1, <1>3, <1>4, <1>7, <1>8, <1>9, <1>10, <1>11, <1>12, <1>13, <1>14, TypesKept DEF Types

LEMMA StutterTypes == Types /\ UNCHANGED vars => Types'
<1> SUFFICES ASSUME Types, UNCHANGED vars PROVE Types'
  OBVIOUS
<1>1. UNCHANGED <<rows, stats, study, liquidated, running, pool, mem, dead, ws, heard, gap,
                  sweep, owed, hour, unseen, reloaded, excuse, left>>
  BY DEF vars, ledger, process
<1> QED BY <1>1, TypesKept DEF Types

LEMMA InitTypes == Init => Types
<1> SUFFICES ASSUME Init PROVE Types
  OBVIOUS
<1>1. RowsType /\ Credited
  BY DEF Init, RowsType, Row, NoRow, States, Credited
<1>2. MemType
  BY DEF Init, MemType, NoEpisode, Episode, States
<1>3. StatsType /\ StudyType /\ LiquidatedType
  BY DEF Init, StatsType, StudyType, LiquidatedType
<1>4. FlagType /\ PoolType /\ WsType /\ SweepType /\ OwedType /\ HourType /\ HistoryType
  BY DEF Init, FlagType, PoolType, NoPool, WsType, SweepType, OwedType, HourType, HistoryType
<1>5. GapType /\ Asked
  BY DEF Init, GapType, Asked, NoGap
<1>6. LeftType
  BY BoundsAssumption DEF Init, LeftType
<1> QED BY <1>1, <1>2, <1>3, <1>4, <1>5, <1>6 DEF Types

LEMMA StepTypes == Types /\ [Next]_vars => Types'
<1> SUFFICES ASSUME Types, [Next]_vars PROVE Types'
  OBVIOUS
<1>1. CASE Publish
  BY <1>1, PublishTypes
<1>2. CASE \E p \in Pairs : MaybeEntry(p)
  BY <1>2, EntryStep
<1>3. CASE \E p \in Pairs, x \in BOOLEAN : Accrue(p, x)
  BY <1>3, AccrueStep
<1>4. CASE \E p \in Pairs, x \in BOOLEAN, legs \in SUBSET Legs : Book(p, legs, x)
  BY <1>4, BookStep
<1>5. CASE Die \/ ForceStop
  BY <1>5, DieTypes, ForceStopStep
<1>6. CASE \E x \in BOOLEAN, v \in {"A", "C"} : Gates(x, v)
  BY <1>6, GatesTypes
<1>7. CASE StartSweep
  BY <1>7, StartSweepTypes
<1>8. CASE \E i \in Ids, ev \in Events : SweepOne(i, ev)
  BY <1>8, SweepStep
<1>9. CASE Drop \/ Connect
  BY <1>9, DropTypes, ConnectTypes
<1>10. CASE \E i \in Ids : AskGap(i) \/ \E x \in BOOLEAN : EndPending(i, x)
  BY <1>10, AskGapTypes, EndPendingStep
<1>11. CASE \E c \in BOOLEAN, ev \in Events : AnswerGap(c, ev)
  BY <1>11, AnswerGapStep
<1>12. CASE TurnToPending \/ Unwind \/ Stream
  BY <1>12, TurnTypes, UnwindStep, StreamTypes
<1>13. CASE Crash \/ Boot
  BY <1>13, CrashTypes, BootStep
<1>14. CASE UNCHANGED vars
  BY <1>14, StutterTypes
<1> QED BY <1>1, <1>2, <1>3, <1>4, <1>5, <1>6, <1>7, <1>8, <1>9, <1>10, <1>11, <1>12, <1>13,
           <1>14, Zenon DEF Next, GapStep, GateStep

(* The ledger, the pool, the replay and the history keep their types whatever  *)
(* the coroutines, the outages and the ends of the process do.                 *)
THEOREM TypeCorrect == Spec => []TypeOK
<1>1. Spec => []Types
  BY InitTypes, StepTypes, PTL DEF Spec
<1> QED BY <1>1, TypesImply, PTL

-----------------------------------------------------------------------------
(* The pool, the episodes and the rows agree.                                 *)

Active(s) == s \in {"pending_entry", "open", "pending_exit"}
Unwinds1(i) == gap.at = "unwind" /\ gap.cur = i

RowPair == \A i \in Ids : rows[i].state # "none" => rows[i].pair \in Pairs
MemRow == \A i \in Ids : mem[i].state # "none" => rows[i].state # "none"
PoolPair ==
    \A p \in Pairs : pool[p] # None
        => pool[p] \in Ids /\ rows[pool[p]].pair = p /\ mem[pool[p]].state # "none"
\* An episode that goes on is the one of its pair, unless death has emptied the pool.
Pooled ==
    \A i \in Ids : Active(mem[i].state) \/ Unwinds1(i)
        => pool[rows[i].pair] = i \/ (study.dead /\ pool = NoPool)
Follow ==
    \A i \in Ids : Active(mem[i].state) /\ pool[rows[i].pair] = i
        => rows[i].state = mem[i].state
Unwinding ==
    gap.at = "unwind" => /\ mem[gap.cur].state = "aborted"
                         /\ pool[rows[gap.cur].pair] = gap.cur
                            => rows[gap.cur].state = "pending_entry"
Owned ==
    running => \A i \in Ids : Active(rows[i].state) => Lost(i) \/ pool[rows[i].pair] = i
OneOpen ==
    \A i, j \in OpenRows : rows[i].pair = rows[j].pair => i = j
DeadAndDone == study.dead /\ owed # "force" /\ "torn" \notin excuse
Emptied == DeadAndDone => pool = NoPool /\ OpenRows = {}

Shape ==
    /\ RowPair /\ MemRow /\ PoolPair /\ Pooled /\ Follow /\ Unwinding /\ Owned /\ OneOpen
    /\ Emptied

(* The kinds of step the pool tells apart.                                    *)
Calm ==
    /\ running' = running
    /\ study.dead => study'.dead
    /\ DeadAndDone' => DeadAndDone
    /\ study'.dead = study.dead \/ UNCHANGED rows
Replays == gap'.at = "unwind" => gap.at = "unwind" /\ gap'.cur = gap.cur

Keeps ==
    /\ \A i \in Ids : /\ rows'[i].pair = rows[i].pair /\ rows'[i].state = rows[i].state
                      /\ mem'[i].state = mem[i].state
                      /\ rows'[i].cum = rows[i].cum /\ mem'[i].funding = mem[i].funding
                      /\ rows'[i].margin = rows[i].margin \/ mem[i].state = "open"
                      /\ rows[i].flagged => rows'[i].flagged
    /\ pool' = pool
Others(i) == \A j \in Ids : j # i => rows'[j] = rows[j] /\ mem'[j] = mem[j]
Moves(i) ==
    /\ running /\ i \in LiveEpisodes /\ Active(mem[i].state)
    /\ rows'[i].pair = rows[i].pair /\ Active(mem'[i].state)
    /\ rows'[i].state = mem'[i].state /\ mem'[i].state # "pending_entry"
    /\ mem'[i].state = "open" => (mem[i].state = "open" \/ (heard' /\ mem[i].state = "pending_entry"))
    /\ mem[i].state = "pending_entry" => mem'[i].state = "open"
    /\ rows'[i].flagged = rows[i].flagged
    /\ \E n \in Int : rows'[i].cum = rows[i].cum + n /\ mem'[i].funding = mem[i].funding + n
    /\ Others(i)
    /\ pool' = pool
SettledFrom(m, s) ==
    \/ m \in {"pending_entry", "aborted"} /\ s = "aborted"
    \/ m \in {"open", "pending_exit"} /\ s = "closed"
    \/ m = "open" /\ s = "liquidated"
Ends(i) ==
    /\ running
    /\ SettledFrom(mem[i].state, rows'[i].state)
    /\ \/ Active(mem[i].state)
       \/ Unwinds1(i) /\ gap'.at # "unwind" /\ rows'[i].state = "aborted"
    /\ rows'[i].pair = rows[i].pair /\ Settled(rows'[i].state)
    /\ mem'[i].state = rows'[i].state
    /\ rows'[i].flagged = rows[i].flagged /\ rows'[i].cum = rows[i].cum
    /\ rows'[i].state = "closed" => rows'[i].margin = mem[i].funding
    /\ Others(i)
    /\ pool' = Without(rows[i].pair) \/ pool' = pool
Enters(i, p) ==
    /\ running /\ ~ study.dead /\ pool[p] = None /\ rows[i].state = "none"
    /\ rows'[i].pair = p /\ rows'[i].state = "pending_entry"
    /\ mem'[i].state = "pending_entry"
    /\ rows'[i].cum = 0 /\ mem'[i].funding = 0
    /\ Others(i)
    /\ pool' = [pool EXCEPT ![p] = i]
Turns(i) ==
    /\ running /\ mem[i].state = "pending_entry" /\ mem'[i].state = "aborted"
    /\ rows'[i].pair = rows[i].pair /\ rows'[i].state = rows[i].state
    /\ rows'[i].cum = rows[i].cum /\ rows'[i].margin = rows[i].margin
    /\ rows[i].flagged => rows'[i].flagged
    /\ Others(i)
    /\ pool' = pool
    /\ gap'.at = "unwind" /\ gap'.cur = i

LEMMA IdsNotNone == \A i \in Ids : i # None
BY BoundsAssumption DEF Ids, None

LEMMA KeepsShape ==
    ASSUME Types, Shape, Calm, Replays, Keeps
    PROVE  Shape'
<1>1. RowPair' /\ MemRow' /\ PoolPair'
  BY DEF Shape, RowPair, MemRow, PoolPair, Keeps
<1>2. Pooled' /\ Follow'
  BY DEF Shape, Pooled, Follow, Unwinds1, Keeps, Calm, Replays, NoPool
<1>3. Unwinding'
  BY DEF Shape, Unwinding, Keeps, Replays, Types, Asked
<1>4. Owned'
  BY DEF Shape, Owned, Keeps, Calm, Lost
<1>5. OneOpen'
  BY DEF Shape, OneOpen, OpenRows, Keeps
<1>6. Emptied'
  BY DEF Shape, Emptied, Calm, Keeps, OpenRows, NoPool
<1> QED BY <1>1, <1>2, <1>3, <1>4, <1>5, <1>6 DEF Shape

LEMMA MovesShape ==
    ASSUME Types, Shape, Calm, Replays, NEW i \in Ids, Moves(i)
    PROVE  Shape'
<1>1. PICK p \in Pairs : pool[p] = i /\ rows[i].pair = p
  BY IdsNotNone DEF Moves, LiveEpisodes, Shape, PoolPair
<1>2. pool # NoPool
  BY <1>1, IdsNotNone DEF NoPool
<1>3. RowPair' /\ MemRow' /\ PoolPair'
  BY <1>1 DEF Shape, RowPair, MemRow, PoolPair, Moves, Others, Active
<1>4. Follow'
  BY DEF Shape, Follow, Moves, Others
<1>5. Pooled'
  BY <1>1 DEF Shape, Pooled, Unwinds1, Moves, Others, Calm, Replays, NoPool
<1>6. Unwinding'
  <2> SUFFICES ASSUME gap'.at = "unwind" PROVE Unwinding'
    BY DEF Unwinding
  <2>1. gap'.cur = gap.cur /\ gap.at = "unwind" /\ gap.cur \in Ids
    BY DEF Replays, Types, Asked
  <2>2. mem[gap.cur].state = "aborted" /\ gap.cur # i
    BY <2>1 DEF Shape, Unwinding, Moves, Active
  <2> QED BY <2>1, <2>2 DEF Shape, Unwinding, Moves, Others
<1>7. Owned'
  BY <1>1 DEF Shape, Owned, Moves, Others, Calm, Lost
<1>8. OneOpen'
  <2>1. \A j \in OpenRows' : pool'[rows'[j].pair] = j
    BY <1>7 DEF Owned, OpenRows, Lost, Moves, Calm, Active
  <2> QED BY <2>1 DEF OneOpen
<1>9. Emptied'
  BY <1>2 DEF Shape, Emptied, Calm
<1> QED BY <1>3, <1>4, <1>5, <1>6, <1>7, <1>8, <1>9 DEF Shape

LEMMA EndsShape ==
    ASSUME Types, Shape, Calm, Replays, NEW i \in Ids, Ends(i)
    PROVE  Shape'
<1>1. mem[i].state # "none" /\ rows[i].state # "none" /\ rows[i].pair \in Pairs
  BY DEF Shape, MemRow, RowPair, Unwinding, Ends, Active, Unwinds1
<1>2. pool[rows[i].pair] = i \/ pool = NoPool
  BY DEF Ends, Shape, Pooled
<1>3. ASSUME NEW p \in Pairs
      PROVE  \/ pool'[p] = pool[p]
             \/ p = rows[i].pair /\ pool'[p] = None /\ pool[p] = i
  BY <1>1, <1>2 DEF Ends, Without, Types, PoolType, NoPool
<1>4. pool = NoPool => pool' = NoPool
  BY DEF Ends, Without, NoPool
<1>5. RowPair' /\ MemRow'
  BY <1>1 DEF Shape, RowPair, MemRow, Ends, Others, Settled
<1>6. PoolPair'
  BY <1>3 DEF Shape, PoolPair, Ends, Others, Settled
<1>7. ASSUME NEW j \in Ids, j # i, rows[j].pair \in Pairs, pool[rows[j].pair] = j
      PROVE  pool'[rows'[j].pair] = j /\ rows'[j].pair = rows[j].pair
  BY <1>3, <1>7 DEF Ends, Others
<1>8. ASSUME NEW j \in Ids, rows[j].pair \in Pairs, pool'[rows[j].pair] = j
      PROVE  pool[rows[j].pair] = j
  BY <1>3, <1>8, IdsNotNone
<1>9. Follow'
  <2> SUFFICES ASSUME NEW j \in Ids, Active(mem'[j].state), pool'[rows'[j].pair] = j
               PROVE  rows'[j].state = mem'[j].state
    BY DEF Follow
  <2>1. CASE j = i
    BY <2>1 DEF Ends
  <2>2. CASE j # i
    <3>1. mem[j].state = mem'[j].state /\ rows'[j].pair = rows[j].pair /\ rows'[j].state = rows[j].state
      BY <2>2 DEF Ends, Others
    <3>2. rows[j].pair \in Pairs
      BY <3>1 DEF Shape, MemRow, RowPair, Active
    <3> QED BY <1>8, <3>1, <3>2 DEF Shape, Follow
  <2> QED BY <2>1, <2>2
<1>10. Pooled'
  <2> SUFFICES ASSUME NEW j \in Ids, Active(mem'[j].state) \/ Unwinds1(j)'
               PROVE  pool'[rows'[j].pair] = j \/ (study'.dead /\ pool' = NoPool)
    BY DEF Pooled
  <2>1. j # i
    <3>1. ~ Active(mem'[i].state)
      BY DEF Ends, Settled, Active
    <3>2. ~ Unwinds1(i)'
      <4>1. CASE Unwinds1(i) /\ gap'.at # "unwind"
        BY <4>1 DEF Unwinds1
      <4>2. CASE Active(mem[i].state)
        BY <4>2 DEF Unwinds1, Replays, Shape, Unwinding, Active
      <4> QED BY <4>1, <4>2 DEF Ends
    <3> QED BY <3>1, <3>2
  <2>2. Active(mem[j].state) \/ Unwinds1(j)
    BY <2>1 DEF Ends, Others, Unwinds1, Replays
  <2>3. rows[j].pair \in Pairs
    BY <2>2 DEF Shape, MemRow, RowPair, Active, Unwinds1, Unwinding
  <2> QED BY <1>4, <1>7, <2>1, <2>2, <2>3 DEF Shape, Pooled, Calm
<1>11. Unwinding'
  <2> SUFFICES ASSUME gap'.at = "unwind" PROVE Unwinding'
    BY DEF Unwinding
  <2>1. gap'.cur = gap.cur /\ gap.at = "unwind" /\ gap.cur \in Ids
    BY DEF Replays, Types, Asked
  <2>2. mem[gap.cur].state = "aborted" /\ gap.cur # i
    BY <2>1 DEF Shape, Unwinding, Ends, Active
  <2>3. rows[gap.cur].pair \in Pairs
    BY <2>1, <2>2 DEF Shape, MemRow, RowPair
  <2>4. rows'[gap.cur].pair = rows[gap.cur].pair /\ rows'[gap.cur].state = rows[gap.cur].state
        /\ mem'[gap.cur].state = "aborted"
    BY <2>1, <2>2 DEF Ends, Others
  <2> QED BY <1>8, <2>1, <2>3, <2>4 DEF Shape, Unwinding
<1>12. Owned'
  <2> SUFFICES ASSUME NEW j \in Ids, Active(rows'[j].state), running'
               PROVE  Lost(j)' \/ pool'[rows'[j].pair] = j
    BY DEF Owned
  <2>1. j # i
    BY DEF Ends, Settled, Active
  <2>2. rows'[j].state = rows[j].state /\ mem'[j].state = mem[j].state
    BY <2>1 DEF Ends, Others
  <2>3. rows[j].pair \in Pairs
    BY <2>2 DEF Shape, RowPair, Active
  <2> QED BY <1>7, <2>1, <2>2, <2>3 DEF Shape, Owned, Lost, Calm
<1>13. OneOpen'
  <2>1. \A j \in OpenRows' : j \in OpenRows /\ rows'[j].pair = rows[j].pair
    BY DEF OpenRows, Ends, Others, Settled
  <2> QED BY <2>1 DEF Shape, OneOpen
<1>14. Emptied'
  BY <1>4 DEF Shape, Emptied, Calm, OpenRows, Ends, Others, Settled
<1> QED BY <1>5, <1>6, <1>9, <1>10, <1>11, <1>12, <1>13, <1>14 DEF Shape

LEMMA EntersShape ==
    ASSUME Types, Shape, Calm, Replays, ~ study'.dead, NEW p \in Pairs, NEW i \in Ids, Enters(i, p)
    PROVE  Shape'
<1>1. mem[i].state = "none"
  BY DEF Shape, MemRow, Enters
<1>2. \A q \in Pairs : pool'[q] = IF q = p THEN i ELSE pool[q]
  BY DEF Enters, Types, PoolType
<1>3. \A q \in Pairs : pool[q] # i
  BY <1>1, IdsNotNone DEF Shape, PoolPair
<1>4. RowPair' /\ MemRow'
  BY DEF Shape, RowPair, MemRow, Enters, Others
<1>5. PoolPair'
  BY <1>2, <1>3 DEF Shape, PoolPair, Enters, Others
<1>6. ASSUME NEW j \in Ids, j # i, rows[j].pair \in Pairs
      PROVE  /\ rows'[j].pair = rows[j].pair
             /\ pool'[rows'[j].pair] = j <=> pool[rows[j].pair] = j
  <2>1. pool[p] = None
    BY DEF Enters
  <2>2. rows'[j].pair = rows[j].pair
    BY <1>6 DEF Enters, Others
  <2>3. pool[rows[j].pair] = j => rows[j].pair # p
    BY <2>1, IdsNotNone
  <2> QED BY <1>2, <1>6, <2>2, <2>3
<1>7. pool'[rows'[i].pair] = i
  BY <1>2 DEF Enters
<1>8. Follow'
  <2> SUFFICES ASSUME NEW j \in Ids, Active(mem'[j].state), pool'[rows'[j].pair] = j
               PROVE  rows'[j].state = mem'[j].state
    BY DEF Follow
  <2>1. CASE j = i
    BY <2>1 DEF Enters
  <2>2. CASE j # i
    <3>1. mem[j].state = mem'[j].state /\ rows'[j].state = rows[j].state
      BY <2>2 DEF Enters, Others
    <3>2. rows[j].pair \in Pairs
      BY <3>1 DEF Shape, MemRow, RowPair, Active
    <3> QED BY <1>6, <2>2, <3>1, <3>2 DEF Shape, Follow
  <2> QED BY <2>1, <2>2
<1>9. Pooled'
  <2> SUFFICES ASSUME NEW j \in Ids, Active(mem'[j].state) \/ Unwinds1(j)', j # i
               PROVE  pool'[rows'[j].pair] = j
    BY <1>7 DEF Pooled
  <2>1. Active(mem[j].state) \/ Unwinds1(j)
    BY DEF Enters, Others, Unwinds1, Replays
  <2>2. rows[j].pair \in Pairs
    BY <2>1 DEF Shape, MemRow, RowPair, Active, Unwinds1, Unwinding
  <2>3. pool[rows[j].pair] = j
    BY <2>1 DEF Shape, Pooled, Enters
  <2> QED BY <1>6, <2>2, <2>3
<1>10. Unwinding'
  <2> SUFFICES ASSUME gap'.at = "unwind" PROVE Unwinding'
    BY DEF Unwinding
  <2>1. gap'.cur = gap.cur /\ gap.at = "unwind" /\ gap.cur \in Ids
    BY DEF Replays, Types, Asked
  <2>2. mem[gap.cur].state = "aborted" /\ gap.cur # i
    BY <1>1, <2>1 DEF Shape, Unwinding
  <2>3. rows[gap.cur].pair \in Pairs
    BY <2>1, <2>2 DEF Shape, MemRow, RowPair
  <2>4. rows'[gap.cur].state = rows[gap.cur].state /\ mem'[gap.cur].state = "aborted"
    BY <2>1, <2>2 DEF Enters, Others
  <2> QED BY <1>6, <2>1, <2>2, <2>3, <2>4 DEF Shape, Unwinding
<1>11. Owned'
  <2> SUFFICES ASSUME NEW j \in Ids, Active(rows'[j].state), running', j # i
               PROVE  Lost(j)' \/ pool'[rows'[j].pair] = j
    BY <1>7 DEF Owned
  <2>1. rows'[j].state = rows[j].state /\ mem'[j].state = mem[j].state
    BY DEF Enters, Others
  <2>2. rows[j].pair \in Pairs
    BY <2>1 DEF Shape, RowPair, Active
  <2> QED BY <1>6, <2>1, <2>2 DEF Shape, Owned, Lost, Calm
<1>12. OneOpen'
  <2>1. \A j \in OpenRows' : j \in OpenRows /\ rows'[j].pair = rows[j].pair
    BY DEF OpenRows, Enters, Others
  <2> QED BY <2>1 DEF Shape, OneOpen
<1>13. Emptied'
  BY DEF Emptied, DeadAndDone
<1> QED BY <1>4, <1>5, <1>8, <1>9, <1>10, <1>11, <1>12, <1>13 DEF Shape

LEMMA TurnsShape ==
    ASSUME Types, Shape, Calm, NEW i \in Ids, Turns(i)
    PROVE  Shape'
<1>1. RowPair' /\ MemRow' /\ PoolPair'
  BY DEF Shape, RowPair, MemRow, PoolPair, Turns, Others
<1>2. pool[rows[i].pair] = i \/ (study.dead /\ pool = NoPool)
  BY DEF Shape, Pooled, Turns, Active
<1>3. Follow'
  BY DEF Shape, Follow, Turns, Others, Active
<1>4. Pooled'
  <2> SUFFICES ASSUME NEW j \in Ids, Active(mem'[j].state) \/ Unwinds1(j)', j # i
               PROVE  pool'[rows'[j].pair] = j \/ (study'.dead /\ pool' = NoPool)
    BY <1>2 DEF Pooled, Turns, Calm, NoPool
  <2>1. Active(mem[j].state) /\ rows'[j].pair = rows[j].pair
    BY DEF Turns, Others, Unwinds1
  <2> QED BY <2>1 DEF Shape, Pooled, Turns, Calm, NoPool
<1>5. Unwinding'
  BY DEF Unwinding, Turns, Shape, Follow, Active
<1>6. Owned'
  BY DEF Shape, Owned, Turns, Others, Calm, Lost
<1>7. OneOpen'
  BY DEF Shape, OneOpen, OpenRows, Turns, Others
<1>8. Emptied'
  BY DEF Shape, Emptied, Calm, Turns, Others, OpenRows, NoPool
<1> QED BY <1>1, <1>3, <1>4, <1>5, <1>6, <1>7, <1>8 DEF Shape

-----------------------------------------------------------------------------
(* Who may run.                                                               *)

\* A process that has ended holds nothing.
Down ==
    ~ running => /\ pool = NoPool /\ \A i \in Ids : mem[i].state = "none"
                 /\ ws = "down" /\ ~ heard /\ gap.at = "none" /\ sweep = {}
                 /\ owed = "nothing"
\* The pool knows whether the study is dead.
Alive == running => dead = study.dead
OwedOK == owed = "force" => study.dead

Whole == Types /\ Shape /\ Down /\ Alive /\ OwedOK

LEMMA ForceStopShape == Whole /\ ForceStop => Shape'
<1> SUFFICES ASSUME Whole, ForceStop PROVE Shape'
  OBVIOUS
<1>1. /\ RowsOnlyState
      /\ \A i \in Ids : IF i \in LiveEpisodes THEN rows'[i].state = "closed"
                        ELSE rows'[i] = rows[i]
  BY ForceStopStep DEF Whole
<1>2. running /\ study.dead /\ pool' = NoPool
      /\ UNCHANGED <<study, running, mem, gap, excuse>>
  BY DEF ForceStop, Whole, Down, OwedOK
<1>3. \A i \in LiveEpisodes : i \in Ids /\ rows[i].pair \in Pairs /\ rows[i].state # "none"
  BY LiveIds DEF Whole, Shape, PoolPair, MemRow, RowPair, LiveEpisodes
<1>4. ASSUME NEW i \in Ids
      PROVE  /\ rows'[i].pair = rows[i].pair /\ mem'[i] = mem[i]
             /\ rows'[i].state = rows[i].state \/ (rows'[i].state = "closed" /\ i \in LiveEpisodes)
  BY <1>1, <1>2 DEF RowsOnlyState
<1>5. RowPair' /\ MemRow'
  BY <1>3, <1>4 DEF Whole, Shape, RowPair, MemRow
<1>6. PoolPair' /\ Pooled'
  BY <1>2 DEF PoolPair, Pooled, NoPool
<1>7. ASSUME NEW i \in Ids, rows[i].pair \in Pairs PROVE pool'[rows'[i].pair] # i
  BY <1>2, <1>4, <1>7, IdsNotNone DEF NoPool
<1>8. Follow'
  BY <1>4, <1>7 DEF Whole, Shape, MemRow, RowPair, Follow, Active
<1>9. Unwinding'
  <2> SUFFICES ASSUME gap'.at = "unwind" PROVE Unwinding'
    BY DEF Unwinding
  <2>1. gap.at = "unwind" /\ gap'.cur = gap.cur /\ gap.cur \in Ids
    BY <1>2 DEF Whole, Types, Asked
  <2>2. mem[gap.cur].state = "aborted" /\ rows[gap.cur].pair \in Pairs
    BY <2>1 DEF Whole, Shape, Unwinding, MemRow, RowPair
  <2> QED BY <1>4, <1>7, <2>1, <2>2 DEF Unwinding
<1>10. ASSUME NEW i \in Ids, Active(rows'[i].state) PROVE Lost(i)'
  <2>1. i \notin LiveEpisodes /\ rows'[i].state = rows[i].state
    BY <1>1, <1>10 DEF Active
  <2>2. rows[i].pair \in Pairs
    BY <1>10, <2>1 DEF Whole, Shape, RowPair, Active
  <2>3. pool[rows[i].pair] # i
    BY <2>1, <2>2, IdsNotNone DEF LiveEpisodes
  <2> QED BY <1>2, <1>4, <1>10, <2>1, <2>3 DEF Whole, Shape, Owned, Lost
<1>11. Owned'
  BY <1>10 DEF Owned
<1>12. OpenRows' = {}
  BY <1>10 DEF OpenRows, Active, Lost
<1> QED BY <1>2, <1>5, <1>6, <1>8, <1>9, <1>11, <1>12 DEF Shape, OneOpen, Emptied

(* A cut closes rows of the pool only, and an exit that was pending.           *)
LEMMA LiveRow ==
    ASSUME Whole, NEW i \in LiveEpisodes
    PROVE  /\ i \in Ids /\ rows[i].state # "none"
           /\ Active(mem[i].state) => rows[i].state = mem[i].state
<1>1. PICK p \in Pairs : pool[p] = i /\ i # None
  BY DEF LiveEpisodes
<1>2. i \in Ids /\ rows[i].pair = p /\ mem[i].state # "none"
  BY <1>1 DEF Whole, Shape, PoolPair
<1> QED BY <1>1, <1>2 DEF Whole, Shape, Follow, MemRow

LEMMA CutRow ==
    ASSUME Whole, Crash, NEW i \in Ids
    PROVE  /\ rows'[i].pair = rows[i].pair /\ rows'[i].cum = rows[i].cum
           /\ rows'[i].flagged = rows[i].flagged
           /\ \/ rows'[i] = rows[i]
              \/ CutExit(i) /\ rows[i].state = "pending_exit" /\ rows'[i].state = "closed"
              \/ owed = "force" /\ rows[i].state # "none" /\ rows'[i].state = "closed"
<1>1. CutRows
  BY CrashStep DEF Whole
<1>2. CASE UNCHANGED rows
  BY <1>2
<1>3. ASSUME NEW j \in Ids, CutExit(j)
      PROVE  /\ rows'[i].pair = rows[i].pair /\ rows'[i].cum = rows[i].cum
             /\ rows'[i].flagged = rows[i].flagged
             /\ \/ rows'[i] = rows[i]
                \/ CutExit(i) /\ rows[i].state = "pending_exit" /\ rows'[i].state = "closed"
  <2>1. rows[j].state = "pending_exit"
    BY <1>3, LiveRow DEF CutExit, Active
  <2> QED BY <1>3, <2>1 DEF CutExit, RowsBut
<1>4. ASSUME NEW S \in SUBSET LiveEpisodes, CutForce(S)
      PROVE  /\ rows'[i].pair = rows[i].pair /\ rows'[i].cum = rows[i].cum
             /\ rows'[i].flagged = rows[i].flagged
             /\ \/ rows'[i] = rows[i]
                \/ owed = "force" /\ rows[i].state # "none" /\ rows'[i].state = "closed"
  <2>1. i \in S => rows[i].state # "none"
    BY LiveRow
  <2> QED BY <1>4, <2>1 DEF CutForce, RowsOnlyState
<1> QED BY <1>1, <1>2, <1>3, <1>4 DEF CutRows

LEMMA CrashShape == Whole /\ Crash => Shape'
<1> SUFFICES ASSUME Whole, Crash PROVE Shape'
  OBVIOUS
<1>1. running' = FALSE /\ pool' = NoPool /\ gap' = NoGap /\ owed' = "nothing"
      /\ UNCHANGED study
  BY DEF Crash
<1>2. \A i \in Ids : mem'[i].state = "none"
  BY DEF Crash, NoEpisode
<1>3. excuse \subseteq excuse' /\ (owed = "force" => "torn" \in excuse')
  BY CrashStep DEF Whole
<1>4. ASSUME NEW i \in Ids
      PROVE  /\ rows'[i].pair = rows[i].pair
             /\ \/ rows'[i].state = rows[i].state
                \/ rows'[i].state = "closed" /\ rows[i].state # "none"
  <2>1. \/ rows'[i] = rows[i]
        \/ rows[i].state = "pending_exit" /\ rows'[i].state = "closed"
        \/ rows[i].state # "none" /\ rows'[i].state = "closed"
    BY CutRow
  <2>2. rows'[i].pair = rows[i].pair
    BY CutRow
  <2> QED BY <2>1, <2>2
<1>5. RowPair' /\ MemRow' /\ PoolPair'
  BY <1>1, <1>2, <1>4 DEF Whole, Shape, RowPair, MemRow, PoolPair, NoPool
<1>6. \A i \in OpenRows' : i \in OpenRows /\ rows'[i].pair = rows[i].pair
  BY <1>4 DEF OpenRows
<1>7. OneOpen'
  BY <1>6 DEF Whole, Shape, OneOpen
<1>8. Pooled' /\ Follow' /\ Unwinding' /\ Owned'
  BY <1>1, <1>2 DEF Pooled, Follow, Unwinding, Owned, Active, Unwinds1, NoGap
<1>9. Emptied'
  <2> SUFFICES ASSUME DeadAndDone' PROVE OpenRows' = {}
    BY <1>1 DEF Emptied
  <2>1. DeadAndDone
    BY <1>1, <1>3 DEF DeadAndDone
  <2> QED BY <1>6, <2>1 DEF Whole, Shape, Emptied
<1> QED BY <1>5, <1>7, <1>8, <1>9 DEF Shape

LEMMA BootShape == Whole /\ Boot => Shape'
<1> SUFFICES ASSUME Whole, Boot PROVE Shape'
  OBVIOUS
<1>1. /\ Types' /\ RowsOnlyState /\ Aborts /\ Reloaded
      /\ \A p \in Pairs : \/ /\ pool'[p] \in OpenRows /\ rows[pool'[p]].pair = p
                          \/ /\ pool'[p] = None
                             /\ \A i \in OpenRows : rows[i].pair # p
  BY BootStep DEF Whole
<1>2. UNCHANGED <<study, gap, owed, excuse>> /\ running' = TRUE
  BY DEF Boot
<1>3. gap'.at # "unwind"
  BY <1>2 DEF Boot, Whole, Down
<1>4. ASSUME NEW i \in Ids
      PROVE  /\ rows'[i].pair = rows[i].pair
             /\ IF i \in OpenRows THEN mem'[i].state = "open" /\ rows'[i].state = "open"
                ELSE mem'[i].state = "none" /\ rows'[i].state # "open"
             /\ rows'[i].state # "pending_entry"
             /\ rows'[i].state # "none" <=> rows[i].state # "none"
  <2>1. rows'[i].pair = rows[i].pair
    BY <1>1 DEF RowsOnlyState
  <2>2. IF rows[i].state = "pending_entry" THEN rows'[i].state = "aborted"
        ELSE rows'[i].state = rows[i].state
    BY <1>1 DEF Aborts
  <2>3. IF i \in OpenRows THEN mem'[i].state = "open" ELSE mem'[i].state = "none"
    <3>1. NoEpisode.state = "none"
      BY DEF NoEpisode
    <3>2. mem'[i] = IF i \in OpenRows
                    THEN [state |-> "open", legs |-> {}, funding |-> rows[i].margin]
                    ELSE NoEpisode
      BY <1>1, Zenon DEF Reloaded
    <3>3. CASE i \in OpenRows
      <4>1. mem'[i] = [state |-> "open", legs |-> {}, funding |-> rows[i].margin]
        BY <3>2, <3>3, Zenon
      <4> QED BY <3>3, <4>1
    <3>4. CASE i \notin OpenRows
      BY <3>1, <3>2, <3>4, Zenon
    <3> QED BY <3>3, <3>4
  <2>4. i \in OpenRows <=> rows[i].state = "open"
    BY DEF OpenRows
  <2> QED BY <2>1, <2>2, <2>3, <2>4
<1>5. \A i \in OpenRows : i \in Ids /\ rows[i].pair \in Pairs
  BY DEF OpenRows, Whole, Shape, RowPair
<1>6. RowPair' /\ MemRow'
  BY <1>4 DEF Whole, Shape, RowPair, MemRow
<1>7. \A p \in Pairs : pool'[p] # None => pool'[p] \in OpenRows /\ rows[pool'[p]].pair = p
  BY <1>1
<1>8. PoolPair'
  BY <1>4, <1>5, <1>7 DEF PoolPair
<1>9. ASSUME NEW i \in OpenRows PROVE pool'[rows'[i].pair] = i
  <2>1. i \in Ids /\ rows[i].pair \in Pairs /\ rows'[i].pair = rows[i].pair
    BY <1>4, <1>5
  <2>2. pool'[rows[i].pair] \in OpenRows /\ rows[pool'[rows[i].pair]].pair = rows[i].pair
    BY <1>1, <2>1
  <2> QED BY <2>1, <2>2 DEF Whole, Shape, OneOpen
<1>10. Pooled' /\ Follow' /\ Unwinding'
  BY <1>3, <1>4, <1>9 DEF Pooled, Follow, Unwinding, Active, Unwinds1
<1>11. Owned'
  BY <1>4, <1>9 DEF Owned, Active, Lost
<1>12. OpenRows' = OpenRows
  BY <1>4 DEF OpenRows
<1>13. OneOpen'
  BY <1>4, <1>5, <1>12 DEF Whole, Shape, OneOpen
<1>14. Emptied'
  <2> SUFFICES ASSUME DeadAndDone' PROVE pool' = NoPool /\ OpenRows' = {}
    BY DEF Emptied
  <2>1. OpenRows = {}
    BY <1>2 DEF DeadAndDone, Whole, Shape, Emptied
  <2>2. \A p \in Pairs : pool'[p] = None
    BY <1>1, <2>1
  <2> QED BY <1>1, <1>12, <2>1, <2>2 DEF Types, PoolType, NoPool
<1> QED BY <1>6, <1>8, <1>10, <1>11, <1>13, <1>14 DEF Shape

(* Control: only a process that runs takes steps, and only Die changes dead.   *)
LEMMA Runs ==
    ASSUME Down,
           Free \/ owed # "nothing" \/ sweep # {} \/ gap.at # "none" \/ ws # "down"
    PROVE  running
BY DEF Down, Free

LEMMA CrashControl == Crash => Down' /\ Alive' /\ OwedOK'
<1> SUFFICES ASSUME Crash PROVE Down' /\ Alive' /\ OwedOK'
  OBVIOUS
<1>1. \A i \in Ids : mem'[i].state = "none"
  BY DEF Crash, NoEpisode
<1>2. ~ running' /\ pool' = NoPool /\ ws' = "down" /\ ~ heard' /\ gap'.at = "none" /\ sweep' = {}
      /\ owed' = "nothing"
  BY DEF Crash, NoGap
<1> QED BY <1>1, <1>2 DEF Down, Alive, OwedOK

LEMMA BootControl == Whole /\ Boot => Down' /\ Alive' /\ OwedOK'
BY DEF Whole, Down, Boot, Alive, OwedOK

LEMMA DieControl == Whole /\ Die => Down' /\ Alive' /\ OwedOK'
<1> SUFFICES ASSUME Whole, Die PROVE Down' /\ Alive' /\ OwedOK'
  OBVIOUS
<1>1. running' = running /\ running
  BY Runs DEF Die, Whole
<1>2. study'.dead = TRUE /\ dead' = TRUE
  BY DEF Die, Whole, Types, StudyType
<1> QED BY <1>1, <1>2 DEF Down, Alive, OwedOK

\* Every other step.
LEMMA OtherControl ==
    ASSUME Whole, running, UNCHANGED <<running, dead>>, study'.dead = study.dead,
           owed' = owed \/ (owed # "force" /\ owed' # "force"),
           "torn" \in excuse => "torn" \in excuse'
    PROVE  Down' /\ Alive' /\ OwedOK' /\ Calm
BY DEF Whole, Down, Alive, OwedOK, Calm, DeadAndDone

-----------------------------------------------------------------------------
(* Every other step is of one of the kinds.                                   *)

Control == Down /\ Alive /\ OwedOK
Kind ==
    /\ Calm
    /\ \/ Replays /\ Keeps
       \/ Replays /\ \E i \in Ids : Moves(i)
       \/ Replays /\ \E i \in Ids : Ends(i)
       \/ Replays /\ ~ study'.dead /\ \E p \in Pairs, i \in Ids : Enters(i, p)
       \/ \E i \in Ids : Turns(i)

LEMMA KindShape ==
    ASSUME Types, Shape, Kind
    PROVE  Shape'
BY KeepsShape, MovesShape, EndsShape, EntersShape, TurnsShape DEF Kind

LEMMA Same ==
    ASSUME UNCHANGED <<rows, mem, pool>>
    PROVE  Keeps
BY DEF Keeps

LEMMA GapSame == UNCHANGED gap => Replays
BY DEF Replays

LEMMA PublishKind == Whole /\ Publish => Kind /\ Control'
<1> SUFFICES ASSUME Whole, Publish PROVE Kind /\ Control'
  OBVIOUS
<1>1. UNCHANGED <<rows, mem, pool, gap, study, running, dead, owed, excuse, ws, heard, sweep>>
  BY DEF Publish, ledger, process
<1>2. Calm /\ Control'
  BY <1>1 DEF Calm, DeadAndDone, Control, Down, Alive, OwedOK, Whole
<1> QED BY <1>1, <1>2, Same, GapSame DEF Kind

LEMMA AccrueKind ==
    ASSUME Whole, NEW p \in Pairs, NEW x \in BOOLEAN, Accrue(p, x)
    PROVE  Kind /\ Control'
<1>1. /\ pool[p] \in LiveEpisodes /\ pool[p] \in Ids
      /\ mem[pool[p]].state \in {"open", "pending_exit"}
      /\ \E s \in {"open", "pending_exit"}, n \in Int :
             Accrued(pool[p], s, n) /\ (s = "open" => mem[pool[p]].state = "open")
  BY AccrueStep DEF Whole
<1>2. running /\ UNCHANGED <<running, dead, owed, study, excuse, gap, pool>>
  BY Runs DEF Accrue, Whole
<1>3. Down' /\ Alive' /\ OwedOK' /\ Calm
  BY <1>2, OtherControl
<1>4. Moves(pool[p])
  <2> DEFINE i == pool[p]
  <2>1. PICK s \in {"open", "pending_exit"}, n \in Int :
            Accrued(i, s, n) /\ (s = "open" => mem[i].state = "open")
    BY <1>1
  <2>2. i \in LiveEpisodes /\ mem[i].state \in {"open", "pending_exit"}
    BY <1>1
  <2> HIDE DEF i
  <2>3. \E k \in Int : rows'[i].cum = rows[i].cum + k /\ mem'[i].funding = mem[i].funding + k
    BY <2>1 DEF Accrued
  <2>4. Others(i)
    BY <2>1 DEF Accrued, Others, EpisodesBut
  <2>5. /\ rows'[i].pair = rows[i].pair /\ rows'[i].flagged = rows[i].flagged
        /\ rows'[i].state = s /\ mem'[i].state = s
    BY <2>1 DEF Accrued
  <2>7. /\ running /\ i \in LiveEpisodes /\ pool' = pool
        /\ Active(mem[i].state) /\ Active(mem'[i].state)
        /\ rows'[i].state = mem'[i].state /\ mem'[i].state # "pending_entry"
        /\ mem'[i].state = "open" => mem[i].state = "open"
        /\ mem[i].state # "pending_entry"
    BY <1>2, <2>1, <2>2, <2>5 DEF Active
  <2>6. Moves(i)
    BY <2>3, <2>4, <2>5, <2>7, Zenon DEF Moves
  <2> QED BY <2>6 DEF i
<1> QED BY <1>1, <1>2, <1>3, <1>4, GapSame DEF Kind, Control

LEMMA EntryKind ==
    ASSUME Whole, NEW p \in Pairs, MaybeEntry(p)
    PROVE  Kind /\ Control'
<1>1. PICK i \in Ids : Entered(i, p)
  BY EntryStep DEF Whole
<1>2. running /\ UNCHANGED <<running, dead, owed, study, excuse, gap>> /\ ~ study.dead /\ pool[p] = None
  BY Runs DEF MaybeEntry, Whole, Alive
<1>3. Down' /\ Alive' /\ OwedOK' /\ Calm
  BY <1>2, OtherControl
<1>4. rows'[i].pair = p /\ rows'[i].state = "pending_entry" /\ mem'[i].state = "pending_entry"
      /\ rows'[i].cum = 0 /\ mem'[i].funding = 0
  BY <1>1 DEF Entered, NoRow, NoEpisode
<1>5. Enters(i, p)
  BY <1>1, <1>2, <1>4 DEF Enters, Entered, Others, EpisodesBut
<1> QED BY <1>2, <1>3, <1>5, GapSame DEF Kind, Control

LEMMA EndedOthers ==
    ASSUME NEW i \in Ids, Ended(i)
    PROVE  /\ rows'[i].pair = rows[i].pair /\ Settled(rows'[i].state)
           /\ mem'[i].state = rows'[i].state /\ Others(i)
           /\ rows'[i].flagged = rows[i].flagged /\ rows'[i].cum = rows[i].cum
           /\ rows'[i].state = "closed" => rows'[i].margin = mem[i].funding
           /\ pool' = Without(rows[i].pair) \/ pool' = pool
BY DEF Ended, RowsBut, EpisodesBut, Others

LEMMA BookKind ==
    ASSUME Whole, NEW p \in Pairs, NEW legs \in SUBSET Legs, NEW x \in BOOLEAN,
           Book(p, legs, x)
    PROVE  Kind /\ Control'
<1> DEFINE i == pool[p]
<1>1. Booked(i)
  BY BookStep DEF Whole
<1>2. running /\ owed = "nothing" /\ UNCHANGED <<running, dead, study, gap>>
  BY Runs DEF Book, Whole, Free, Held
<1> HIDE DEF i
<1>3. CASE UNCHANGED <<rows, stats, mem, pool, owed, excuse>>
  <2>1. Down' /\ Alive' /\ OwedOK' /\ Calm
    BY <1>2, <1>3, OtherControl
  <2> QED BY <1>2, <1>3, <2>1, Same, GapSame DEF Kind, Control
<1>4. CASE i \in Ids /\ Filled(i)
  <2>1. Down' /\ Alive' /\ OwedOK' /\ Calm
    BY <1>2, <1>4, OtherControl DEF Filled
  <2>2. Keeps
    BY <1>4 DEF Filled, Keeps, EpisodesBut
  <2> QED BY <1>2, <2>1, <2>2, GapSame DEF Kind, Control
<1>5. CASE /\ i \in Ids /\ i \in LiveEpisodes /\ mem[i].state = "pending_entry"
           /\ Opened(i) /\ OpenedNow(i)
  <2>1. UNCHANGED <<pool, owed>> /\ ("torn" \in excuse => "torn" \in excuse')
    BY <1>5 DEF Opened
  <2>2. Down' /\ Alive' /\ OwedOK' /\ Calm
    BY <1>2, <2>1, OtherControl
  <2>3. heard' = TRUE
    BY DEF Book
  <2>4. rows[i].cum \in Int /\ mem[i].funding \in Int
    BY <1>5 DEF Whole, Types, RowsType, MemType, Row, Episode
  <2>5. \E n \in Int : rows'[i].cum = rows[i].cum + n /\ mem'[i].funding = mem[i].funding + n
    <3>1. rows'[i].cum = rows[i].cum + 0 /\ mem'[i].funding = mem[i].funding + 0
      BY <1>5, <2>4 DEF OpenedNow
    <3> QED BY <3>1
  <2>6. Moves(i)
    BY <1>2, <1>5, <2>1, <2>3, <2>5 DEF Moves, OpenedNow, Others, EpisodesBut, Active
  <2> QED BY <1>2, <1>5, <2>2, <2>6, GapSame DEF Kind, Control
<1>6. CASE /\ i \in Ids /\ mem[i].state \in {"pending_entry", "pending_exit"}
           /\ Ended(i) /\ owed' = "gates" /\ UNCHANGED excuse
           /\ mem[i].state = "pending_entry" => rows'[i].state = "aborted"
           /\ mem[i].state = "pending_exit" => rows'[i].state = "closed"
  <2>1. Down' /\ Alive' /\ OwedOK' /\ Calm
    BY <1>2, <1>6, OtherControl
  <2>2. Ends(i)
    BY <1>2, <1>6, EndedOthers DEF Ends, Active, SettledFrom
  <2> QED BY <1>2, <1>6, <2>1, <2>2, GapSame DEF Kind, Control
<1> QED BY <1>1, <1>3, <1>4, <1>5, <1>6 DEF Booked

LEMMA GatesKind ==
    ASSUME Whole, NEW x \in BOOLEAN, NEW v \in {"A", "C"}, Gates(x, v)
    PROVE  Kind /\ Control'
<1>1. running /\ UNCHANGED <<running, dead, gap, rows, mem, pool>> /\ owed = "gates"
      /\ excuse' = excuse \ {"threshold"}
  BY Runs DEF Gates, Whole
<1>2. owed' # "force"
  BY DEF Gates, FinalReadout
<1>3. study'.dead = study.dead
  <2>1. UNCHANGED study \/ study' = [study EXCEPT !.readout = v]
    BY Zenon DEF Gates, FinalReadout
  <2> QED BY <2>1 DEF Whole, Types, StudyType
<1>4. Down' /\ Alive' /\ OwedOK' /\ Calm
  BY <1>1, <1>2, <1>3, OtherControl
<1> QED BY <1>1, <1>4, Same, GapSame DEF Kind, Control

LEMMA DieKind == Whole /\ Die => Kind /\ Control'
<1> SUFFICES ASSUME Whole, Die PROVE Kind /\ Control'
  OBVIOUS
<1>1. UNCHANGED <<running, gap, rows, mem, pool>> /\ owed' = "force"
  BY DEF Die
<1>2. study'.dead = TRUE
  BY DEF Die, Whole, Types, StudyType
<1>3. Calm
  BY <1>1, <1>2 DEF Calm, DeadAndDone
<1> QED BY <1>1, <1>3, Same, GapSame, DieControl DEF Kind, Control

LEMMA QuietKind ==
    ASSUME Whole,
           StartSweep \/ Drop \/ Connect \/ TurnToPending \/ Stream \/ \E i \in Ids : AskGap(i)
    PROVE  Kind /\ Control'
<1>1. running /\ UNCHANGED <<running, dead, study, owed, excuse, rows, mem, pool>>
  BY Runs DEF StartSweep, Drop, Connect, TurnToPending, Stream, AskGap, ledger, Whole
<1>2. Replays
  <2>1. gap'.at # "unwind" \/ UNCHANGED gap
    <3>1. CASE StartSweep \/ Drop
      BY <3>1 DEF StartSweep, Drop
    <3>2. CASE Connect
      BY <3>2 DEF Connect, NoGap
    <3>3. CASE TurnToPending
      <4>1. gap' = [NoGap EXCEPT !.at = "pending", !.todo = LiveEpisodes]
        BY <3>3 DEF TurnToPending
      <4> QED BY <4>1 DEF NoGap
    <3>5. CASE Stream
      BY <3>5 DEF Stream, NoGap
    <3>4. CASE \E i \in Ids : AskGap(i)
      BY <3>4 DEF AskGap
    <3> QED BY <3>1, <3>2, <3>3, <3>4, <3>5
  <2> QED BY <2>1, GapSame DEF Replays
<1>3. Down' /\ Alive' /\ OwedOK' /\ Calm
  BY <1>1, OtherControl
<1> QED BY <1>1, <1>2, <1>3, Same DEF Kind, Control

LEMMA TickedKind ==
    ASSUME Whole, NEW i \in Ids, Ticked(i), running, owed = "nothing",
           UNCHANGED <<running, dead, study, excuse>>, Replays
    PROVE  Kind /\ Control'
<1>1. owed' # "force"
  BY DEF Ticked, Unmoved, Rebalanced, Struck
<1>2. Down' /\ Alive' /\ OwedOK' /\ Calm
  BY <1>1, OtherControl
<1>3. CASE Unmoved
  BY <1>2, <1>3, Same DEF Unmoved, Kind, Control
<1>4. CASE mem[i].state = "open" /\ Rebalanced(i)
  <2>1. Keeps
    BY <1>4 DEF Rebalanced, RowsBut, Keeps
  <2> QED BY <1>2, <2>1 DEF Kind, Control
<1>5. CASE mem[i].state = "open" /\ Struck(i)
  <2>1. Ends(i)
    BY <1>5, EndedOthers DEF Struck, Ends, Active, SettledFrom
  <2> QED BY <1>2, <2>1 DEF Kind, Control
<1> QED BY <1>3, <1>4, <1>5 DEF Ticked

LEMMA SweepKind ==
    ASSUME Whole, NEW i \in Ids, NEW ev \in Events, SweepOne(i, ev)
    PROVE  Kind /\ Control'
<1>1. Ticked(i)
  BY SweepStep DEF Whole
<1>2. running /\ owed = "nothing" /\ UNCHANGED <<running, dead, study, excuse, gap>>
  BY Runs DEF SweepOne, Whole
<1> QED BY <1>1, <1>2, TickedKind, GapSame

LEMMA AnswerKind ==
    ASSUME Whole, NEW c \in BOOLEAN, NEW ev \in Events, AnswerGap(c, ev)
    PROVE  Kind /\ Control'
<1> DEFINE i == gap.cur
<1>1. /\ i \in Ids
      /\ \/ c /\ Ticked(i)
         \/ /\ ~ c /\ RowIs(i, [rows[i] EXCEPT !.flagged = TRUE])
            /\ UNCHANGED <<mem, pool, liquidated, owed>>
  BY AnswerGapStep DEF Whole
<1>2. running /\ owed = "nothing" /\ UNCHANGED <<running, dead, study, excuse>>
  BY Runs DEF AnswerGap, Held, Whole
<1>3. Replays
  BY DEF AnswerGap, Replays, Whole, Types, GapType
<1> HIDE DEF i
<1>4. CASE Ticked(i)
  BY <1>1, <1>2, <1>3, <1>4, TickedKind
<1>5. CASE RowIs(i, [rows[i] EXCEPT !.flagged = TRUE]) /\ UNCHANGED <<mem, pool, liquidated, owed>>
  <2>1. rows[i] \in Row
    BY <1>1 DEF Whole, Types, RowsType
  <2>2. Keeps
    BY <1>5, <2>1 DEF Keeps, RowIs, Row
  <2>3. Down' /\ Alive' /\ OwedOK' /\ Calm
    BY <1>2, <1>5, OtherControl
  <2> QED BY <1>3, <2>2, <2>3 DEF Kind, Control
<1> QED BY <1>1, <1>4, <1>5

LEMMA EndPendingKind ==
    ASSUME Whole, NEW i \in Ids, NEW x \in BOOLEAN, EndPending(i, x)
    PROVE  Kind /\ Control'
<1>1. \/ Waits(i) /\ gap' = [gap EXCEPT !.todo = gap.todo \ {i}]
      \/ Ended(i) /\ rows'[i].state = "aborted" /\ owed' = "gates"
         /\ gap' = [gap EXCEPT !.todo = gap.todo \ {i}]
      \/ Unwinds(i) /\ gap' = [at |-> "unwind", todo |-> gap.todo \ {i}, cur |-> i]
  BY EndPendingStep DEF Whole
<1>2. running /\ owed = "nothing" /\ UNCHANGED <<running, dead, study, excuse>>
      /\ gap.at = "pending" /\ mem[i].state = "pending_entry"
  BY Runs DEF EndPending, Whole
<1>3. rows[i] \in Row
  BY DEF Whole, Types, RowsType
<1>4. gap' = [gap EXCEPT !.todo = gap.todo \ {i}] => Replays
  BY <1>2 DEF Replays, Whole, Types, GapType
<1>5. CASE Waits(i) /\ gap' = [gap EXCEPT !.todo = gap.todo \ {i}]
  <2>1. Down' /\ Alive' /\ OwedOK' /\ Calm
    BY <1>2, <1>5, OtherControl DEF Waits
  <2>2. Keeps
    BY <1>3, <1>5 DEF Waits, Keeps, RowIs, Row
  <2> QED BY <1>4, <1>5, <2>1, <2>2 DEF Kind, Control
<1>6. CASE Ended(i) /\ rows'[i].state = "aborted" /\ owed' = "gates"
           /\ gap' = [gap EXCEPT !.todo = gap.todo \ {i}]
  <2>1. Down' /\ Alive' /\ OwedOK' /\ Calm
    BY <1>2, <1>6, OtherControl
  <2>2. Ends(i)
    BY <1>2, <1>6, EndedOthers DEF Ends, Active, SettledFrom
  <2> QED BY <1>4, <1>6, <2>1, <2>2 DEF Kind, Control
<1>7. CASE Unwinds(i) /\ gap' = [at |-> "unwind", todo |-> gap.todo \ {i}, cur |-> i]
  <2>1. Down' /\ Alive' /\ OwedOK' /\ Calm
    BY <1>2, <1>7, OtherControl DEF Unwinds
  <2>2. Turns(i)
    BY <1>2, <1>3, <1>7 DEF Unwinds, Turns, Others, EpisodesBut, RowIs, Row
  <2> QED BY <2>1, <2>2 DEF Kind, Control
<1> QED BY <1>1, <1>5, <1>6, <1>7

LEMMA UnwindKind == Whole /\ Unwind => Kind /\ Control'
<1> SUFFICES ASSUME Whole, Unwind PROVE Kind /\ Control'
  OBVIOUS
<1> DEFINE i == gap.cur
<1>1. i \in Ids /\ Ended(i) /\ owed' = "gates" /\ rows'[i].state = "aborted"
  BY UnwindStep DEF Whole
<1>2. running /\ owed = "nothing" /\ UNCHANGED <<running, dead, study, excuse>>
      /\ gap.at = "unwind" /\ gap'.at = "pending"
  <2>1. gap' = [gap EXCEPT !.at = "pending", !.cur = None]
    BY DEF Unwind
  <2>2. gap'.at = "pending"
    BY <2>1 DEF Whole, Types, GapType
  <2> QED BY <2>2, Runs DEF Unwind, Held, Aborted, Whole
<1>3. Unwinds1(i)
  BY <1>2 DEF Unwinds1
<1>7. mem[i].state = "aborted"
  BY <1>2 DEF Whole, Shape, Unwinding
<1> HIDE DEF i
<1>4. Down' /\ Alive' /\ OwedOK' /\ Calm
  BY <1>1, <1>2, OtherControl
<1>5. Ends(i)
  BY <1>1, <1>2, <1>3, <1>7, EndedOthers DEF Ends, SettledFrom
<1>6. Replays
  BY <1>2 DEF Replays
<1> QED BY <1>1, <1>4, <1>5, <1>6 DEF Kind, Control

LEMMA StutterKind == Whole /\ UNCHANGED vars => Kind /\ Control'
<1> SUFFICES ASSUME Whole, UNCHANGED vars PROVE Kind /\ Control'
  OBVIOUS
<1>1. UNCHANGED <<rows, mem, pool, gap, study, running, dead, owed, excuse, ws, heard, sweep>>
  BY DEF vars, ledger, process
<1>2. Calm /\ Control'
  BY <1>1 DEF Calm, DeadAndDone, Control, Down, Alive, OwedOK, Whole
<1> QED BY <1>1, <1>2, Same, GapSame DEF Kind

LEMMA StepKinds ==
    ASSUME Whole, [Next]_vars
    PROVE  Control' /\ (Kind \/ ForceStop \/ Crash \/ Boot)
<1>1. CASE Publish
  BY <1>1, PublishKind
<1>2. CASE \E p \in Pairs : MaybeEntry(p)
  BY <1>2, EntryKind
<1>3. CASE \E p \in Pairs, x \in BOOLEAN : Accrue(p, x)
  BY <1>3, AccrueKind
<1>4. CASE \E p \in Pairs, x \in BOOLEAN, legs \in SUBSET Legs : Book(p, legs, x)
  BY <1>4, BookKind
<1>5. CASE Die
  BY <1>5, DieKind
<1>6. CASE ForceStop
  <2>1. running' = running /\ running /\ UNCHANGED <<dead, study>> /\ owed' = "nothing"
    BY <1>6, Runs DEF ForceStop, Whole
  <2> QED BY <1>6, <2>1 DEF Whole, Control, Down, Alive, OwedOK
<1>7. CASE \E x \in BOOLEAN, v \in {"A", "C"} : Gates(x, v)
  BY <1>7, GatesKind
<1>8. CASE StartSweep \/ Drop \/ Connect \/ TurnToPending \/ Stream \/ \E i \in Ids : AskGap(i)
  BY <1>8, QuietKind
<1>9. CASE \E i \in Ids, ev \in Events : SweepOne(i, ev)
  BY <1>9, SweepKind
<1>10. CASE \E i \in Ids, x \in BOOLEAN : EndPending(i, x)
  BY <1>10, EndPendingKind
<1>11. CASE \E c \in BOOLEAN, ev \in Events : AnswerGap(c, ev)
  BY <1>11, AnswerKind
<1>12. CASE Unwind
  BY <1>12, UnwindKind
<1>13. CASE Crash \/ Boot
  BY <1>13, CrashControl, BootControl DEF Control
<1>14. CASE UNCHANGED vars
  BY <1>14, StutterKind
<1> QED BY <1>1, <1>2, <1>3, <1>4, <1>5, <1>6, <1>7, <1>8, <1>9, <1>10, <1>11, <1>12, <1>13,
           <1>14, Zenon DEF Next, GapStep, GateStep

LEMMA InitWhole == Init => Whole
<1> SUFFICES ASSUME Init PROVE Whole
  OBVIOUS
<1>1. /\ \A i \in Ids : rows[i].state = "none" /\ mem[i].state = "none"
      /\ gap.at = "none" /\ pool = NoPool /\ running /\ study.dead = FALSE /\ dead = FALSE
      /\ owed = "nothing"
  BY DEF Init, NoRow, NoEpisode, NoGap
<1>2. Shape
  BY <1>1 DEF Shape, RowPair, MemRow, PoolPair, NoPool, Pooled, Follow, Unwinding, Owned, OneOpen,
              OpenRows, Emptied, DeadAndDone, Active, Unwinds1
<1> QED BY <1>1, <1>2, InitTypes DEF Whole, Down, Alive, OwedOK

LEMMA StepWhole == Whole /\ [Next]_vars => Whole'
<1> SUFFICES ASSUME Whole, [Next]_vars PROVE Whole'
  OBVIOUS
<1>1. Types' /\ Control'
  BY StepTypes, StepKinds DEF Whole
<1>2. Shape'
  BY StepKinds, KindShape, ForceStopShape, CrashShape, BootShape DEF Whole
<1> QED BY <1>1, <1>2 DEF Whole, Control

LEMMA Always == Spec => []Whole
BY InitWhole, StepWhole, PTL DEF Spec

-----------------------------------------------------------------------------
(* What the ledger promises.                                                  *)

(* No unsettled row is out of reach: the pool holds it under its pair, unless  *)
(* a restart lost an exit; and death leaves none open unless it was torn.      *)
THEOREM EpisodesTracked == Spec => []Tracked
<1>1. Whole => Tracked
  <2> SUFFICES ASSUME Whole, Quiet, NEW i \in Unsettled \ {j \in Ids : Lost(j)}
               PROVE  pool[rows[i].pair] = i /\ (study.dead => "torn" \in excuse)
    BY DEF Tracked
  <2>1. i \in Ids /\ Active(rows[i].state) /\ ~ Lost(i)
    BY DEF Unsettled, Active
  <2>2. pool[rows[i].pair] = i
    BY <2>1 DEF Whole, Shape, Owned, Quiet
  <2>3. pool # NoPool
    <3>1. rows[i].pair \in Pairs
      BY <2>1 DEF Whole, Shape, RowPair, Active
    <3> QED BY <2>1, <2>2, <3>1, IdsNotNone DEF NoPool
  <2> QED BY <2>2, <2>3 DEF Whole, Shape, Emptied, DeadAndDone, Quiet
<1> QED BY <1>1, Always, PTL

(* A dead study enters nothing, in this process or in the next ones.           *)
THEOREM DeadNeverEnters == Spec => NoEntryAfterDeath
<1>1. Whole /\ [Next]_vars =>
        [study.dead => \A i \in Ids : rows[i].state = "none" => rows'[i].state = "none"]_vars
  <2> SUFFICES ASSUME Whole, [Next]_vars, study.dead, NEW i \in Ids, rows[i].state = "none"
               PROVE  rows'[i].state = "none"
    OBVIOUS
  <2>1. mem[i].state = "none"
    BY DEF Whole, Shape, MemRow
  <2>2. i \notin LiveEpisodes
    BY <2>1, IdsNotNone DEF Whole, Shape, PoolPair, LiveEpisodes
  <2>3. CASE Kind
    BY <2>1, <2>2, <2>3 DEF Kind, Keeps, Moves, Ends, Enters, Turns, Others, Active, Unwinds1,
                            Whole, Shape, Unwinding
  <2>4. CASE ForceStop
    <3>1. \A j \in Ids : IF j \in LiveEpisodes THEN rows'[j].state = "closed"
                         ELSE rows'[j] = rows[j]
      BY <2>4, ForceStopStep DEF Whole
    <3> QED BY <2>2, <3>1
  <2>5. CASE Crash
    <3>1. rows'[i] = rows[i] \/ rows[i].state # "none"
      BY <2>5, CutRow
    <3> QED BY <3>1
  <2>6. CASE Boot
    <3>1. Aborts
      BY <2>6, BootStep DEF Whole
    <3> QED BY <3>1 DEF Aborts
  <2> QED BY <2>3, <2>4, <2>5, <2>6, StepKinds
<1> QED BY <1>1, Always, PTL DEF Spec, NoEntryAfterDeath

(* A row that was settled is never settled again while the study lives.        *)
THEOREM SettledOnce == Spec => SettledStays
<1>1. Whole /\ [Next]_vars =>
        [\A i \in Ids : Settled(rows[i].state) /\ ~ study.dead
                        => rows'[i].state = rows[i].state]_vars
  <2> SUFFICES ASSUME Whole, [Next]_vars, NEW i \in Ids, Settled(rows[i].state), ~ study.dead
               PROVE  rows'[i].state = rows[i].state
    OBVIOUS
  <2>1. ~ Active(mem[i].state) /\ ~ Unwinds1(i)
    <3>1. Active(mem[i].state) \/ Unwinds1(i) => pool[rows[i].pair] = i
      BY DEF Whole, Shape, Pooled
    <3>2. Active(mem[i].state) => Active(rows[i].state)
      BY <3>1 DEF Whole, Shape, Follow, Active
    <3>3. Unwinds1(i) => rows[i].state = "pending_entry"
      BY <3>1 DEF Whole, Shape, Unwinding, Unwinds1
    <3> QED BY <3>2, <3>3 DEF Settled, Active
  <2>2. CASE Kind
    BY <2>1, <2>2 DEF Kind, Keeps, Moves, Ends, Enters, Turns, Others, Active, Settled
  <2>3. CASE ForceStop
    BY <2>3 DEF ForceStop, Whole, OwedOK
  <2>4. CASE Crash
    <3>1. owed # "force"
      BY DEF Whole, OwedOK
    <3> QED BY <2>4, <3>1, CutRow DEF Settled
  <2>5. CASE Boot
    <3>1. Aborts
      BY <2>5, BootStep DEF Whole
    <3> QED BY <3>1 DEF Aborts, Settled
  <2> QED BY <2>2, <2>3, <2>4, <2>5, StepKinds
<1> QED BY <1>1, Always, PTL DEF Spec, SettledStays

-----------------------------------------------------------------------------
(* The episodes table, as steps of EpisodeLifecycle.                          *)

\* What one row goes through, and what the others do.
RowGoes(i) ==
    /\ study'.dead = study.dead /\ rows'[i].pair = rows[i].pair
    /\ \A j \in Ids : j # i => rows'[j] = rows[j]
    /\ \/ rows'[i].state = rows[i].state
       \/ rows[i].state = "pending_entry" /\ rows'[i].state = "open"
       \/ rows[i].state = "open" /\ rows'[i].state = "pending_exit"
       \/ SettledFrom(rows[i].state, rows'[i].state)
       \/ study.dead /\ Settled(rows[i].state) /\ Settled(rows'[i].state)
RowEnters(i, p) ==
    /\ study'.dead = study.dead /\ ~ study.dead /\ rows[i].state = "none"
    /\ \A j \in Ids : rows[j].pair = p => rows[j].state \notin {"pending_entry", "open"}
    /\ rows'[i].pair = p /\ rows'[i].state = "pending_entry"
    /\ \A j \in Ids : j # i => rows'[j] = rows[j]
RowsSame == \A i \in Ids : rows'[i].pair = rows[i].pair /\ rows'[i].state = rows[i].state

phases == [i \in Ids |-> rows[i].state]
pairs == [i \in Ids |-> rows[i].pair]

LEMMA RowGoesAllowed ==
    ASSUME Types, NEW i \in Ids, RowGoes(i)
    PROVE  [Life!Next]_Life!lifeVars
<1>1. pairs' = pairs /\ study'.dead = study.dead
  <2>1. \A j \in Ids : rows'[j].pair = rows[j].pair
    BY DEF RowGoes
  <2> QED BY <2>1 DEF pairs, RowGoes
<1>2. phases' = [phases EXCEPT ![i] = rows'[i].state] /\ phases[i] = rows[i].state
  <2>1. \A j \in Ids : rows'[j].state = IF j = i THEN rows'[i].state ELSE rows[j].state
    BY DEF RowGoes
  <2> QED BY <2>1 DEF phases
<1>3. \A s : s = rows'[i].state => Life!Move(i, s)
  BY <1>1, <1>2 DEF Life!Move, phases, pairs
<1>9. Life!Move(i, rows'[i].state)
  BY <1>1, <1>2 DEF Life!Move, phases, pairs
<1>4. CASE rows'[i].state = rows[i].state
  <2>1. phases' = phases
    BY <1>2, <1>4 DEF phases
  <2> QED BY <1>1, <2>1 DEF Life!lifeVars, phases, pairs
<1>5. CASE rows[i].state = "pending_entry" /\ rows'[i].state = "open"
  <2>1. Life!Fill(i)
    BY <1>2, <1>3, <1>5 DEF Life!Fill, phases
  <2> QED BY <2>1 DEF Life!Next
<1>6. CASE rows[i].state = "open" /\ rows'[i].state = "pending_exit"
  <2>1. Life!Exit(i)
    BY <1>2, <1>3, <1>6 DEF Life!Exit, phases
  <2> QED BY <2>1 DEF Life!Next
<1>7. CASE SettledFrom(rows[i].state, rows'[i].state)
  <2>1. CASE rows[i].state = "aborted"
    BY <1>4, <1>7, <2>1 DEF SettledFrom
  <2>2. CASE rows[i].state # "aborted"
    <3>1. <<rows[i].state, rows'[i].state>> \in Life!Settlements
          /\ rows'[i].state \in Life!Settled
      BY <1>7, <2>2 DEF SettledFrom, Life!Settlements, Life!Settled
    <3>2. Life!Settle(i, rows'[i].state)
      BY <1>2, <1>9, <3>1 DEF Life!Settle, phases
    <3> QED BY <3>1, <3>2 DEF Life!Next
  <2> QED BY <2>1, <2>2
<1>8. CASE study.dead /\ Settled(rows[i].state) /\ Settled(rows'[i].state)
  <2>1. rows[i].state \in Life!Settled /\ rows'[i].state \in Life!Settled
    BY <1>8 DEF Settled, Life!Settled
  <2>2. Life!Resettle(i, rows'[i].state)
    BY <1>2, <1>8, <1>9, <2>1 DEF Life!Resettle, phases
  <2> QED BY <2>1, <2>2 DEF Life!Next
<1> QED BY <1>4, <1>5, <1>6, <1>7, <1>8 DEF RowGoes

LEMMA RowEntersAllowed ==
    ASSUME Types, NEW i \in Ids, NEW p \in Pairs, RowEnters(i, p)
    PROVE  Life!Next
<1>1. pairs' = [pairs EXCEPT ![i] = p]
  <2>1. \A j \in Ids : rows'[j].pair = IF j = i THEN p ELSE rows[j].pair
    BY DEF RowEnters
  <2> QED BY <2>1 DEF pairs
<1>2. phases' = [phases EXCEPT ![i] = "pending_entry"]
  <2>1. \A j \in Ids : rows'[j].state = IF j = i THEN "pending_entry" ELSE rows[j].state
    BY DEF RowEnters
  <2> QED BY <2>1 DEF phases
<1>3. phases[i] = "none" /\ ~ study.dead /\ study'.dead = study.dead
      /\ \A j \in Ids : pairs[j] = p => phases[j] \notin {"pending_entry", "open"}
  BY DEF RowEnters, phases, pairs
<1>4. Life!Enter(i, p)
  BY <1>1, <1>2, <1>3 DEF Life!Enter, phases, pairs
<1> QED BY <1>4 DEF Life!Next

\* The study may end in a step that leaves the rows as they are.
LEMMA RowsSameAllowed ==
    ASSUME Types, RowsSame, study'.dead = study.dead \/ study'.dead = TRUE
    PROVE  [Life!Next]_Life!lifeVars
<1>1. phases' = phases /\ pairs' = pairs
  BY DEF RowsSame, phases, pairs
<1>2. CASE study'.dead = study.dead
  BY <1>1, <1>2 DEF Life!lifeVars, phases, pairs
<1>3. CASE study'.dead = TRUE
  <2>1. Life!End
    BY <1>1, <1>3 DEF Life!End, phases, pairs
  <2> QED BY <2>1 DEF Life!Next
<1> QED BY <1>2, <1>3

LEMMA BootAllowed ==
    ASSUME Whole, Boot
    PROVE  Life!Next
<1>1. RowsOnlyState /\ Aborts /\ UNCHANGED study
  BY BootStep DEF Whole, Boot
<1>2. pairs' = pairs
  BY <1>1 DEF pairs, RowsOnlyState
<1>3. phases' = [i \in Ids |-> IF phases[i] = "pending_entry" THEN "aborted" ELSE phases[i]]
  <2>1. \A i \in Ids : rows'[i].state = IF rows[i].state = "pending_entry" THEN "aborted"
                                        ELSE rows[i].state
    BY <1>1 DEF Aborts
  <2> QED BY <2>1 DEF phases
<1>4. Life!Forget
  BY <1>1, <1>2, <1>3 DEF Life!Forget, phases, pairs
<1> QED BY <1>4 DEF Life!Next

\* Some of the episodes of the pool are closed, or all of them.
LEMMA StoppedAllowed ==
    ASSUME Whole, owed = "force", UNCHANGED study, RowsOnlyState, NEW S \in SUBSET LiveEpisodes,
           \A i \in Ids : IF i \in S THEN rows'[i].state = "closed" ELSE rows'[i] = rows[i]
    PROVE  Life!Next
<1>1. S \in SUBSET Ids
  BY LiveIds DEF Whole, Types
<1>2. \A i \in S : phases[i] # "none"
  BY <1>1, LiveRow DEF phases
<1>3. pairs' = pairs
  BY DEF pairs, RowsOnlyState
<1>4. phases' = [i \in Ids |-> IF i \in S THEN "closed" ELSE phases[i]]
  BY DEF phases
<1>5. study.dead /\ study'.dead = study.dead
  BY DEF Whole, OwedOK
<1>6. Life!Stop(S)
  BY <1>2, <1>3, <1>4, <1>5 DEF Life!Stop, phases, pairs
<1> QED BY <1>1, <1>6 DEF Life!Next

LEMMA ForceStopAllowed ==
    ASSUME Whole, ForceStop
    PROVE  Life!Next
<1>1. RowsOnlyState /\ \A i \in Ids : IF i \in LiveEpisodes THEN rows'[i].state = "closed"
                                      ELSE rows'[i] = rows[i]
  BY ForceStopStep DEF Whole
<1>2. owed = "force" /\ UNCHANGED study
  BY DEF ForceStop
<1> QED BY <1>1, <1>2, StoppedAllowed

LEMMA CrashAllowed ==
    ASSUME Whole, Crash
    PROVE  [Life!Next]_Life!lifeVars
<1>1. CutRows /\ UNCHANGED study
  BY CrashStep DEF Whole, Crash
<1>2. CASE UNCHANGED rows
  BY <1>1, <1>2 DEF Life!lifeVars
<1>3. ASSUME NEW i \in Ids, CutExit(i) PROVE Life!Next
  <2>1. rows[i].state = "pending_exit" /\ rows'[i].state = "closed"
    BY <1>3, LiveRow DEF CutExit, Active
  <2>2. RowGoes(i)
    BY <1>1, <1>3, <2>1 DEF RowGoes, CutExit, RowsBut, SettledFrom
  <2>3. [Life!Next]_Life!lifeVars
    BY <2>2, RowGoesAllowed DEF Whole
  <2> QED BY <2>1, <2>3 DEF Life!lifeVars
<1>4. ASSUME NEW S \in SUBSET LiveEpisodes, CutForce(S) PROVE Life!Next
  BY <1>1, <1>4, StoppedAllowed DEF CutForce
<1> QED BY <1>1, <1>2, <1>3, <1>4 DEF CutRows

\* The episode in memory is where its row is, unless death has settled the row.
LEMMA InStep ==
    ASSUME Whole, running, NEW i \in Ids, Active(mem[i].state) \/ Unwinds1(i)
    PROVE  \/ /\ Active(mem[i].state) /\ rows[i].state = mem[i].state
              /\ pool[rows[i].pair] = i
           \/ /\ mem[i].state = "aborted" /\ rows[i].state = "pending_entry"
              /\ pool[rows[i].pair] = i
           \/ study.dead /\ Settled(rows[i].state) /\ pool = NoPool
<1>1. Unwinds1(i) => mem[i].state = "aborted"
  BY DEF Unwinds1, Whole, Shape, Unwinding
<1>2. mem[i].state # "none" /\ rows[i].state # "none" /\ rows[i].pair \in Pairs
  BY <1>1 DEF Active, Whole, Shape, MemRow, RowPair
<1>3. CASE pool[rows[i].pair] = i
  BY <1>1, <1>3 DEF Whole, Shape, Follow, Unwinding, Unwinds1
<1>4. CASE study.dead /\ pool = NoPool
  <2>1. pool[rows[i].pair] # i
    BY <1>2, <1>4, IdsNotNone DEF NoPool
  <2>2. ~ Active(rows[i].state)
    BY <1>2, <2>1 DEF Whole, Shape, Owned, Lost
  <2>3. rows[i].state \in States
    BY DEF Whole, Types, RowsType, Row
  <2> QED BY <1>2, <1>4, <2>2, <2>3 DEF States, Active, Settled
<1> QED BY <1>3, <1>4 DEF Whole, Shape, Pooled

LEMMA KindAllowed ==
    ASSUME Whole, Types', Kind
    PROVE  [Life!Next]_Life!lifeVars
<1>1. Types /\ Calm
  BY DEF Whole, Kind
<1>2. study'.dead = study.dead \/ (UNCHANGED rows /\ study'.dead = TRUE)
  <2>1. study.dead \in BOOLEAN /\ study'.dead \in BOOLEAN
    BY DEF Whole, Types, StudyType
  <2> QED BY <1>1, <2>1 DEF Calm
<1>3. CASE UNCHANGED rows
  <2>1. RowsSame
    BY <1>3 DEF RowsSame
  <2> QED BY <1>1, <1>2, <2>1, RowsSameAllowed
<1>4. CASE study'.dead = study.dead
  <2>1. CASE Keeps \/ \E i \in Ids : Turns(i)
    <3>1. RowsSame
      BY <2>1 DEF RowsSame, Keeps, Turns, Others
    <3> QED BY <1>1, <1>4, <3>1, RowsSameAllowed
  <2>2. ASSUME NEW i \in Ids, Moves(i) PROVE RowGoes(i)
    <3>1. running /\ i \in LiveEpisodes /\ Active(mem[i].state)
      BY <2>2 DEF Moves
    <3>2. pool # NoPool
      BY <3>1, IdsNotNone DEF LiveEpisodes, NoPool
    <3>3. rows[i].state = mem[i].state
      BY <3>1, <3>2, InStep DEF Active
    <3>4. \/ rows'[i].state = rows[i].state
          \/ rows[i].state = "pending_entry" /\ rows'[i].state = "open"
          \/ rows[i].state = "open" /\ rows'[i].state = "pending_exit"
      BY <2>2, <3>3 DEF Moves, Active
    <3> QED BY <1>4, <2>2, <3>4 DEF RowGoes, Moves, Others
  <2>3. ASSUME NEW i \in Ids, Ends(i) PROVE RowGoes(i)
    <3>1. running /\ (Active(mem[i].state) \/ Unwinds1(i))
          /\ SettledFrom(mem[i].state, rows'[i].state) /\ Settled(rows'[i].state)
      BY <2>3 DEF Ends
    <3>2. \/ rows[i].state = mem[i].state
          \/ mem[i].state = "aborted" /\ rows[i].state = "pending_entry"
          \/ study.dead /\ Settled(rows[i].state)
      BY <3>1, InStep
    <3>3. \/ SettledFrom(rows[i].state, rows'[i].state)
          \/ study.dead /\ Settled(rows[i].state) /\ Settled(rows'[i].state)
      BY <3>1, <3>2 DEF SettledFrom
    <3> QED BY <1>4, <2>3, <3>3 DEF RowGoes, Ends, Others
  <2>4. ASSUME NEW i \in Ids, NEW p \in Pairs, Enters(i, p) PROVE RowEnters(i, p)
    <3>1. running /\ pool[p] = None
      BY <2>4 DEF Enters
    <3>2. \A j \in Ids : rows[j].pair = p => rows[j].state \notin {"pending_entry", "open"}
      BY <3>1, IdsNotNone DEF Whole, Shape, Owned, Active, Lost
    <3> QED BY <1>4, <2>4, <3>2 DEF RowEnters, Enters, Others
  <2> QED BY <1>1, <2>1, <2>2, <2>3, <2>4, RowGoesAllowed, RowEntersAllowed DEF Kind
<1> QED BY <1>2, <1>3, <1>4

(* The episodes table implements EpisodeLifecycle: through outages, crashes     *)
(* between two commits and restarts no pair has two episodes that are pending   *)
(* or open, a row moves as its phase allows and a dead study enters nothing.    *)
THEOREM RowsRefineLifecycle == Spec => RowsFollowLifecycle
<1>1. Init => Life!Init
  BY DEF Init, Life!Init, NoRow, None
<1>2. Whole /\ [Next]_vars => [Life!Next]_Life!lifeVars
  <2> SUFFICES ASSUME Whole, [Next]_vars PROVE [Life!Next]_Life!lifeVars
    OBVIOUS
  <2> QED BY KindAllowed, ForceStopAllowed, CrashAllowed, BootAllowed, StepKinds, StepWhole
          DEF Whole
<1> QED BY <1>1, <1>2, Always, PTL DEF Spec, RowsFollowLifecycle, Life!Spec

-----------------------------------------------------------------------------
(* The funding of an episode that no restart read back is the row's.          *)

Money(i) ==
    /\ Active(mem[i].state) => mem[i].funding = rows[i].cum
    /\ rows[i].state = "closed" => rows[i].margin = rows[i].cum
Matched == \A i \in Ids \ reloaded : study.dead \/ Money(i)

LEMMA AliveOwned ==
    ASSUME Whole, ~ study.dead, NEW i \in Ids
    PROVE  /\ Active(mem[i].state) => rows[i].state = mem[i].state
           /\ Unwinds1(i) => rows[i].state = "pending_entry"
<1>1. Active(mem[i].state) \/ Unwinds1(i) => pool[rows[i].pair] = i
  BY DEF Whole, Shape, Pooled
<1> QED BY <1>1 DEF Whole, Shape, Follow, Unwinding, Unwinds1

LEMMA KindMoney ==
    ASSUME Whole, Kind, ~ study.dead, NEW j \in Ids, Money(j)
    PROVE  Money(j)'
<1>1. Active(mem[j].state) => rows[j].state = mem[j].state
  BY AliveOwned
<1>2. CASE Keeps
  BY <1>1, <1>2 DEF Keeps, Money, Active
<1>3. ASSUME NEW i \in Ids, Others(i), j # i PROVE Money(j)'
  BY <1>3 DEF Others, Money
<1>4. ASSUME NEW i \in Ids, Moves(i) PROVE Money(j)'
  <2>1. CASE j = i
    BY <1>4, <2>1 DEF Moves, Money, Active
  <2> QED BY <1>3, <1>4, <2>1 DEF Moves
<1>5. ASSUME NEW i \in Ids, Ends(i) PROVE Money(j)'
  <2>1. CASE j = i
    BY <1>5, <2>1 DEF Ends, Money, Active, Settled
  <2> QED BY <1>3, <1>5, <2>1 DEF Ends
<1>6. ASSUME NEW p \in Pairs, NEW i \in Ids, Enters(i, p) PROVE Money(j)'
  <2>1. CASE j = i
    BY <1>6, <2>1 DEF Enters, Money
  <2> QED BY <1>3, <1>6, <2>1 DEF Enters
<1>7. ASSUME NEW i \in Ids, Turns(i) PROVE Money(j)'
  <2>1. CASE j = i
    BY <1>7, <2>1 DEF Turns, Money, Active
  <2> QED BY <1>3, <1>7, <2>1 DEF Turns
<1> QED BY <1>2, <1>4, <1>5, <1>6, <1>7 DEF Kind

\* Only a boot reads episodes back.
LEMMA ReloadedSame == Next /\ ~ Boot => UNCHANGED reloaded
<1> SUFFICES ASSUME Next, ~ Boot PROVE UNCHANGED reloaded
  OBVIOUS
<1>1. CASE Publish \/ \E p \in Pairs : MaybeEntry(p)
  BY <1>1 DEF Publish, MaybeEntry
<1>2. CASE \E p \in Pairs, x \in BOOLEAN : Accrue(p, x)
  BY <1>2 DEF Accrue
<1>3. CASE \E p \in Pairs, x \in BOOLEAN, legs \in SUBSET Legs : Book(p, legs, x)
  BY <1>3 DEF Book
<1>4. CASE GateStep
  BY <1>4 DEF GateStep, Die, ForceStop, Gates
<1>5. CASE \E i \in Ids, ev \in Events : SweepOne(i, ev)
  BY <1>5 DEF SweepOne
<1>6. CASE StartSweep \/ Drop \/ Connect
  BY <1>6 DEF StartSweep, Drop, Connect
<1>7. CASE \E i \in Ids : AskGap(i) \/ \E x \in BOOLEAN : EndPending(i, x)
  BY <1>7 DEF AskGap, EndPending
<1>8. CASE \E c \in BOOLEAN, ev \in Events : AnswerGap(c, ev)
  BY <1>8 DEF AnswerGap
<1>9. CASE TurnToPending \/ Unwind \/ Stream
  BY <1>9 DEF TurnToPending, Unwind, Stream
<1>10. CASE Crash
  BY <1>10 DEF Crash
<1> QED BY <1>1, <1>2, <1>3, <1>4, <1>5, <1>6, <1>7, <1>8, <1>9, <1>10, Zenon DEF Next, GapStep

LEMMA StepMatched == Whole /\ Matched /\ [Next]_vars => Matched'
<1> SUFFICES ASSUME Whole, Matched, [Next]_vars, NEW j \in Ids \ reloaded', ~ study'.dead
             PROVE  Money(j)'
  BY DEF Matched
<1>1. CASE Boot
  <2>1. Reloaded /\ Aborts /\ RowsOnlyState /\ reloaded' = reloaded \cup OpenRows
    BY <1>1, BootStep DEF Whole
  <2>2. j \notin OpenRows /\ j \notin reloaded
    BY <2>1
  <2>3. ~ study.dead
    BY <1>1 DEF Boot
  <2>4. mem'[j].state = "none"
    <3>1. mem'[j] = NoEpisode
      BY <2>1, <2>2, Zenon DEF Reloaded
    <3> QED BY <3>1 DEF NoEpisode
  <2>5. Money(j)
    BY <2>2, <2>3 DEF Matched
  <2>6. /\ rows'[j].cum = rows[j].cum /\ rows'[j].margin = rows[j].margin
        /\ rows'[j].state = "closed" => rows[j].state = "closed"
    BY <2>1 DEF Aborts, RowsOnlyState
  <2> QED BY <2>4, <2>5, <2>6 DEF Money, Active
<1>2. CASE ~ Boot
  <2>1. reloaded' = reloaded
    <3>1. CASE UNCHANGED vars
      BY <3>1 DEF vars
    <3> QED BY <1>2, <3>1, ReloadedSame
  <2>2. CASE Kind
    <3>1. ~ study.dead
      BY <2>2 DEF Kind, Calm
    <3>2. Money(j)
      BY <2>1, <3>1 DEF Matched
    <3> QED BY <2>2, <3>1, <3>2, KindMoney
  <2>3. CASE ForceStop
    BY <2>3 DEF ForceStop, Whole, OwedOK
  <2>4. CASE Crash
    <3>1. UNCHANGED study /\ mem'[j].state = "none"
      BY <2>4 DEF Crash, NoEpisode
    <3>2. Money(j)
      BY <2>1, <3>1 DEF Matched
    <3>3. rows'[j].cum = rows[j].cum /\ (rows'[j] = rows[j] \/ CutExit(j))
      BY <2>4, <3>1, CutRow DEF Whole, OwedOK
    <3> QED BY <3>1, <3>2, <3>3 DEF Money, Active, CutExit
  <2> QED BY <1>2, <2>2, <2>3, <2>4, StepKinds
<1> QED BY <1>1, <1>2

(* A row closed while the study lives holds the funding it accrued, unless its  *)
(* episode was read back after a restart.                                      *)
THEOREM FundingCounted == Spec => []PnlCountsFunding
<1>1. Init => Matched
  BY DEF Init, Matched, Money, NoRow, NoEpisode, Active
<1>2. Matched => PnlCountsFunding
  BY DEF Matched, Money, PnlCountsFunding, ClosedRows
<1> QED BY <1>1, <1>2, StepMatched, Always, PTL DEF Spec

-----------------------------------------------------------------------------
(* The kill criteria.                                                         *)

Judged ==
    "torn" \notin excuse =>
        /\ liquidated # {} \/ study.readout = "C" => study.dead \/ owed = "die"
        /\ RateFails /\ "threshold" \notin excuse => study.dead \/ owed \in {"gates", "die"}

LEMMA RatesSame == UNCHANGED stats => (RateFails' <=> RateFails)
BY DEF RateFails

\* A step that records nothing, and leaves no gate unchecked.
LEMMA SameJudged ==
    ASSUME Judged, UNCHANGED <<stats, liquidated, study, excuse>>,
           owed' = owed \/ owed = "nothing"
    PROVE  Judged'
<1>1. RateFails' <=> RateFails
  BY RatesSame
<1> QED BY <1>1 DEF Judged

\* A step that settles an episode, after which the gates are checked.
LEMMA GatedJudged ==
    ASSUME Judged, UNCHANGED <<liquidated, study, excuse>>, owed = "nothing", owed' = "gates"
    PROVE  Judged'
BY DEF Judged

LEMMA TickedJudged ==
    ASSUME Whole, Judged, NEW i \in Ids, Ticked(i), running, owed = "nothing",
           UNCHANGED <<stats, study, excuse>>
    PROVE  Judged'
<1>1. CASE Unmoved
  BY <1>1, SameJudged DEF Unmoved
<1>2. CASE Rebalanced(i)
  BY <1>2, SameJudged DEF Rebalanced
<1>3. CASE Struck(i) /\ owed' = "gates" /\ UNCHANGED liquidated
  BY <1>3, GatedJudged
<1>4. CASE owed' = IF dead THEN "nothing" ELSE "die"
  <2>1. study'.dead \/ owed' = "die"
    BY <1>4 DEF Whole, Alive
  <2> QED BY <2>1 DEF Judged
<1> QED BY <1>1, <1>2, <1>3, <1>4 DEF Ticked, Struck

LEMMA BookJudged ==
    ASSUME Whole, Judged, NEW p \in Pairs, NEW legs \in SUBSET Legs, NEW x \in BOOLEAN,
           Book(p, legs, x)
    PROVE  Judged'
<1> DEFINE i == pool[p]
<1>1. Booked(i)
  BY BookStep DEF Whole
<1>2. owed = "nothing" /\ UNCHANGED <<study, liquidated>>
  BY DEF Book, Free, Held
<1> HIDE DEF i
<1>3. CASE UNCHANGED <<stats, owed, excuse>>
  BY <1>2, <1>3, SameJudged
<1>4. CASE Opened(i)
  <2>1. excuse' = IF RateFails' THEN excuse \cup {"threshold"} ELSE excuse
    BY <1>4 DEF Opened
  <2>2. owed' = owed
    BY <1>4 DEF Opened
  <2>3. RateFails' => "threshold" \in excuse'
    BY <2>1
  <2>4. "torn" \notin excuse' => "torn" \notin excuse
    BY <2>1
  <2> HIDE DEF RateFails
  <2> QED BY <1>2, <2>2, <2>3, <2>4 DEF Judged
<1>5. CASE owed' = "gates" /\ UNCHANGED excuse
  BY <1>2, <1>5, GatedJudged
<1> QED BY <1>1, <1>3, <1>4, <1>5 DEF Booked, Filled

LEMMA GatesJudged ==
    ASSUME Whole, Judged, NEW x \in BOOLEAN, NEW v \in {"A", "C"}, Gates(x, v)
    PROVE  Judged'
<1>1. running /\ owed = "gates" /\ UNCHANGED <<stats, liquidated>>
  BY Runs DEF Gates, Whole
<1>2. dead = study.dead
  BY <1>1 DEF Whole, Alive
<1>3. excuse' = excuse \ {"threshold"}
  BY DEF Gates
<1>4. RateFails' <=> RateFails
  BY <1>1, RatesSame
<1>5. CASE dead
  <2>1. study' = study
    BY <1>5 DEF Gates
  <2> QED BY <1>2, <1>5, <2>1 DEF Judged
<1>6. CASE ~ dead /\ (RateFails \/ x)
  <2>1. owed' = "die"
    BY <1>6, Zenon DEF Gates
  <2> QED BY <2>1 DEF Judged
<1>7. CASE ~ dead /\ ~ RateFails
  <2>1. FinalReadout(v) \/ owed' = "die"
    BY <1>7, Zenon DEF Gates
  <2>2. CASE owed' = "die"
    BY <2>2 DEF Judged
  <2>3. CASE study' = [study EXCEPT !.readout = v]
             /\ owed' = (IF v = "C" THEN "die" ELSE "nothing")
    <3>1. study'.readout = v
      BY <2>3 DEF Whole, Types, StudyType
    <3>2. "torn" \notin excuse' => liquidated' = {}
      BY <1>1, <1>2, <1>3, <1>7 DEF Judged
    <3> HIDE DEF RateFails
    <3> QED BY <1>4, <1>7, <2>3, <3>1, <3>2 DEF Judged
  <2>4. CASE UNCHANGED study
    <3> HIDE DEF RateFails
    <3>1. "torn" \notin excuse' => "torn" \notin excuse
      BY <1>3
    <3> QED BY <1>1, <1>2, <1>4, <1>7, <2>4, <3>1 DEF Judged
  <2> QED BY <2>1, <2>2, <2>3, <2>4, Zenon DEF FinalReadout
<1> QED BY <1>5, <1>6, <1>7

LEMMA StepJudged == Whole /\ Judged /\ [Next]_vars => Judged'
<1> SUFFICES ASSUME Whole, Judged, [Next]_vars PROVE Judged'
  OBVIOUS
<1>1. CASE Publish \/ StartSweep \/ Drop \/ Connect \/ TurnToPending \/ Stream \/ UNCHANGED vars
           \/ \E i \in Ids : AskGap(i)
  <2>1. UNCHANGED <<stats, liquidated, study, excuse, owed>>
    BY <1>1 DEF Publish, StartSweep, Drop, Connect, TurnToPending, Stream, vars, AskGap,
                ledger, process
  <2> QED BY <2>1, SameJudged
<1>2. CASE \E p \in Pairs : MaybeEntry(p) \/ \E x \in BOOLEAN : Accrue(p, x)
  BY <1>2, SameJudged DEF MaybeEntry, Accrue
<1>3. CASE \E p \in Pairs, x \in BOOLEAN, legs \in SUBSET Legs : Book(p, legs, x)
  BY <1>3, BookJudged
<1>4. CASE Die
  <2>1. study'.dead = TRUE
    BY <1>4 DEF Die, Whole, Types, StudyType
  <2> QED BY <2>1 DEF Judged
<1>5. CASE ForceStop
  <2>1. study'.dead
    BY <1>5 DEF ForceStop, Whole, OwedOK
  <2> QED BY <2>1 DEF Judged
<1>6. CASE \E x \in BOOLEAN, v \in {"A", "C"} : Gates(x, v)
  BY <1>6, GatesJudged
<1>7. ASSUME NEW i \in Ids, NEW ev \in Events, SweepOne(i, ev) PROVE Judged'
  <2>1. Ticked(i) /\ running
    BY <1>7, SweepStep, Runs DEF SweepOne, Whole
  <2> QED BY <1>7, <2>1, TickedJudged DEF SweepOne
<1>8. ASSUME NEW i \in Ids, NEW x \in BOOLEAN, EndPending(i, x) PROVE Judged'
  <2>1. Waits(i) \/ owed' = "gates" \/ Unwinds(i)
    BY <1>8, EndPendingStep DEF Whole
  <2>2. owed = "nothing" /\ UNCHANGED <<study, liquidated, excuse>>
    BY <1>8 DEF EndPending
  <2>3. UNCHANGED stats \/ owed' = "gates"
    BY <1>8 DEF EndPending, Aborted
  <2> QED BY <2>1, <2>2, <2>3, SameJudged, GatedJudged DEF Waits, Unwinds
<1>9. ASSUME NEW c \in BOOLEAN, NEW ev \in Events, AnswerGap(c, ev) PROVE Judged'
  <2>1. gap.cur \in Ids /\ (Ticked(gap.cur) \/ UNCHANGED <<mem, pool, liquidated, owed>>)
    BY <1>9, AnswerGapStep DEF Whole
  <2>2. running /\ owed = "nothing" /\ UNCHANGED <<stats, study, excuse>>
    BY <1>9, Runs DEF AnswerGap, Held, Whole
  <2> QED BY <2>1, <2>2, TickedJudged, SameJudged
<1>10. CASE Unwind
  <2>1. owed' = "gates" /\ owed = "nothing" /\ UNCHANGED <<study, liquidated, excuse>>
    BY <1>10 DEF Unwind, Held, Aborted
  <2> QED BY <2>1, GatedJudged
<1>11. CASE Crash
  <2>1. UNCHANGED <<liquidated, study>> /\ owed' = "nothing"
    BY <1>11 DEF Crash
  <2>2. CASE owed = "nothing" /\ UNCHANGED <<stats, excuse>>
    BY <2>1, <2>2, SameJudged
  <2>3. CASE "torn" \in excuse'
    BY <2>3 DEF Judged
  <2>4. CASE ~ DeathDue'
    BY <2>4 DEF DeathDue, Judged
  <2> QED BY <1>11, <2>2, <2>3, <2>4, Zenon DEF Crash
<1>12. CASE Boot
  BY <1>12, SameJudged DEF Boot
<1> QED BY <1>1, <1>2, <1>3, <1>4, <1>5, <1>6, <1>7, <1>8, <1>9, <1>10, <1>11, <1>12, Zenon
        DEF Next, GapStep, GateStep

(* What the ledger holds against the study has killed it, save what a torn     *)
(* handler or a fill that reached the threshold excuses.                       *)
THEOREM CriteriaKill == Spec => []KillCriteria
<1>1. Init => Judged
  BY DEF Init, Judged, RateFails, Legs
<1>2. Judged => KillCriteria
  BY DEF Judged, KillCriteria, Quiet
<1> QED BY <1>1, <1>2, StepJudged, Always, PTL DEF Spec

-----------------------------------------------------------------------------
(* The replay of the gap.                                                     *)

InGap(i) == gap.at \in {"next", "asked"} /\ i \in gap.todo
Waiting(i) == gap.at = "asked" /\ i = gap.cur
Hidden == (In("open") \cap unseen) \ reloaded

\* An episode an outage hid was open, so its row is past the entry; before a book is
\* heard every open episode was read back; only the websocket loop's replay is between
\* two episodes; and while it is up each hidden episode is replayed or will be.
Entries == \A i \in unseen : rows[i].state \notin {"none", "pending_entry"}
Unheard == running /\ ~ heard => In("open") \subseteq reloaded
OnlyGap == ws # "gap" => gap.at = "none"
ToReplay ==
    running /\ ws # "down" => \A i \in Hidden : rows[i].flagged \/ InGap(i) \/ Waiting(i)
Gapped == Entries /\ Unheard /\ OnlyGap /\ ToReplay

\* What a step does to the rows and to the open episodes.
Ages ==
    \A i \in Ids : rows[i].state # "none" =>
        /\ rows[i].flagged => rows'[i].flagged
        /\ rows[i].state # "pending_entry" => rows'[i].state \notin {"none", "pending_entry"}
Opens == \A i \in In("open")' : i \in In("open") \/ (heard' /\ i \notin unseen)

LEMMA OpenRow ==
    ASSUME Whole, NEW i \in In("open")
    PROVE  i \in Ids /\ i \in LiveEpisodes /\ mem[i].state = "open" /\ rows[i].state = "open"
BY LiveRow DEF In, Active

LEMMA KindAges ==
    ASSUME Whole, Entries, Kind
    PROVE  Ages /\ Opens
<1>1. CASE Keeps
  <2>1. Ages
    BY <1>1 DEF Keeps, Ages
  <2>2. LiveEpisodes' = LiveEpisodes
    BY <1>1 DEF Keeps, LiveEpisodes
  <2>3. In("open")' = In("open")
    BY <1>1, <2>2, LiveIds DEF Keeps, In, Whole, Types
  <2> QED BY <2>1, <2>3 DEF Opens
<1>2. ASSUME NEW i \in Ids, Moves(i) PROVE Ages /\ Opens
  <2>1. rows[i].state = mem[i].state
    BY <1>2, LiveRow DEF Moves
  <2>2. Ages
    BY <1>2 DEF Moves, Others, Ages, Active
  <2>3. LiveEpisodes' = LiveEpisodes
    BY <1>2 DEF Moves, LiveEpisodes
  <2>4. ASSUME NEW j \in In("open")'
        PROVE  j \in In("open") \/ (heard' /\ j \notin unseen)
    <3>1. j \in LiveEpisodes /\ j \in Ids /\ mem'[j].state = "open"
      BY <2>3, LiveIds DEF In, Whole, Types
    <3>2. CASE j = i
      BY <1>2, <2>1, <3>1, <3>2 DEF Moves, In, Entries
    <3>3. CASE j # i
      BY <1>2, <3>1, <3>3 DEF Moves, Others, In
    <3> QED BY <3>2, <3>3
  <2> QED BY <2>2, <2>4 DEF Opens
<1>3. ASSUME NEW i \in Ids, Ends(i) PROVE Ages /\ Opens
  <2>1. Ages
    BY <1>3 DEF Ends, Others, Ages, Settled
  <2>2. ASSUME NEW q \in Pairs PROVE pool'[q] = pool[q] \/ pool'[q] = None
    BY <1>3 DEF Ends, Without, Whole, Types, PoolType
  <2>3. LiveEpisodes' \subseteq LiveEpisodes
    BY <2>2 DEF LiveEpisodes
  <2>4. ASSUME NEW j \in In("open")' PROVE j \in In("open")
    <3>1. j \in LiveEpisodes /\ j \in Ids /\ mem'[j].state = "open"
      BY <2>3, LiveIds DEF In, Whole, Types
    <3>2. j # i
      BY <1>3, <3>1 DEF Ends, Settled
    <3> QED BY <1>3, <3>1, <3>2 DEF Ends, Others, In
  <2> QED BY <2>1, <2>4 DEF Opens
<1>4. ASSUME NEW p \in Pairs, NEW i \in Ids, Enters(i, p) PROVE Ages /\ Opens
  <2>1. Ages
    BY <1>4 DEF Enters, Others, Ages
  <2>2. ASSUME NEW j \in In("open")' PROVE j \in In("open")
    <3>1. mem'[j].state = "open" /\ j # i
      BY <1>4 DEF In, Enters
    <3>2. j \in LiveEpisodes
      BY <1>4, <3>1 DEF In, LiveEpisodes, Enters, Whole, Types, PoolType
    <3> QED BY <1>4, <3>1, <3>2, LiveRow DEF Enters, Others, In
  <2> QED BY <2>1, <2>2 DEF Opens
<1>5. ASSUME NEW i \in Ids, Turns(i) PROVE Ages /\ Opens
  <2>1. Ages
    BY <1>5 DEF Turns, Others, Ages
  <2>2. LiveEpisodes' = LiveEpisodes
    BY <1>5 DEF Turns, LiveEpisodes
  <2>3. ASSUME NEW j \in In("open")' PROVE j \in In("open")
    <3>1. j \in LiveEpisodes /\ j \in Ids /\ mem'[j].state = "open"
      BY <2>2, LiveIds DEF In, Whole, Types
    <3>2. j # i
      BY <1>5, <3>1 DEF Turns
    <3> QED BY <1>5, <3>1, <3>2 DEF Turns, Others, In
  <2> QED BY <2>1, <2>3 DEF Opens
<1> QED BY <1>1, <1>2, <1>3, <1>4, <1>5 DEF Kind

LEMMA StepAges ==
    ASSUME Whole, Entries, [Next]_vars, ~ Boot
    PROVE  Ages /\ Opens
<1>1. CASE Kind
  BY <1>1, KindAges
<1>2. CASE ForceStop
  <2>1. /\ RowsOnlyState
        /\ \A i \in Ids : IF i \in LiveEpisodes THEN rows'[i].state = "closed"
                          ELSE rows'[i] = rows[i]
    BY <1>2, ForceStopStep DEF Whole
  <2>2. LiveEpisodes' = {}
    BY <1>2 DEF ForceStop, LiveEpisodes, NoPool
  <2> QED BY <2>1, <2>2 DEF Ages, Opens, In, RowsOnlyState
<1>3. CASE Crash
  <2>1. LiveEpisodes' = {}
    BY <1>3 DEF Crash, LiveEpisodes, NoPool
  <2>2. \A i \in Ids : rows'[i].flagged = rows[i].flagged
                      /\ (rows'[i] = rows[i] \/ rows'[i].state = "closed")
    BY <1>3, CutRow
  <2> QED BY <2>1, <2>2 DEF Ages, Opens, In
<1> QED BY <1>1, <1>2, <1>3, StepKinds

LEMMA EntriesKept ==
    ASSUME Whole, Entries, Ages, unseen' \subseteq unseen \cup In("open")
    PROVE  Entries'
<1> SUFFICES ASSUME NEW i \in unseen' PROVE rows'[i].state \notin {"none", "pending_entry"}
  BY DEF Entries
<1>1. i \in Ids /\ rows[i].state \notin {"none", "pending_entry"}
  BY OpenRow DEF Entries, Whole, Types, HistoryType
<1> QED BY <1>1 DEF Ages

\* A step after which no more is hidden, and what will be replayed is what was.
LEMMA HiddenKept ==
    ASSUME Whole, ToReplay, Ages, Opens, unseen' \subseteq unseen, reloaded' = reloaded,
           running, ws # "down",
           NEW i \in Hidden'
    PROVE  i \in Hidden /\ (rows'[i].flagged \/ InGap(i) \/ Waiting(i))
<1>1. i \in In("open") /\ i \in Hidden
  BY DEF Opens, Hidden
<1>2. i \in Ids /\ rows[i].state # "none"
  BY <1>1, OpenRow
<1> QED BY <1>1, <1>2 DEF ToReplay, Ages

\* The coroutines that are not the websocket loop.
LEMMA PlainGapped ==
    ASSUME Whole, Gapped, Ages, Opens,
           UNCHANGED <<gap, ws, unseen, reloaded, running>>, heard => heard'
    PROVE  Gapped'
<1>1. Entries'
  BY EntriesKept DEF Gapped
<1>2. Unheard'
  BY DEF Gapped, Unheard, Opens
<1>3. OnlyGap'
  BY DEF Gapped, OnlyGap
<1>4. ToReplay'
  <2> SUFFICES ASSUME running', ws' # "down", NEW i \in Hidden'
               PROVE  rows'[i].flagged \/ InGap(i)' \/ Waiting(i)'
    BY DEF ToReplay
  <2>1. rows'[i].flagged \/ InGap(i) \/ Waiting(i)
    BY HiddenKept DEF Gapped
  <2> QED BY <2>1 DEF InGap, Waiting
<1> QED BY <1>1, <1>2, <1>3, <1>4 DEF Gapped

\* The websocket loop, while it replays.
LEMMA ReplayGapped ==
    ASSUME Whole, Gapped, Ages, Opens, gap.at # "none", running,
           UNCHANGED <<running, heard, reloaded>>, unseen' \subseteq unseen,
           ws' = ws \/ gap'.at = "none",
           \A i \in Hidden' : rows'[i].flagged \/ InGap(i) \/ Waiting(i)
                              => rows'[i].flagged \/ InGap(i)' \/ Waiting(i)'
    PROVE  Gapped'
<1>1. Entries'
  BY EntriesKept DEF Gapped
<1>2. Unheard'
  BY DEF Gapped, Unheard, Opens
<1>3. ws = "gap"
  BY DEF Gapped, OnlyGap
<1>4. OnlyGap'
  BY <1>3 DEF OnlyGap
<1>5. ToReplay'
  BY <1>3, HiddenKept DEF ToReplay, Gapped
<1> QED BY <1>1, <1>2, <1>4, <1>5 DEF Gapped

LEMMA AskGapped ==
    ASSUME Whole, Gapped, Ages, Opens, NEW i \in Ids, AskGap(i)
    PROVE  Gapped'
<1>1. gap.at = "next" /\ gap' = [at |-> "asked", todo |-> gap.todo \ {i}, cur |-> i]
      /\ UNCHANGED <<running, heard, reloaded, unseen, ws>>
  BY DEF AskGap
<1>2. \A j \in Hidden' : rows'[j].flagged \/ InGap(j) \/ Waiting(j)
                         => rows'[j].flagged \/ InGap(j)' \/ Waiting(j)'
  BY <1>1 DEF InGap, Waiting
<1>3. running
  BY <1>1, Runs DEF Whole
<1> QED BY <1>1, <1>2, <1>3, ReplayGapped

LEMMA AnswerGapped ==
    ASSUME Whole, Gapped, Ages, Opens, NEW c \in BOOLEAN, NEW ev \in Events, AnswerGap(c, ev)
    PROVE  Gapped'
<1>1. gap.at = "asked" /\ gap' = [gap EXCEPT !.at = "next", !.cur = None]
      /\ UNCHANGED <<running, heard, reloaded, ws>>
      /\ unseen' = IF c THEN unseen \ {gap.cur} ELSE unseen
  BY DEF AnswerGap
<1>2. gap'.at = "next" /\ gap'.todo = gap.todo
  BY <1>1 DEF Whole, Types, GapType
<1>3. running
  BY <1>1, Runs DEF Whole
<1>4. ASSUME NEW j \in Hidden', Waiting(j) PROVE rows'[j].flagged
  <2>1. j = gap.cur /\ j \in unseen'
    BY <1>4 DEF Waiting, Hidden
  <2>2. ~ c
    BY <1>1, <2>1
  <2>3. gap.cur \in Ids /\ RowIs(gap.cur, [rows[gap.cur] EXCEPT !.flagged = TRUE])
    BY <2>2, AnswerGapStep DEF Whole
  <2>4. rows[gap.cur] \in Row
    BY <2>3 DEF Whole, Types, RowsType
  <2> QED BY <2>1, <2>3, <2>4 DEF RowIs, Row
<1>5. \A j \in Hidden' : rows'[j].flagged \/ InGap(j) \/ Waiting(j)
                         => rows'[j].flagged \/ InGap(j)' \/ Waiting(j)'
  BY <1>1, <1>2, <1>4 DEF InGap
<1>6. unseen' \subseteq unseen
  BY <1>1
<1> QED BY <1>1, <1>2, <1>3, <1>5, <1>6, ReplayGapped

LEMMA TurnGapped ==
    ASSUME Whole, Gapped, Ages, Opens, TurnToPending
    PROVE  Gapped'
<1>1. gap.at = "next" /\ UNCHANGED <<running, heard, reloaded, ws, unseen, mem>>
      /\ \A i \in gap.todo : mem[i].state # "open"
  BY DEF TurnToPending, ledger
<1>2. running
  BY <1>1, Runs DEF Whole
<1>3. ASSUME NEW j \in Hidden' PROVE ~ InGap(j) /\ ~ Waiting(j)
  <2>1. mem[j].state = "open"
    BY <1>1 DEF Hidden, In
  <2> QED BY <1>1, <2>1 DEF InGap, Waiting
<1> QED BY <1>1, <1>2, <1>3, ReplayGapped

LEMMA PendingGapped ==
    ASSUME Whole, Gapped, Ages, Opens,
           Unwind \/ Stream \/ \E i \in Ids, x \in BOOLEAN : EndPending(i, x)
    PROVE  Gapped'
<1>1. gap.at \in {"pending", "unwind"} /\ UNCHANGED <<running, heard, reloaded, unseen>>
  BY DEF Unwind, Stream, EndPending
<1>2. ws' = ws \/ gap'.at = "none"
  BY DEF Unwind, Stream, EndPending, NoGap
<1>3. running
  BY <1>1, Runs DEF Whole
<1>4. ASSUME NEW j PROVE ~ InGap(j) /\ ~ Waiting(j)
  BY <1>1 DEF InGap, Waiting
<1> QED BY <1>1, <1>2, <1>3, <1>4, ReplayGapped

LEMMA ConnectGapped ==
    ASSUME Whole, Gapped, Ages, Opens, Connect
    PROVE  Gapped'
<1>1. ws = "down" /\ UNCHANGED <<running, heard, reloaded, unseen, rows, pool, mem>> /\ running
  BY DEF Connect, Free, ledger
<1>2. IF heard
      THEN ws' = "gap" /\ gap' = [NoGap EXCEPT !.at = "next", !.todo = LiveEpisodes]
      ELSE ws' = "stream" /\ gap' = gap
  BY DEF Connect
<1>3. Entries' /\ Unheard'
  BY <1>1, EntriesKept DEF Gapped, Unheard, Opens
<1>4. OnlyGap'
  BY <1>1, <1>2 DEF Gapped, OnlyGap
<1>5. Hidden' = Hidden
  BY <1>1 DEF Hidden, In, LiveEpisodes
<1>6. ASSUME NEW j \in Hidden PROVE heard /\ j \in LiveEpisodes
  BY <1>1 DEF Hidden, In, Gapped, Unheard
<1>7. ToReplay'
  <2> SUFFICES ASSUME NEW j \in Hidden PROVE InGap(j)'
    BY <1>5 DEF ToReplay
  <2>1. heard /\ j \in LiveEpisodes
    BY <1>6
  <2>2. gap'.at = "next" /\ gap'.todo = LiveEpisodes
    BY <1>2, <2>1 DEF NoGap
  <2> QED BY <2>1, <2>2 DEF InGap
<1> QED BY <1>3, <1>4, <1>7 DEF Gapped

LEMMA BootGapped == Whole /\ Gapped /\ Boot => Gapped'
<1> SUFFICES ASSUME Whole, Gapped, Boot PROVE Gapped'
  OBVIOUS
<1>1. /\ Aborts
      /\ \A p \in Pairs : pool'[p] \in OpenRows \/ pool'[p] = None
      /\ unseen' = unseen \cup OpenRows /\ reloaded' = reloaded \cup OpenRows
  BY BootStep DEF Whole
<1>2. UNCHANGED <<ws, gap>> /\ ws = "down" /\ gap.at = "none"
  BY DEF Boot, Whole, Down
<1>3. Entries'
  <2> SUFFICES ASSUME NEW i \in unseen' PROVE rows'[i].state \notin {"none", "pending_entry"}
    BY DEF Entries
  <2>1. i \in Ids /\ rows[i].state \notin {"none", "pending_entry"}
    BY <1>1 DEF Gapped, Entries, OpenRows, Whole, Types, HistoryType
  <2> QED BY <1>1, <2>1 DEF Aborts
<1>4. Unheard'
  BY <1>1 DEF Unheard, In, LiveEpisodes
<1>5. OnlyGap' /\ ToReplay'
  BY <1>2 DEF OnlyGap, ToReplay
<1> QED BY <1>3, <1>4, <1>5 DEF Gapped

LEMMA StepGapped == Whole /\ Gapped /\ [Next]_vars => Gapped'
<1> SUFFICES ASSUME Whole, Gapped, [Next]_vars PROVE Gapped'
  OBVIOUS
<1>1. CASE Boot
  BY <1>1, BootGapped
<1> SUFFICES ASSUME ~ Boot PROVE Gapped'
  BY <1>1
<1>2. Ages /\ Opens
  BY StepAges DEF Gapped
<1>3. CASE Publish \/ StartSweep \/ GateStep \/ UNCHANGED vars
  <2>1. UNCHANGED <<gap, ws, unseen, reloaded, running, heard>>
    BY <1>3 DEF Publish, StartSweep, GateStep, Die, ForceStop, Gates, vars, process
  <2> QED BY <1>2, <2>1, PlainGapped
<1>4. CASE \E p \in Pairs : MaybeEntry(p) \/ \E x \in BOOLEAN : Accrue(p, x)
  <2>1. UNCHANGED <<gap, ws, unseen, reloaded, running, heard>>
    BY <1>4 DEF MaybeEntry, Accrue
  <2> QED BY <1>2, <2>1, PlainGapped
<1>5. CASE \E p \in Pairs, x \in BOOLEAN, legs \in SUBSET Legs : Book(p, legs, x)
  <2>1. UNCHANGED <<gap, ws, unseen, reloaded, running>> /\ heard' = TRUE
    BY <1>5 DEF Book
  <2> QED BY <1>2, <2>1, PlainGapped
<1>6. CASE \E i \in Ids, ev \in Events : SweepOne(i, ev)
  <2>1. UNCHANGED <<gap, ws, unseen, reloaded, running, heard>>
    BY <1>6 DEF SweepOne
  <2> QED BY <1>2, <2>1, PlainGapped
<1>7. CASE Drop
  <2>1. ws = "stream" /\ ws' = "down" /\ unseen' = unseen \cup In("open")
        /\ UNCHANGED <<gap, running, heard, reloaded>>
    BY <1>7 DEF Drop
  <2>2. Entries' /\ Unheard'
    BY <1>2, <2>1, EntriesKept DEF Gapped, Unheard, Opens
  <2> QED BY <2>1, <2>2 DEF Gapped, OnlyGap, ToReplay
<1>8. CASE Connect
  BY <1>2, <1>8, ConnectGapped
<1>9. CASE \E i \in Ids : AskGap(i)
  BY <1>2, <1>9, AskGapped
<1>10. CASE \E c \in BOOLEAN, ev \in Events : AnswerGap(c, ev)
  BY <1>2, <1>10, AnswerGapped
<1>11. CASE TurnToPending
  BY <1>2, <1>11, TurnGapped
<1>12. CASE Unwind \/ Stream \/ \E i \in Ids, x \in BOOLEAN : EndPending(i, x)
  BY <1>2, <1>12, PendingGapped
<1>13. CASE Crash
  <2>1. running' = FALSE /\ gap'.at = "none" /\ ws' = "down" /\ UNCHANGED unseen
    BY <1>13 DEF Crash, NoGap
  <2>2. Entries'
    BY <1>2, <2>1, EntriesKept DEF Gapped
  <2> QED BY <2>1, <2>2 DEF Gapped, Unheard, OnlyGap, ToReplay
<1> QED BY <1>3, <1>4, <1>5, <1>6, <1>7, <1>8, <1>9, <1>10, <1>11, <1>12, <1>13, Zenon
        DEF Next, GapStep

(* When books stream, every open episode that an outage hid was replayed or its *)
(* row says that it could not be, unless a restart read it back.               *)
THEOREM OutagesReplayed == Spec => []GapsReplayed
<1>1. Init => Gapped
  BY DEF Init, Gapped, Entries, Unheard, OnlyGap, ToReplay, In, LiveEpisodes, NoPool, NoGap
<1>2. Whole /\ Gapped => GapsReplayed
  <2> SUFFICES ASSUME Whole, Gapped, ws = "stream", NEW i \in (In("open") \cap unseen) \ reloaded
               PROVE  rows[i].flagged
    BY DEF GapsReplayed
  <2>1. running /\ gap.at = "none"
    BY Runs DEF Whole, Gapped, OnlyGap
  <2> QED BY <2>1 DEF Gapped, ToReplay, Hidden, InGap, Waiting
<1> QED BY <1>1, <1>2, StepGapped, Always, PTL DEF Spec
=============================================================================
