-------------------------- MODULE BorosShadow_proofs --------------------------
(***************************************************************************)
(* The books of the Boros spread shadow, for any assets, maturities, number   *)
(* of trades, length of time and number of faults.                            *)
(***************************************************************************)
EXTENDS BorosShadow, TLAPS, LeastElement, FiniteSetTheorems

-----------------------------------------------------------------------------
(* Types, and how trades and passes are numbered.                             *)

Busy == pass.at \in {"mark", "fate", "close", "settle"}

BooksType ==
    /\ Known \subseteq Ids /\ DOMAIN marks = Known /\ DOMAIN funding = Known
    /\ \A i \in Known : trades[i] \in Trade /\ marks[i] \in Mark /\ funding[i] \in Funding
Numbered == \E n \in Nat : Known = 1 .. n
PassesType ==
    /\ \E n \in Nat : DOMAIN passes = 1 .. n
    /\ \A n \in DOMAIN passes : passes[n] \in Nat
\* An hour is stamped when it has begun.
HoursType ==
    /\ hours \in [snapshot : Int, pass : Int]
    /\ hours.snapshot <= hours.pass /\ hours.snapshot <= Hour(now)
PassType ==
    /\ pass \in Pass /\ pass.todo \subseteq Known
    /\ Busy => pass.todo # {}
\* A pass that is no replay is of the current half hour.
LiveNow == pass.at # "idle" /\ ~ pass.replay => pass.time = now
Registers == pass.at = "register" => ~ pass.replay /\ pass.todo = {}
OtherTypes ==
    /\ running \in BOOLEAN /\ now \in Nat /\ left \in Nat
    /\ torn \subseteq Ids /\ late \subseteq Ids

Types ==
    /\ BooksType /\ Numbered /\ PassesType /\ HoursType /\ PassType /\ LiveNow /\ Registers
    /\ OtherTypes

LEMMA TypesImply == Types => TypeOK
BY DEF Types, TypeOK, BooksType, PassesType, HoursType, PassType, OtherTypes

LEMMA CurIs ==
    ASSUME Types, pass.todo # {}
    PROVE  Cur \in pass.todo /\ Cur \in Known /\ Cur \in Ids
<1>1. pass.todo \subseteq Known /\ Known \subseteq Ids
  BY DEF Types, PassType, BooksType
<1>4. pass.todo \in SUBSET Nat
  <2>1. Ids \subseteq Nat
    BY BoundsAssumption DEF Ids
  <2> QED BY <1>1, <2>1
<1>2. \E i \in pass.todo : \A j \in pass.todo : i <= j
  BY <1>4, Minimum
<1>3. Cur \in pass.todo
  BY <1>2, Zenon DEF Cur, Least
<1> QED BY <1>1, <1>3

LEMMA BusyCur ==
    ASSUME Types, Busy
    PROVE  Cur \in pass.todo /\ Cur \in Known /\ Cur \in Ids
BY CurIs DEF Types, PassType

LEMMA Halves ==
    /\ \A t \in Nat : Hour(t) \in Nat /\ Hour(t) <= Hour(t + 1)
    /\ \A t, d \in Nat : d # 0 => t \div d \in Nat
BY DEF Hour

(* Trades and passes are numbered from one, so that the next number is new.   *)
LEMMA NextTrade ==
    ASSUME Types
    PROVE  /\ Cardinality(Known) \in Nat
           /\ Known = 1 .. Cardinality(Known)
           /\ Cardinality(Known) + 1 \notin Known
           /\ Known \cup {Cardinality(Known) + 1} = 1 .. (Cardinality(Known) + 1)
<1>1. PICK n \in Nat : Known = 1 .. n
  BY DEF Types, Numbered
<1>2. Cardinality(1 .. n) = n
  BY FS_Interval
<1> QED BY <1>1, <1>2

LEMMA NextPass ==
    ASSUME Types
    PROVE  /\ Last \in Nat
           /\ DOMAIN passes = 1 .. Last
           /\ DOMAIN passes \cup {Last + 1} = 1 .. (Last + 1)
<1>1. PICK n \in Nat : DOMAIN passes = 1 .. n
  BY DEF Types, PassesType
<1>2. Cardinality(1 .. n) = n
  BY FS_Interval
<1> QED BY <1>1, <1>2 DEF Last

LEMMA Added ==
    ASSUME NEW f, NEW k, NEW v
    PROVE  /\ DOMAIN Add(f, k, v) = DOMAIN f \cup {k}
           /\ Add(f, k, v)[k] = v
           /\ \A x \in DOMAIN f : x # k => Add(f, k, v)[x] = f[x]
BY DEF Add

\* What stays keeps its type.
LEMMA TypesKept ==
    ASSUME Types
    PROVE  /\ UNCHANGED <<trades, marks, funding>> => BooksType' /\ Numbered'
           /\ UNCHANGED passes => PassesType'
           /\ UNCHANGED <<hours, now>> => HoursType'
           /\ UNCHANGED <<pass, trades>> => PassType'
           /\ UNCHANGED <<pass, now>> => LiveNow' /\ Registers'
           /\ UNCHANGED <<running, now, left, torn, late>> => OtherTypes'
<1>1. UNCHANGED <<trades, marks, funding>> => BooksType' /\ Numbered'
  BY Zenon DEF Types, BooksType, Numbered, Known
<1>2. UNCHANGED passes => PassesType'
  BY Zenon DEF Types, PassesType
<1>3. UNCHANGED <<hours, now>> => HoursType'
  BY Zenon DEF Types, HoursType, Hour
<1>4. UNCHANGED <<pass, trades>> => PassType'
  BY Zenon DEF Types, PassType, Busy, Known
<1>5. UNCHANGED <<pass, now>> => LiveNow' /\ Registers'
  BY Zenon DEF Types, LiveNow, Registers
<1>6. UNCHANGED <<running, now, left, torn, late>> => OtherTypes'
  BY Zenon DEF Types, OtherTypes
<1> QED BY <1>1, <1>2, <1>3, <1>4, <1>5, <1>6

\* The next step of the pass, or the next trade.
LEMMA Goto ==
    ASSUME Types, Busy, NEW step \in {"fate", "close", "settle"}, At(step), Known' = Known,
           UNCHANGED now
    PROVE  /\ PassType' /\ LiveNow' /\ Registers'
           /\ pass'.at = step /\ pass'.todo = pass.todo /\ pass'.no = pass.no
           /\ pass'.time = pass.time /\ pass'.replay = pass.replay /\ Cur' = Cur
<1>1. pass \in Pass /\ pass.todo \subseteq Known /\ pass.todo # {}
  BY DEF Types, PassType
<1>2. pass' = [pass EXCEPT !.at = step]
  BY DEF At
<1>3. /\ pass' \in Pass /\ pass'.at = step /\ pass'.todo = pass.todo /\ pass'.no = pass.no
      /\ pass'.time = pass.time /\ pass'.replay = pass.replay
  BY <1>1, <1>2 DEF Pass, Steps
<1>4. Cur' = Cur
  BY <1>3 DEF Cur
<1>5. PassType' /\ LiveNow' /\ Registers'
  BY <1>1, <1>3 DEF PassType, Busy, LiveNow, Registers, Types
<1> QED BY <1>3, <1>4, <1>5

LEMMA Gone ==
    ASSUME Types, Busy, Goes, Known' = Known, UNCHANGED now
    PROVE  /\ PassType' /\ LiveNow' /\ Registers'
           /\ pass'.at = "next" /\ pass'.todo = pass.todo \ {Cur} /\ pass'.no = pass.no
           /\ pass'.time = pass.time /\ pass'.replay = pass.replay
<1>1. pass \in Pass /\ pass.todo \subseteq Known
  BY DEF Types, PassType
<1>2. pass' = [pass EXCEPT !.at = "next", !.todo = pass.todo \ {Cur}, !.owes = 0]
  BY DEF Goes
<1> DEFINE rest == pass.todo \ {Cur}
<1>5. rest \in SUBSET Ids
  BY <1>1 DEF Pass
<1> HIDE DEF rest
<1>6. /\ pass' \in Pass /\ pass'.at = "next" /\ pass'.todo = rest
      /\ pass'.no = pass.no /\ pass'.time = pass.time /\ pass'.replay = pass.replay
  <2>1. pass' = [pass EXCEPT !.at = "next", !.todo = rest, !.owes = 0]
    BY <1>2 DEF rest
  <2> DEFINE r == [pass EXCEPT !.at = "next", !.todo = rest]
  <2>2. /\ r \in Pass /\ r.at = "next" /\ r.todo = rest /\ r.no = pass.no
        /\ r.time = pass.time /\ r.replay = pass.replay
    BY <1>1, <1>5 DEF Pass, Steps
  <2>3. pass' = [r EXCEPT !.owes = 0]
    BY <2>1, Zenon
  <2> HIDE DEF r
  <2> QED BY <2>2, <2>3 DEF Pass
<1>3. /\ pass' \in Pass /\ pass'.at = "next" /\ pass'.todo = pass.todo \ {Cur}
      /\ pass'.no = pass.no /\ pass'.time = pass.time /\ pass'.replay = pass.replay
  BY <1>6 DEF rest
<1>4. PassType' /\ LiveNow' /\ Registers'
  BY <1>1, <1>3 DEF PassType, Busy, LiveNow, Registers, Types
<1> QED BY <1>3, <1>4

LEMMA IdleTypes ==
    ASSUME Types, pass' = Idle, Known' = Known
    PROVE  PassType' /\ LiveNow' /\ Registers'
<1>1. Idle \in Pass
  BY DEF Idle, Pass, Steps
<1>2. Idle.at = "idle" /\ Idle.todo = {}
  BY DEF Idle
<1> QED BY <1>1, <1>2 DEF PassType, Busy, LiveNow, Registers

-----------------------------------------------------------------------------
(* Every step keeps the types.                                                *)

LEMMA TickTypes == Types /\ Tick => Types'
<1> SUFFICES ASSUME Types, Tick PROVE Types'
  OBVIOUS
<1>1. UNCHANGED <<trades, marks, funding, passes, hours, running, pass, torn, late, left>>
      /\ now' = now + 1 /\ pass.at = "idle"
  BY DEF Tick, ledger
<1>2. now \in Nat /\ Hour(now) <= Hour(now') /\ Hour(now) \in Nat /\ Hour(now') \in Nat
  <2>1. now \in Nat
    BY DEF Types, OtherTypes
  <2>3. now + 1 \in Nat
    BY <2>1
  <2>2. Hour(now) \in Nat /\ Hour(now) <= Hour(now + 1) /\ Hour(now + 1) \in Nat
    BY <2>1, <2>3, Halves, Zenon
  <2> QED BY <1>1, <2>1, <2>2
<1>3. HoursType'
  <2>1. hours.snapshot \in Int /\ hours.snapshot <= Hour(now)
    BY DEF Types, HoursType
  <2>2. Hour(now)' = Hour(now')
    BY DEF Hour
  <2> QED BY <1>1, <1>2, <2>1, <2>2 DEF Types, HoursType
<1>4. LiveNow' /\ Registers'
  BY <1>1 DEF LiveNow, Registers
<1>5. OtherTypes'
  BY <1>1, <1>2 DEF Types, OtherTypes
<1> QED BY <1>1, <1>3, <1>4, <1>5, TypesKept DEF Types

LEMMA StartPassEffect ==
    ASSUME Types, StartPass
    PROVE  /\ pass'.at = "register" /\ ~ pass'.replay /\ pass'.time = now /\ pass'.todo = {}
           /\ pass'.no \in DOMAIN passes' /\ passes'[pass'.no] = now
           /\ \/ pass'.no = Last + 1 /\ DOMAIN passes' = DOMAIN passes \cup {Last + 1}
              \/ /\ Wedged /\ pass'.no = Last /\ DOMAIN passes' = DOMAIN passes
                 /\ Last \in DOMAIN passes /\ passes[Last] = now
           /\ \A n \in DOMAIN passes : n # pass'.no => passes'[n] = passes[n]
           /\ Types'
<1> DEFINE again == Wedged /\ Last > 0 /\ passes[Last] = now
           no == IF again THEN Last ELSE Last + 1
<1>1. /\ passes' = Add(passes, no, now)
      /\ pass' = [Idle EXCEPT !.at = "register", !.no = no, !.time = now]
      /\ UNCHANGED <<trades, marks, funding, hours, running, now, torn, late, left>>
  BY DEF StartPass
<1>2. Last \in Nat /\ DOMAIN passes = 1 .. Last /\ DOMAIN passes \cup {Last + 1} = 1 .. (Last + 1)
  BY NextPass
<1>4. \/ no = Last + 1
      \/ no = Last /\ Wedged /\ Last \in DOMAIN passes /\ passes[Last] = now
  <2>1. again => Last \in 1 .. Last
    BY <1>2
  <2> QED BY <1>2, <2>1
<1>5. no \in Nat /\ now \in Nat
  BY <1>2, <1>4 DEF Types, OtherTypes
<1> HIDE DEF no, again
<1>6. /\ DOMAIN passes' = DOMAIN passes \cup {no} /\ passes'[no] = now
      /\ \A n \in DOMAIN passes : n # no => passes'[n] = passes[n]
  BY <1>1 DEF Add
<1>7. /\ pass' \in Pass /\ pass'.at = "register" /\ ~ pass'.replay /\ pass'.no = no
      /\ pass'.time = now /\ pass'.todo = {}
  <2> DEFINE r == [Idle EXCEPT !.at = "register", !.no = no]
  <2>1. Idle \in Pass /\ Idle.replay = FALSE /\ Idle.todo = {}
    BY DEF Idle, Pass, Steps
  <2>2. /\ r \in Pass /\ r.at = "register" /\ r.no = no /\ r.replay = FALSE
        /\ r.todo = {}
    BY <1>5, <2>1 DEF Pass, Steps
  <2>3. pass' = [r EXCEPT !.time = now]
    BY <1>1, Zenon
  <2> HIDE DEF r
  <2> QED BY <1>5, <2>2, <2>3 DEF Pass
<1>8. PassesType'
  <2>1. \E n \in Nat : DOMAIN passes' = 1 .. n
    <3>1. CASE no = Last + 1
      BY <1>2, <1>6, <3>1
    <3>2. CASE no = Last /\ Last \in DOMAIN passes
      BY <1>2, <1>6, <3>2
    <3> QED BY <1>4, <3>1, <3>2
  <2>2. \A n \in DOMAIN passes' : passes'[n] \in Nat
    BY <1>5, <1>6 DEF Types, PassesType
  <2> QED BY <2>1, <2>2 DEF PassesType
<1>9. PassType' /\ LiveNow' /\ Registers'
  BY <1>1, <1>7 DEF PassType, Busy, LiveNow, Registers, Known
<1>10. Types'
  BY <1>1, <1>8, <1>9, TypesKept DEF Types
<1> QED BY <1>4, <1>6, <1>7, <1>10

LEMMA RegisterEffect ==
    ASSUME Types, NEW a \in Assets, Register(a)
    PROVE  LET i == Cardinality(Known) + 1 IN
           /\ i \in Ids /\ i \notin Known /\ Known' = Known \cup {i}
           /\ trades'[i].entry = now /\ trades'[i].state = "open"
           /\ trades'[i].asset = a /\ now < Maturity[a]
           /\ marks'[i].pass = 0 /\ marks'[i].at = now /\ marks'[i].floating = 0
           /\ marks'[i].dead = FALSE
           /\ funding'[i].cash = 0 /\ funding'[i].at = {}
           /\ \A j \in Known : trades'[j] = trades[j] /\ marks'[j] = marks[j]
                               /\ funding'[j] = funding[j]
           /\ Types'
<1> DEFINE i == Cardinality(Known) + 1
           t == [asset |-> a, entry |-> pass.time, pass |-> pass.no, state |-> "open",
                 closed |-> FALSE]
           m == [pass |-> 0, at |-> pass.time, floating |-> 0, dead |-> FALSE, mid |-> FALSE]
           f == [cash |-> 0, cursor |-> pass.time, at |-> {}]
<1>1. /\ pass.at = "register" /\ i \in Ids /\ pass.time < Maturity[a]
      /\ trades' = Add(trades, i, t) /\ marks' = Add(marks, i, m)
      /\ funding' = Add(funding, i, f)
      /\ UNCHANGED <<passes, hours, running, pass, now, torn, late, left>>
  BY DEF Register
<1>2. i \notin Known /\ Known \cup {i} = 1 .. i /\ i \in Nat
  BY NextTrade
<1>3. pass.time = now /\ now \in Nat /\ pass.no \in Nat
  BY <1>1 DEF Types, LiveNow, Registers, OtherTypes, PassType, Pass
<1>4. t \in Trade /\ m \in Mark /\ f \in Funding
  BY <1>3 DEF Trade, Mark, Funding
<1>5. /\ t.asset = a /\ t.entry = now /\ t.state = "open"
      /\ m.pass = 0 /\ m.at = now /\ m.floating = 0 /\ m.dead = FALSE /\ f.cash = 0 /\ f.at = {}
  BY <1>3
<1> HIDE DEF i, t, m, f
<1>6. DOMAIN marks = Known /\ DOMAIN funding = Known /\ DOMAIN trades = Known
  BY DEF Types, BooksType, Known
<1>7. /\ DOMAIN trades' = Known \cup {i} /\ trades'[i] = t
      /\ \A j \in Known : trades'[j] = trades[j]
  BY <1>1, <1>2, <1>6 DEF Add
<1>8. /\ DOMAIN marks' = Known \cup {i} /\ marks'[i] = m
      /\ \A j \in Known : marks'[j] = marks[j]
  BY <1>1, <1>2, <1>6 DEF Add
<1>9. /\ DOMAIN funding' = Known \cup {i} /\ funding'[i] = f
      /\ \A j \in Known : funding'[j] = funding[j]
  BY <1>1, <1>2, <1>6 DEF Add
<1>10. Known' = Known \cup {i}
  BY <1>7 DEF Known
<1>11. BooksType'
  BY <1>1, <1>4, <1>7, <1>8, <1>9, <1>10 DEF Types, BooksType
<1>12. Numbered'
  BY <1>2, <1>10 DEF Numbered
<1>13. PassType'
  BY <1>1, <1>10 DEF Types, PassType, Busy
<1>14. Types'
  BY <1>1, <1>11, <1>12, <1>13, TypesKept DEF Types
<1> QED BY <1>1, <1>2, <1>3, <1>5, <1>7, <1>8, <1>9, <1>10, <1>14 DEF i

LEMMA RegisteredTypes == Types /\ Registered => Types'
<1> SUFFICES ASSUME Types, Registered PROVE Types'
  OBVIOUS
<1>1. UNCHANGED <<trades, marks, funding, passes, hours, running, now, torn, late, left>>
      /\ pass' = [pass EXCEPT !.at = "next", !.todo = Open]
  BY DEF Registered, ledger
<1>2. Open \subseteq Known /\ Known \subseteq Ids /\ Known' = Known /\ pass \in Pass
  BY <1>1 DEF Open, Types, BooksType, PassType, Known
<1>3. pass' \in Pass /\ pass'.at = "next" /\ pass'.todo = Open /\ pass'.time = pass.time
      /\ pass'.replay = pass.replay
  BY <1>1, <1>2 DEF Pass, Steps
<1>4. PassType' /\ LiveNow' /\ Registers'
  <2>1. pass.at # "idle"
    BY DEF Registered
  <2> QED BY <1>1, <1>2, <1>3, <2>1 DEF Types, PassType, Busy, LiveNow, Registers
<1> QED BY <1>1, <1>4, TypesKept DEF Types

LEMMA FundEffect ==
    ASSUME Types, NEW paid \in BOOLEAN, NEW floats \in BOOLEAN, Fund(paid, floats)
    PROVE  LET i == Cur
               f == funding[i]
               sampled == trades[i].asset \in Sampled
               since == pass.time - marks[i].at
               cash == IF sampled THEN since ELSE pass.time - f.cursor
           IN
           /\ i \in pass.todo /\ i \in Known /\ i \in Ids /\ since \in Int /\ cash \in Int
           /\ pass.at = "next" /\ pass'.at = "mark"
           /\ pass'.owes = IF floats THEN since ELSE IF paid THEN cash ELSE 0
           /\ pass'.todo = pass.todo /\ pass'.no = pass.no /\ pass'.time = pass.time
           /\ pass'.replay = pass.replay /\ Cur' = Cur
           /\ \A j \in Known : j # i => funding'[j] = funding[j]
           /\ paid /\ ~ sampled => funding'[i].cash = f.cash + cash /\ funding'[i].at = f.at
           /\ (paid /\ sampled) \/ (floats /\ ~ paid)
              => \/ /\ funding'[i].cash = f.cash + since
                    /\ funding'[i].at \subseteq f.at \cup {pass.time}
                 \/ pass.time \in f.at /\ funding'[i] = f
           /\ ~ paid /\ ~ floats => funding'[i] = f
           /\ late \subseteq late' /\ (paid /\ floats /\ cash # since => i \in late')
           /\ UNCHANGED <<trades, marks, passes, hours, running, now, torn, left>>
           /\ Types'
<1> DEFINE i == Cur
           f == funding[i]
           sampled == trades[i].asset \in Sampled
           since == pass.time - marks[i].at
           cash == IF sampled THEN since ELSE pass.time - f.cursor
           paidRow == [f EXCEPT !.cash = f.cash + cash, !.cursor = pass.time]
           stored == [cash |-> f.cash + since, cursor |-> pass.time,
                      at |-> {t \in f.at : t > marks[i].at} \cup {pass.time}]
           row == IF paid /\ ~ sampled THEN paidRow
                  ELSE IF (paid \/ Proxied(paid, floats)) /\ pass.time \notin f.at THEN stored
                  ELSE f
           owes == IF floats THEN since ELSE IF paid THEN cash ELSE 0
<1>1. /\ pass.at = "next" /\ pass.todo # {}
      /\ funding' = [funding EXCEPT ![i] = row]
      /\ pass' = [pass EXCEPT !.at = "mark", !.owes = owes]
      /\ late' = IF paid /\ floats /\ cash # since THEN late \cup {i} ELSE late
      /\ UNCHANGED <<trades, marks, passes, hours, running, now, torn, left>>
  BY Zenon DEF Fund
<1>2. i \in pass.todo /\ i \in Known /\ i \in Ids
  BY <1>1, CurIs
<1>3. f \in Funding /\ marks[i] \in Mark /\ DOMAIN funding = Known /\ pass \in Pass
  BY <1>2 DEF Types, BooksType, PassType
<1>4. pass.time \in Nat /\ marks[i].at \in Nat /\ f.cash \in Int /\ f.cursor \in Nat
      /\ f.at \in SUBSET Nat
  BY <1>3 DEF Pass, Mark, Funding
<1> HIDE DEF i, f
<1>5. since \in Int /\ cash \in Int
  BY <1>4
<1> HIDE DEF since, cash
<1>6. /\ paidRow \in Funding /\ paidRow.cash = f.cash + cash /\ paidRow.at = f.at
  <2> DEFINE total == f.cash + cash
             c == pass.time
             r == [f EXCEPT !.cash = total]
  <2>1. total \in Int /\ c \in Nat
    BY <1>4, <1>5
  <2> HIDE DEF total, c
  <2>2. r \in Funding /\ r.cash = total /\ r.at = f.at
    BY <1>3, <2>1 DEF Funding
  <2>3. paidRow = [r EXCEPT !.cursor = c]
    BY Zenon DEF total, c
  <2> HIDE DEF r, paidRow
  <2>4. paidRow \in Funding /\ paidRow.cash = total /\ paidRow.at = f.at
    BY <2>1, <2>2, <2>3 DEF Funding
  <2> QED BY <2>4 DEF total
<1>7. /\ stored \in Funding /\ stored.cash = f.cash + since
      /\ stored.at \subseteq f.at \cup {pass.time}
  BY <1>4, <1>5 DEF Funding
<1> HIDE DEF sampled, paidRow, stored
<1>8. /\ row \in Funding
      /\ paid /\ ~ sampled => row.cash = f.cash + cash /\ row.at = f.at
      /\ (paid /\ sampled) \/ (floats /\ ~ paid)
          => \/ row.cash = f.cash + since /\ row.at \subseteq f.at \cup {pass.time}
             \/ pass.time \in f.at /\ row = f
      /\ ~ paid /\ ~ floats => row = f
  <2>1. CASE paid /\ ~ sampled
    BY <1>6, <2>1, Zenon
  <2>2. CASE ~ (paid /\ ~ sampled) /\ (paid \/ Proxied(paid, floats)) /\ pass.time \notin f.at
    <3>1. row = stored
      BY <2>2
    <3>2. paid \/ floats
      BY <2>2 DEF Proxied
    <3>3. ~ (paid /\ ~ sampled)
      BY <2>2
    <3> QED BY <1>7, <3>1, <3>2, <3>3, Zenon
  <2>3. CASE ~ (paid /\ ~ sampled) /\ ~ ((paid \/ Proxied(paid, floats)) /\ pass.time \notin f.at)
    <3>1. row = f
      BY <2>3, Zenon
    <3>2. (paid /\ sampled) \/ (floats /\ ~ paid) => pass.time \in f.at
      BY <2>3 DEF Proxied
    <3>3. ~ (paid /\ ~ sampled)
      BY <2>3
    <3> QED BY <1>3, <3>1, <3>2, <3>3, Zenon
  <2> QED BY <2>1, <2>2, <2>3
<1>9. owes \in Int
  BY <1>5
<1> HIDE DEF row, owes
<1>10. /\ pass' \in Pass /\ pass'.at = "mark" /\ pass'.owes = owes /\ pass'.todo = pass.todo
       /\ pass'.no = pass.no /\ pass'.time = pass.time /\ pass'.replay = pass.replay
  BY <1>1, <1>3, <1>9 DEF Pass, Steps
<1>11. Cur' = Cur
  BY <1>10 DEF Cur
<1>12. /\ DOMAIN funding' = Known /\ funding'[i] = row
       /\ \A j \in Known : j # i => funding'[j] = funding[j]
  BY <1>1, <1>2, <1>3
<1>13. Known' = Known /\ Known \subseteq Ids
  BY <1>1, Zenon DEF Known, Types, BooksType
<1>14. BooksType' /\ Numbered'
  BY <1>1, <1>8, <1>12, <1>13 DEF Types, BooksType, Numbered
<1>15. PassType' /\ LiveNow' /\ Registers'
  BY <1>1, <1>10, <1>13 DEF Types, PassType, Busy, LiveNow, Registers
<1>16. /\ late \subseteq late' /\ late' \subseteq Ids
       /\ (paid /\ floats /\ cash # since => i \in late')
  BY <1>1, <1>2 DEF Types, OtherTypes
<1>17. OtherTypes'
  BY <1>1, <1>16 DEF Types, OtherTypes
<1>18. Types'
  BY <1>1, <1>14, <1>15, <1>17, TypesKept DEF Types
<1> QED BY <1>1, <1>2, <1>5, <1>8, <1>10, <1>11, <1>12, <1>16, <1>18, Zenon
        DEF i, f, sampled, since, cash, owes

LEMMA MarkEffect ==
    ASSUME Types, NEW dead \in BOOLEAN, NEW booked \in BOOLEAN, MarkTrade(dead, booked)
    PROVE  /\ pass.at = "mark" /\ pass'.at = "fate" /\ pass'.todo = pass.todo
           /\ pass'.no = pass.no /\ pass'.time = pass.time /\ pass'.replay = pass.replay
           /\ Cur' = Cur /\ Cur \in pass.todo /\ Cur \in Known
           /\ marks'[Cur].pass = pass.no /\ marks'[Cur].at = pass.time
           /\ marks'[Cur].floating = marks[Cur].floating - pass.owes
           /\ \A j \in Known : j # Cur => marks'[j] = marks[j]
           /\ UNCHANGED <<trades, funding, passes, hours, running, now, torn, late, left>>
           /\ Types'
<1> DEFINE i == Cur
           m == [pass |-> pass.no, at |-> pass.time, floating |-> marks[i].floating - pass.owes,
                 dead |-> dead, mid |-> marks[i].mid \/ booked]
<1>1. /\ pass.at = "mark" /\ marks' = [marks EXCEPT ![i] = m] /\ At("fate")
      /\ UNCHANGED <<trades, funding, passes, hours, running, now, torn, late, left>>
  BY DEF MarkTrade
<1>2. i \in pass.todo /\ i \in Known
  BY <1>1, BusyCur DEF Busy
<1>3. marks[i] \in Mark /\ pass \in Pass /\ DOMAIN marks = Known
  BY <1>2 DEF Types, BooksType, PassType
<1>4. m \in Mark /\ m.pass = pass.no /\ m.at = pass.time
      /\ m.floating = marks[i].floating - pass.owes
  BY <1>3 DEF Mark, Pass
<1> HIDE DEF m, i
<1>5. DOMAIN marks' = Known /\ marks'[i] = m /\ \A j \in Known : j # i => marks'[j] = marks[j]
  BY <1>1, <1>2, <1>3
<1>6. Known' = Known
  BY <1>1, Zenon DEF Known
<1>7. BooksType' /\ Numbered'
  BY <1>1, <1>4, <1>5, <1>6 DEF Types, BooksType, Numbered
<1>8. Busy
  BY <1>1 DEF Busy
<1>9. /\ PassType' /\ LiveNow' /\ Registers'
      /\ pass'.at = "fate" /\ pass'.todo = pass.todo /\ pass'.no = pass.no
      /\ pass'.time = pass.time /\ pass'.replay = pass.replay /\ Cur' = Cur
  BY <1>1, <1>6, <1>8, Goto
<1>10. Types'
  BY <1>1, <1>7, <1>9, TypesKept DEF Types
<1> QED BY <1>1, <1>2, <1>4, <1>5, <1>9, <1>10 DEF i

\* The trade of the moment is closed next, or done.
LEMMA FateEffect ==
    ASSUME Types, NEW delisted \in BOOLEAN, NEW priced \in BOOLEAN, Fate(delisted, priced)
    PROVE  /\ pass.at = "fate" /\ pass'.no = pass.no /\ pass'.time = pass.time
           /\ pass'.replay = pass.replay /\ Cur \in pass.todo /\ Cur \in Known
           /\ \/ pass'.at = "close" /\ pass'.todo = pass.todo /\ Cur' = Cur
              \/ /\ pass'.at = "next" /\ pass'.todo = pass.todo \ {Cur}
                 /\ ~ marks[Cur].dead
                 /\ ~ (/\ marks[Cur].mid /\ InWindow(pass.time)
                       /\ pass.time > Maturity[trades[Cur].asset] + Fallback)
           /\ UNCHANGED <<ledger, running, now, torn, late, left>>
           /\ Types'
<1> DEFINE spared == /\ ~ marks[Cur].dead
                     /\ ~ (/\ marks[Cur].mid /\ InWindow(pass.time)
                           /\ pass.time > Maturity[trades[Cur].asset] + Fallback)
<1>a. pass.at = "fate" /\ UNCHANGED <<ledger, running, now, torn, late, left>>
      /\ IF Closes(delisted, priced) THEN At("close") ELSE Goes
  BY DEF Fate
<1>b. pass.time \in Nat /\ Maturity[trades[Cur].asset] \in Nat
  <2>1. Busy
    BY <1>a DEF Busy
  <2>2. trades[Cur].asset \in Assets
    BY <2>1, BusyCur DEF Types, BooksType, Trade
  <2>3. pass.time \in Nat
    BY DEF Types, PassType, Pass
  <2> QED BY <2>2, <2>3, MarketsAssumption
<1>c. ~ Closes(delisted, priced) => spared
  BY <1>b, BoundsAssumption DEF Closes
<1>1. pass.at = "fate" /\ UNCHANGED <<ledger, running, now, torn, late, left>>
      /\ (At("close") \/ (Goes /\ spared))
  BY <1>a, <1>c, Zenon
<1> HIDE DEF spared
<1>2. Busy /\ Known' = Known /\ UNCHANGED now
  BY <1>1, Zenon DEF Busy, Known, ledger
<1>3. Cur \in pass.todo /\ Cur \in Known
  BY <1>2, BusyCur
<1>4. /\ PassType' /\ LiveNow' /\ Registers'
      /\ pass'.no = pass.no /\ pass'.time = pass.time /\ pass'.replay = pass.replay
      /\ \/ pass'.at = "close" /\ pass'.todo = pass.todo /\ Cur' = Cur
         \/ pass'.at = "next" /\ pass'.todo = pass.todo \ {Cur} /\ spared
  <2>1. CASE At("close")
    BY <1>2, <2>1, Goto
  <2>2. CASE Goes /\ spared
    BY <1>2, <2>2, Gone
  <2> QED BY <1>1, <2>1, <2>2
<1>5. Types'
  BY <1>1, <1>4, TypesKept DEF Types, ledger
<1> QED BY <1>1, <1>3, <1>4, <1>5 DEF spared

LEMMA CloseEffect ==
    ASSUME Types, Close
    PROVE  /\ pass.at = "close" /\ pass'.at = "settle" /\ pass'.todo = pass.todo
           /\ pass'.no = pass.no /\ pass'.time = pass.time /\ pass'.replay = pass.replay
           /\ Cur' = Cur /\ Cur \in pass.todo /\ Cur \in Known
           /\ trades[Cur].closed = FALSE
           /\ \A j \in Known : trades'[j].state = trades[j].state
                               /\ trades'[j].entry = trades[j].entry
                               /\ trades'[j].asset = trades[j].asset
           /\ \A j \in Known : j # Cur => trades'[j] = trades[j]
           /\ Known' = Known /\ Open' = Open
           /\ UNCHANGED <<marks, funding, passes, hours, running, now, torn, late, left>>
           /\ Types'
<1> DEFINE i == Cur
           t == [trades[i] EXCEPT !.closed = TRUE]
<1>1. /\ pass.at = "close" /\ ~ trades[i].closed /\ At("settle")
      /\ trades' = [trades EXCEPT ![i].closed = TRUE]
      /\ UNCHANGED <<marks, funding, passes, hours, running, now, torn, late, left>>
  BY DEF Close
<1>2. Busy
  BY <1>1 DEF Busy
<1>3. i \in pass.todo /\ i \in Known
  BY <1>2, BusyCur
<1>4. trades[i] \in Trade /\ DOMAIN trades = Known
  BY <1>3 DEF Types, BooksType, Known
<1>5. t \in Trade /\ t.state = trades[i].state /\ t.entry = trades[i].entry
      /\ t.asset = trades[i].asset /\ trades[i].closed = FALSE
  BY <1>1, <1>4 DEF Trade
<1>6. trades' = [trades EXCEPT ![i] = t]
  BY <1>1, Zenon
<1> HIDE DEF t, i
<1>7. DOMAIN trades' = Known /\ trades'[i] = t /\ \A j \in Known : j # i => trades'[j] = trades[j]
  BY <1>3, <1>4, <1>6
<1>8. Known' = Known
  BY <1>7 DEF Known
<1>9. \A j \in Known : /\ trades'[j].state = trades[j].state
                       /\ trades'[j].entry = trades[j].entry
                       /\ trades'[j].asset = trades[j].asset
  BY <1>5, <1>7
<1>10. Open' = Open
  BY <1>8, <1>9 DEF Open
<1>11. BooksType' /\ Numbered'
  BY <1>1, <1>5, <1>7, <1>8 DEF Types, BooksType, Numbered
<1>12. /\ PassType' /\ LiveNow' /\ Registers'
       /\ pass'.at = "settle" /\ pass'.todo = pass.todo /\ pass'.no = pass.no
       /\ pass'.time = pass.time /\ pass'.replay = pass.replay /\ Cur' = Cur
  BY <1>1, <1>2, <1>8, Goto
<1>13. Types'
  BY <1>1, <1>11, <1>12, TypesKept DEF Types
<1> QED BY <1>1, <1>3, <1>5, <1>7, <1>8, <1>9, <1>10, <1>12, <1>13 DEF i

LEMMA SettleEffect ==
    ASSUME Types, Settle
    PROVE  /\ pass.at = "settle" /\ pass'.at = "next" /\ pass'.todo = pass.todo \ {Cur}
           /\ pass'.no = pass.no /\ pass'.time = pass.time /\ pass'.replay = pass.replay
           /\ Cur \in pass.todo /\ Cur \in Known
           /\ trades'[Cur].state # "open"
           /\ trades'[Cur].entry = trades[Cur].entry
           /\ \A j \in Known : j # Cur => trades'[j] = trades[j]
           /\ Known' = Known /\ Open' = Open \ {Cur}
           /\ UNCHANGED <<marks, funding, passes, hours, running, now, torn, late, left>>
           /\ Types'
<1> DEFINE i == Cur
           s == IF marks[i].dead THEN "liquidated" ELSE "closed"
           t == [trades[i] EXCEPT !.state = s]
<1>1. /\ pass.at = "settle" /\ Goes
      /\ trades' = [trades EXCEPT ![i].state = s]
      /\ UNCHANGED <<marks, funding, passes, hours, running, now, torn, late, left>>
  BY DEF Settle
<1>2. Busy
  BY <1>1 DEF Busy
<1>3. i \in pass.todo /\ i \in Known
  BY <1>2, BusyCur
<1>4. trades[i] \in Trade /\ DOMAIN trades = Known
  BY <1>3 DEF Types, BooksType, Known
<1>5. s \in {"closed", "liquidated"}
  OBVIOUS
<1>6. trades' = [trades EXCEPT ![i] = t]
  BY <1>1, Zenon
<1> HIDE DEF s, i
<1>7. t \in Trade /\ t.state # "open" /\ t.entry = trades[i].entry
  BY <1>4, <1>5 DEF Trade
<1> HIDE DEF t
<1>8. DOMAIN trades' = Known /\ trades'[i] = t /\ \A j \in Known : j # i => trades'[j] = trades[j]
  BY <1>3, <1>4, <1>6
<1>9. Known' = Known
  BY <1>8 DEF Known
<1>10. Open' = Open \ {i}
  BY <1>7, <1>8, <1>9 DEF Open
<1>11. BooksType' /\ Numbered'
  BY <1>1, <1>7, <1>8, <1>9 DEF Types, BooksType, Numbered
<1>12. /\ PassType' /\ LiveNow' /\ Registers'
       /\ pass'.at = "next" /\ pass'.todo = pass.todo \ {Cur} /\ pass'.no = pass.no
       /\ pass'.time = pass.time /\ pass'.replay = pass.replay
  BY <1>1, <1>2, <1>9, Gone
<1>13. Types'
  BY <1>1, <1>11, <1>12, TypesKept DEF Types
<1> QED BY <1>1, <1>3, <1>7, <1>8, <1>9, <1>10, <1>12, <1>13 DEF i

LEMMA EndPassTypes == Types /\ EndPass => Types'
<1> SUFFICES ASSUME Types, EndPass PROVE Types'
  OBVIOUS
<1>1. /\ pass.at = "next" /\ ~ pass.replay /\ hours' = Stamp /\ pass' = Idle
      /\ UNCHANGED <<trades, marks, funding, passes, running, now, torn, late, left>>
  BY DEF EndPass
<1>2. pass.time = now /\ now \in Nat
  BY <1>1 DEF Types, LiveNow, OtherTypes
<1>3. Hour(now) \in Nat
  BY <1>2, Halves
<1>4. hours \in [snapshot : Int, pass : Int] /\ hours.snapshot <= Hour(now)
  BY DEF Types, HoursType
<1>5. HoursType'
  <2> DEFINE s == IF InWindow(pass.time) THEN Hour(now) ELSE hours.snapshot
             p == Hour(now)
  <2>1. s \in Int /\ p \in Int /\ s <= p
    BY <1>3, <1>4
  <2>2. hours' = [snapshot |-> s, pass |-> p]
    BY <1>1, <1>2, Zenon DEF Stamp
  <2>3. Hour(now)' = p
    BY <1>1 DEF Hour
  <2> HIDE DEF s, p
  <2> QED BY <2>1, <2>2, <2>3 DEF HoursType
<1>6. Known' = Known
  BY <1>1, Zenon DEF Known
<1>7. PassType' /\ LiveNow' /\ Registers'
  BY <1>1, <1>6, IdleTypes
<1> QED BY <1>1, <1>5, <1>7, TypesKept DEF Types

LEMMA HalfStampTypes ==
    ASSUME Types, HalfStamped, UNCHANGED now
    PROVE  HoursType'
<1>1. pass.time = now /\ now \in Nat /\ hours' = [hours EXCEPT !.pass = Hour(pass.time)]
  BY DEF HalfStamped, Types, LiveNow, OtherTypes
<1>2. Hour(now) \in Nat /\ Hour(now)' = Hour(now)
  BY <1>1, Halves DEF Hour
<1>3. hours \in [snapshot : Int, pass : Int] /\ hours.snapshot <= Hour(now)
  BY DEF Types, HoursType
<1> DEFINE p == Hour(now)
<1>4. hours' = [hours EXCEPT !.pass = p] /\ p \in Nat /\ hours.snapshot <= p /\ Hour(now)' = p
  BY <1>1, <1>2, <1>3
<1> HIDE DEF p
<1> QED BY <1>3, <1>4 DEF HoursType

\* A pass ends early: its trade, if any, is torn.
Ends ==
    /\ pass' = Idle /\ torn' = torn \cup InTrade
    /\ UNCHANGED <<trades, marks, funding, passes, now, late>> /\ HoursType'
    /\ running' \in BOOLEAN /\ left' \in Nat

LEMMA EndsStep == Types /\ (Fail \/ Refused \/ Crash) => Ends
<1> SUFFICES ASSUME Types, Fail \/ Refused \/ Crash PROVE Ends
  OBVIOUS
<1>1. left \in Nat /\ pass.replay \in BOOLEAN
  BY DEF Types, OtherTypes, PassType, Pass
<1>2. left' \in Nat
  <2>1. CASE Fail
    BY <1>1, <2>1 DEF Fail
  <2>2. CASE Refused
    BY <1>1, <2>2 DEF Refused
  <2>3. CASE Crash
    BY <1>1, <2>3 DEF Crash
  <2> QED BY <2>1, <2>2, <2>3
<1>3. running' \in BOOLEAN
  BY <1>1 DEF Fail, Refused, Crash, Abandon
<1>4. /\ pass' = Idle /\ torn' = torn \cup InTrade
      /\ UNCHANGED <<trades, marks, funding, passes, now, late>>
  BY Zenon DEF Fail, Refused, Crash, Abandon
<1>5. UNCHANGED hours \/ HalfStamped
  BY Zenon DEF Fail, Refused, Crash
<1>6. HoursType'
  <2>1. CASE UNCHANGED hours
    BY <1>4, <2>1, TypesKept
  <2>2. CASE HalfStamped
    BY <1>4, <2>2, HalfStampTypes
  <2> QED BY <1>5, <2>1, <2>2
<1> QED BY <1>2, <1>3, <1>4, <1>6 DEF Ends

LEMMA EndsEffect ==
    ASSUME Types, Ends
    PROVE  /\ pass'.at = "idle" /\ pass'.todo = {} /\ pass'.no = 0 /\ torn \subseteq torn'
           /\ Busy => Cur \in torn'
           /\ UNCHANGED <<trades, marks, funding, passes, now, late>>
           /\ Types'
<1>1. /\ pass' = Idle /\ torn' = torn \cup InTrade
      /\ UNCHANGED <<trades, marks, funding, passes, now, late>> /\ HoursType'
      /\ running' \in BOOLEAN /\ left' \in Nat
  BY DEF Ends
<1>2. Known' = Known
  BY <1>1, Zenon DEF Known
<1>3. PassType' /\ LiveNow' /\ Registers'
  BY <1>1, <1>2, IdleTypes
<1>4. InTrade \subseteq Ids /\ (Busy => Cur \in InTrade)
  BY BusyCur DEF InTrade, Busy
<1>5. OtherTypes'
  BY <1>1, <1>4 DEF Types, OtherTypes
<1>6. Types'
  BY <1>1, <1>3, <1>5, TypesKept DEF Types
<1>7. Idle.at = "idle" /\ Idle.todo = {} /\ Idle.no = 0
  BY DEF Idle
<1> QED BY <1>1, <1>4, <1>6, <1>7

LEMMA BootEffect ==
    ASSUME Types, Boot
    PROVE  /\ pass'.at = "next" /\ pass'.todo = {} /\ pass'.no = 0 /\ pass'.replay
           /\ UNCHANGED <<trades, marks, funding, passes, hours, now, torn, late, left>>
           /\ Types'
<1>1. /\ running' = TRUE /\ pass' = [Idle EXCEPT !.at = "next", !.replay = TRUE]
      /\ UNCHANGED <<trades, marks, funding, passes, hours, now, torn, late, left>>
  BY DEF Boot, ledger
<1>2. /\ pass' \in Pass /\ pass'.at = "next" /\ pass'.todo = {} /\ pass'.no = 0
      /\ pass'.replay = TRUE
  <2>1. Idle \in Pass /\ Idle.todo = {} /\ Idle.no = 0
    BY DEF Idle, Pass, Steps
  <2> QED BY <1>1, <2>1 DEF Pass, Steps
<1>3. PassType' /\ LiveNow' /\ Registers'
  BY <1>2 DEF PassType, Busy, LiveNow, Registers
<1>4. OtherTypes'
  BY <1>1 DEF Types, OtherTypes
<1>5. Types'
  BY <1>1, <1>3, <1>4, TypesKept DEF Types
<1> QED BY <1>1, <1>2, <1>5

\* The backfill takes the next stored pass some open trade has no mark of, or is done.
LEMMA ReplayEffect ==
    ASSUME Types, Replay
    PROVE  /\ pass.at = "next" /\ pass.replay /\ pass.todo = {}
           /\ \/ pass'.at = "idle" /\ pass'.todo = {}
              \/ /\ pass'.at = "next" /\ pass'.no \in DOMAIN passes
                 /\ pass'.time = passes[pass'.no] /\ pass'.todo = Unmarked(pass'.no)
           /\ UNCHANGED <<trades, marks, funding, passes, hours, running, now, torn, late, left>>
           /\ Types'
<1> DEFINE ahead == {m \in Behind : m > pass.no}
           n == Least(ahead)
<1>1. /\ pass.at = "next" /\ pass.replay /\ pass.todo = {}
      /\ UNCHANGED <<trades, marks, funding, passes, hours, running, now, torn, late, left>>
      /\ \/ pass' = Idle
         \/ ahead # {} /\ pass' = [pass EXCEPT !.no = n, !.time = passes[n], !.todo = Unmarked(n)]
  BY DEF Replay, ledger
<1>2. Known' = Known
  BY <1>1, Zenon DEF Known
<1>3. pass \in Pass /\ \A m \in DOMAIN passes : passes[m] \in Nat /\ m \in Nat
  BY NextPass DEF Types, PassType, PassesType
<1>4. CASE pass' = Idle
  <2>1. PassType' /\ LiveNow' /\ Registers'
    BY <1>2, <1>4, IdleTypes
  <2>2. Types'
    BY <1>1, <2>1, TypesKept DEF Types
  <2>3. Idle.at = "idle" /\ Idle.todo = {}
    BY DEF Idle
  <2> QED BY <1>1, <1>4, <2>2, <2>3
<1>5. CASE ahead # {} /\ pass' = [pass EXCEPT !.no = n, !.time = passes[n], !.todo = Unmarked(n)]
  <2>1. ahead \in SUBSET Nat
    BY <1>3 DEF Behind
  <2>2. \E i \in ahead : \A j \in ahead : i <= j
    BY <1>5, <2>1, Minimum
  <2>3. n \in ahead
    BY <2>2, Zenon DEF Least
  <2>4. n \in DOMAIN passes
    BY <2>3 DEF Behind
  <2> HIDE DEF n, ahead
  <2>5. n \in Nat /\ passes[n] \in Nat
    BY <1>3, <2>4
  <2>6. Unmarked(n) \subseteq Known /\ Known \subseteq Ids
    BY DEF Unmarked, Open, Types, BooksType
  <2> DEFINE todo == Unmarked(n)
             t == passes[n]
             r == [pass EXCEPT !.no = n, !.time = t]
  <2>7. t \in Nat /\ todo \in SUBSET Ids /\ todo \subseteq Known
    BY <2>5, <2>6
  <2>8. pass' = [r EXCEPT !.todo = todo]
    BY <1>5, Zenon
  <2> HIDE DEF todo, t
  <2>9. /\ r \in Pass /\ r.no = n /\ r.time = t /\ r.at = pass.at /\ r.replay = pass.replay
    BY <1>3, <2>5, <2>7 DEF Pass
  <2> HIDE DEF r
  <2>10. /\ pass' \in Pass /\ pass'.no = n /\ pass'.time = t /\ pass'.at = "next"
         /\ pass'.replay = pass.replay /\ pass'.todo = todo
    BY <1>1, <2>7, <2>8, <2>9 DEF Pass
  <2>11. PassType' /\ LiveNow' /\ Registers'
    BY <1>1, <1>2, <2>7, <2>10 DEF PassType, Busy, LiveNow, Registers
  <2>12. Types'
    BY <1>1, <2>11, TypesKept DEF Types
  <2> QED BY <1>1, <2>4, <2>10, <2>12 DEF todo, t
<1> QED BY <1>1, <1>4, <1>5

LEMMA InitTypes == Init => Types
<1> SUFFICES ASSUME Init PROVE Types
  OBVIOUS
<1>1. Known = {} /\ Known = 1 .. 0
  BY DEF Init, Known, Empty
<1>2. BooksType /\ Numbered
  BY <1>1 DEF Init, BooksType, Numbered, Empty
<1>3. PassesType
  <2>1. DOMAIN passes = 1 .. 0
    BY DEF Init, Empty
  <2> QED BY <2>1 DEF PassesType
<1>4. HoursType
  BY DEF Init, HoursType, Hour
<1>5. PassType /\ LiveNow /\ Registers
  BY DEF Init, Idle, PassType, Pass, Steps, Busy, LiveNow, Registers
<1>6. OtherTypes
  BY BoundsAssumption DEF Init, OtherTypes
<1> QED BY <1>2, <1>3, <1>4, <1>5, <1>6 DEF Types

LEMMA StutterTypes == Types /\ UNCHANGED vars => Types'
<1> SUFFICES ASSUME Types, UNCHANGED vars PROVE Types'
  OBVIOUS
<1>1. UNCHANGED <<trades, marks, funding, passes, hours, running, pass, now, torn, late, left>>
  BY DEF vars, ledger
<1> QED BY <1>1, TypesKept DEF Types

LEMMA StepTypes == Types /\ [Next]_vars => Types'
<1> SUFFICES ASSUME Types, [Next]_vars PROVE Types'
  OBVIOUS
<1>1. CASE Tick
  BY <1>1, TickTypes
<1>2. CASE StartPass
  BY <1>2, StartPassEffect
<1>3. CASE Registered
  BY <1>3, RegisteredTypes
<1>4. CASE Close
  BY <1>4, CloseEffect
<1>5. CASE Settle
  BY <1>5, SettleEffect
<1>6. CASE EndPass
  BY <1>6, EndPassTypes
<1>7. CASE Replay
  BY <1>7, ReplayEffect
<1>8. ASSUME NEW paid \in BOOLEAN, NEW floats \in BOOLEAN, Fund(paid, floats) PROVE Types'
  BY <1>8, FundEffect
<1>9. ASSUME NEW dead \in BOOLEAN, NEW booked \in BOOLEAN, MarkTrade(dead, booked) PROVE Types'
  BY <1>9, MarkEffect
<1>10. ASSUME NEW delisted \in BOOLEAN, NEW priced \in BOOLEAN, Fate(delisted, priced)
       PROVE Types'
  BY <1>10, FateEffect
<1>11. ASSUME NEW a \in Assets, Register(a) PROVE Types'
  BY <1>11, RegisterEffect
<1>12. CASE Fail \/ Refused \/ Crash
  BY <1>12, EndsStep, EndsEffect
<1>13. CASE Boot
  BY <1>13, BootEffect
<1>14. CASE UNCHANGED vars
  BY <1>14, StutterTypes
<1> QED BY <1>1, <1>2, <1>3, <1>4, <1>5, <1>6, <1>7, <1>8, <1>9, <1>10, <1>11, <1>12, <1>13,
           <1>14, Zenon DEF Next, Step

(* The ledger and the pass keep their types whatever fails or ends the process. *)
THEOREM TypeCorrect == Spec => []TypeOK
<1>1. Spec => []Types
  BY InitTypes, StepTypes, PTL DEF Spec
<1> QED BY <1>1, TypesImply, PTL

-----------------------------------------------------------------------------
\* A process that has ended has no pass under way.
DownIdle == running = TRUE \/ pass.at = "idle"

LEMMA DownIdleStep == Types /\ DownIdle /\ [Next]_vars => DownIdle'
<1> SUFFICES ASSUME Types, DownIdle, [Next]_vars PROVE DownIdle'
  OBVIOUS
<1>1. CASE Tick
  BY <1>1 DEF DownIdle, Tick
<1>2. CASE StartPass
  BY <1>2 DEF DownIdle, StartPass, Types, OtherTypes
<1>3. CASE Registered
  BY <1>3 DEF DownIdle, Registered
<1>4. CASE Close
  BY <1>4 DEF DownIdle, Close
<1>5. CASE Settle
  BY <1>5 DEF DownIdle, Settle
<1>6. CASE EndPass
  BY <1>6 DEF DownIdle, EndPass
<1>7. CASE Replay
  <2>1. pass.at = "next" /\ running' = running
    BY <1>7, Zenon DEF Replay
  <2> QED BY <2>1 DEF DownIdle
<1>8. ASSUME NEW paid \in BOOLEAN, NEW floats \in BOOLEAN, Fund(paid, floats) PROVE DownIdle'
  <2>1. pass.at = "next" /\ running' = running
    BY <1>8, Zenon DEF Fund
  <2> QED BY <2>1 DEF DownIdle
<1>9. ASSUME NEW dead \in BOOLEAN, NEW booked \in BOOLEAN, MarkTrade(dead, booked) PROVE DownIdle'
  BY <1>9 DEF DownIdle, MarkTrade
<1>10. ASSUME NEW delisted \in BOOLEAN, NEW priced \in BOOLEAN, Fate(delisted, priced)
       PROVE DownIdle'
  BY <1>10 DEF DownIdle, Fate
<1>11. ASSUME NEW a \in Assets, Register(a) PROVE DownIdle'
  BY <1>11 DEF DownIdle, Register
<1>12. CASE Fail \/ Refused \/ Crash
  BY <1>12, EndsStep, EndsEffect DEF DownIdle
<1>13. CASE Boot
  BY <1>13 DEF DownIdle, Boot
<1>14. CASE UNCHANGED vars
  BY <1>14 DEF DownIdle, vars
<1> QED BY <1>1, <1>2, <1>3, <1>4, <1>5, <1>6, <1>7, <1>8, <1>9, <1>10, <1>11, <1>12, <1>13,
           <1>14, Zenon DEF Next, Step

-----------------------------------------------------------------------------
(* A mark that should close its trade is acted on.                            *)

\* Only the trade of the moment has such a mark, which is of the time of the pass, and its
\* fate is being decided.
Deciding == pass.at \in {"fate", "close", "settle"}
Decided(i) == Deciding /\ i = Cur
Doomed(i) == marks[i].dead = TRUE \/ Overdue(i)
MarkedNow == Deciding => marks[Cur].at = pass.time
FateSeen == MarkedNow /\ \A i \in Open \ torn : Doomed(i) => Decided(i)

LEMMA FateSeenImplies == Types /\ FateSeen => FateActed
<1> SUFFICES ASSUME Types, FateSeen, pass.at = "idle", NEW i \in Open \ torn
             PROVE  ~ marks[i].dead /\ ~ Overdue(i)
  BY DEF FateActed
<1>1. marks[i].dead \in BOOLEAN
  BY DEF Types, BooksType, Mark, Open
<1>2. ~ Doomed(i)
  BY DEF FateSeen, Decided, Deciding
<1> QED BY <1>1, <1>2 DEF Doomed

\* A trade whose mark and market stay is doomed no more and no less than before.
LEMMA DoomSame ==
    ASSUME NEW i, marks'[i] = marks[i], trades'[i].asset = trades[i].asset
    PROVE  Doomed(i)' <=> Doomed(i)
BY DEF Doomed, Overdue, InWindow

\* Nothing is marked or closed.
LEMMA FateSame ==
    ASSUME FateSeen, UNCHANGED <<trades, marks>>, torn \subseteq torn', MarkedNow',
           \A i \in Open : Decided(i) => Decided(i)' \/ ~ Doomed(i) \/ i \in torn'
    PROVE  FateSeen'
<1>1. Open' = Open
  BY Zenon DEF Open, Known
<1>2. \A i : Doomed(i)' <=> Doomed(i)
  BY DoomSame, Zenon
<1>3. ASSUME NEW i \in Open, i \notin torn', Doomed(i) PROVE Decided(i)'
  <2>1. Decided(i)
    BY <1>3 DEF FateSeen
  <2> QED BY <1>3, <2>1
<1> QED BY <1>1, <1>2, <1>3 DEF FateSeen

LEMMA FateSeenStep == Types /\ DownIdle /\ FateSeen /\ [Next]_vars => FateSeen'
<1> SUFFICES ASSUME Types, DownIdle, FateSeen, [Next]_vars PROVE FateSeen'
  OBVIOUS
<1>n. ASSUME UNCHANGED <<trades, marks, torn>>, ~ Deciding, ~ Deciding' PROVE FateSeen'
  BY <1>n, FateSame DEF Decided, MarkedNow
<1>p. ASSUME UNCHANGED <<trades, marks, torn, pass>> PROVE FateSeen'
  <2>1. MarkedNow' /\ \A i : Decided(i) => Decided(i)'
    BY <1>p DEF FateSeen, MarkedNow, Decided, Deciding, Cur
  <2> QED BY <1>p, <2>1, FateSame
<1>1. CASE Tick
  BY <1>1, <1>p DEF Tick, ledger
<1>2. CASE StartPass
  <2>1. UNCHANGED <<trades, marks, torn>> /\ pass.at = "idle" /\ pass'.at = "register"
    BY <1>2, StartPassEffect DEF StartPass
  <2> QED BY <1>n, <2>1 DEF Deciding
<1>3. CASE Registered
  <2>1. /\ UNCHANGED <<trades, marks, torn>> /\ pass.at = "register"
        /\ pass' = [pass EXCEPT !.at = "next", !.todo = Open]
    BY <1>3 DEF Registered, ledger
  <2>2. pass'.at = "next"
    BY <2>1 DEF Types, PassType, Pass
  <2> QED BY <1>n, <2>1, <2>2 DEF Deciding
<1>4. CASE Close
  <2>1. /\ UNCHANGED <<marks, torn>> /\ Open' = Open /\ pass'.at = "settle" /\ Cur' = Cur
        /\ pass.at = "close" /\ pass'.time = pass.time
        /\ \A j \in Known : trades'[j].asset = trades[j].asset
    BY <1>4, CloseEffect
  <2>2. MarkedNow'
    BY <2>1 DEF FateSeen, MarkedNow, Deciding
  <2>3. ASSUME NEW i \in (Open \ torn)', Doomed(i)' PROVE Decided(i)'
    <3>1. i \in Known /\ i \in Open \ torn
      BY <2>1, <2>3 DEF Open
    <3>2. Doomed(i)
      BY <2>1, <2>3, <3>1, DoomSame
    <3>3. Decided(i)
      BY <3>1, <3>2 DEF FateSeen
    <3> QED BY <2>1, <3>3 DEF Decided, Deciding
  <2> QED BY <2>2, <2>3 DEF FateSeen
<1>5. CASE Settle
  <2>1. /\ UNCHANGED <<marks, torn>> /\ Open' = Open \ {Cur} /\ pass'.at = "next"
        /\ \A j \in Known : j # Cur => trades'[j] = trades[j]
    BY <1>5, SettleEffect
  <2>2. ASSUME NEW i \in (Open \ torn)' PROVE ~ Doomed(i)'
    <3>1. i \in Known /\ i \in Open \ torn /\ i # Cur
      BY <2>1, <2>2 DEF Open
    <3>2. ~ Doomed(i)
      BY <3>1 DEF FateSeen, Decided
    <3> QED BY <2>1, <3>1, <3>2, DoomSame
  <2>3. MarkedNow'
    BY <2>1 DEF MarkedNow, Deciding
  <2> QED BY <2>2, <2>3 DEF FateSeen
<1>6. CASE EndPass
  <2>1. UNCHANGED <<trades, marks, torn>> /\ pass.at = "next" /\ pass'.at = "idle"
    BY <1>6 DEF EndPass, Idle
  <2> QED BY <1>n, <2>1 DEF Deciding
<1>7. CASE Replay
  <2>1. UNCHANGED <<trades, marks, torn>> /\ pass.at = "next" /\ pass'.at \in {"idle", "next"}
    BY <1>7, ReplayEffect
  <2> QED BY <1>n, <2>1 DEF Deciding
<1>8. ASSUME NEW paid \in BOOLEAN, NEW floats \in BOOLEAN, Fund(paid, floats) PROVE FateSeen'
  <2>1. UNCHANGED <<trades, marks, torn>> /\ pass.at = "next" /\ pass'.at = "mark"
    BY <1>8, FundEffect DEF Fund
  <2> QED BY <1>n, <2>1 DEF Deciding
<1>9. ASSUME NEW dead \in BOOLEAN, NEW booked \in BOOLEAN, MarkTrade(dead, booked) PROVE FateSeen'
  <2>1. /\ UNCHANGED <<trades, torn>> /\ pass.at = "mark" /\ pass'.at = "fate" /\ Cur' = Cur
        /\ marks'[Cur].at = pass.time /\ pass'.time = pass.time
        /\ \A j \in Known : j # Cur => marks'[j] = marks[j]
    BY <1>9, MarkEffect
  <2>2. MarkedNow'
    BY <2>1 DEF MarkedNow
  <2>3. Open' = Open
    BY <2>1, Zenon DEF Open, Known
  <2>4. ASSUME NEW i \in Open \ torn, i # Cur PROVE ~ Doomed(i)'
    <3>1. i \in Known /\ ~ Doomed(i)
      BY <2>1, <2>4 DEF FateSeen, Decided, Deciding, Open
    <3> QED BY <2>1, <2>4, <3>1, DoomSame
  <2>5. ASSUME NEW i \in Open, i = Cur PROVE Decided(i)'
    BY <2>1, <2>5 DEF Decided, Deciding
  <2> QED BY <2>1, <2>2, <2>3, <2>4, <2>5 DEF FateSeen
<1>10. ASSUME NEW delisted \in BOOLEAN, NEW priced \in BOOLEAN, Fate(delisted, priced)
       PROVE FateSeen'
  <2>1. /\ UNCHANGED <<trades, marks, torn>> /\ pass.at = "fate" /\ pass'.time = pass.time
        /\ \/ pass'.at = "close" /\ Cur' = Cur
           \/ /\ pass'.at = "next" /\ ~ marks[Cur].dead
              /\ ~ (/\ marks[Cur].mid /\ InWindow(pass.time)
                    /\ pass.time > Maturity[trades[Cur].asset] + Fallback)
    BY <1>10, FateEffect DEF ledger
  <2>2. MarkedNow'
    BY <2>1 DEF FateSeen, MarkedNow, Deciding
  <2>3. ASSUME NEW i \in Open, Decided(i) PROVE Decided(i)' \/ ~ Doomed(i)
    <3>1. i = Cur /\ marks[Cur].at = pass.time
      BY <2>1, <2>3 DEF FateSeen, MarkedNow, Decided
    <3>2. CASE pass'.at = "close" /\ Cur' = Cur
      BY <3>1, <3>2 DEF Decided, Deciding
    <3>3. CASE /\ ~ marks[Cur].dead
               /\ ~ (/\ marks[Cur].mid /\ InWindow(pass.time)
                     /\ pass.time > Maturity[trades[Cur].asset] + Fallback)
      <4>1. marks[Cur].dead # TRUE
        BY <3>3, Zenon
      <4>2. ~ Overdue(Cur)
        BY <3>1, <3>3, Zenon DEF Overdue
      <4> QED BY <3>1, <4>1, <4>2 DEF Doomed
    <3> QED BY <2>1, <3>2, <3>3
  <2> QED BY <2>1, <2>2, <2>3, FateSame
<1>11. ASSUME NEW a \in Assets, Register(a) PROVE FateSeen'
  <2>1. PICK i \in Ids :
        /\ i \notin Known /\ Known' = Known \cup {i}
        /\ marks'[i].dead = FALSE /\ marks'[i].at = now
        /\ trades'[i].asset = a /\ now < Maturity[a]
        /\ \A j \in Known : trades'[j] = trades[j] /\ marks'[j] = marks[j]
    BY <1>11, RegisterEffect, Zenon
  <2>2. UNCHANGED <<torn, pass>> /\ pass.at = "register"
    BY <1>11 DEF Register
  <2>3. ~ Doomed(i)'
    <3>1. now \in Nat /\ Maturity[a] \in Nat /\ Fallback \in Nat
      BY BoundsAssumption, MarketsAssumption DEF Types, OtherTypes
    <3>2. ~ (marks'[i].at > Maturity[trades'[i].asset] + Fallback)
      BY <2>1, <3>1
    <3>3. ~ Overdue(i)'
      BY <3>2 DEF Overdue
    <3> QED BY <2>1, <3>3 DEF Doomed
  <2>4. ASSUME NEW j \in Open \ torn PROVE ~ Doomed(j)'
    <3>1. j \in Known /\ ~ Doomed(j)
      BY <2>2, <2>4 DEF FateSeen, Decided, Deciding, Open
    <3> QED BY <2>1, <3>1, DoomSame
  <2>5. Open' \subseteq Open \cup {i}
    BY <2>1 DEF Open
  <2>6. MarkedNow'
    BY <2>2 DEF MarkedNow, Deciding
  <2> QED BY <2>2, <2>3, <2>4, <2>5, <2>6 DEF FateSeen
<1>12. CASE Fail \/ Refused \/ Crash
  <2>1. /\ UNCHANGED <<trades, marks>> /\ torn \subseteq torn' /\ (Busy => Cur \in torn')
        /\ pass'.at = "idle"
    BY <1>12, EndsStep, EndsEffect
  <2>2. MarkedNow' /\ \A i : Decided(i) => i \in torn'
    BY <2>1 DEF MarkedNow, Decided, Deciding, Busy
  <2> QED BY <2>1, <2>2, FateSame
<1>13. CASE Boot
  <2>1. UNCHANGED <<trades, marks, torn>> /\ running = FALSE /\ pass'.at = "next"
    BY <1>13, BootEffect DEF Boot, ledger, Types, OtherTypes
  <2>2. pass.at = "idle"
    BY <2>1 DEF DownIdle
  <2> QED BY <1>n, <2>1, <2>2 DEF Deciding
<1>14. CASE UNCHANGED vars
  BY <1>14, <1>p DEF vars, ledger
<1> QED BY <1>1, <1>2, <1>3, <1>4, <1>5, <1>6, <1>7, <1>8, <1>9, <1>10, <1>11, <1>12, <1>13,
           <1>14, Zenon DEF Next, Step

(* Between two passes no open trade has a mark at which it was liquidated, or  *)
(* one taken in the window when the market had been mature for longer than the *)
(* fallback, unless a pass or the process ended before its fate was decided.   *)
THEOREM FatesActed == Spec => []FateActed
<1>1. Init => DownIdle /\ FateSeen
  <2>1. ASSUME Init PROVE Known = {}
    BY <2>1 DEF Init, Known, Empty
  <2> QED BY <2>1 DEF Init, Idle, DownIdle, FateSeen, MarkedNow, Deciding, Open
<1>2. Types /\ DownIdle /\ FateSeen /\ [Next]_vars => (Types /\ DownIdle /\ FateSeen)'
  BY StepTypes, DownIdleStep, FateSeenStep
<1>3. Types /\ DownIdle /\ FateSeen => FateActed
  BY FateSeenImplies
<1> QED BY <1>1, <1>2, <1>3, InitTypes, PTL DEF Spec

-----------------------------------------------------------------------------
(* Marks have the time of their passes, and passes follow each other.         *)

\* Stored passes are in the order of time, and a trade is entered in the past.
Ordered ==
    /\ \A m, n \in DOMAIN passes : m <= n => passes[m] <= passes[n]
    /\ \A n \in DOMAIN passes : passes[n] <= now
    /\ \A i \in Known : trades[i].entry <= now
\* The first mark of a trade has the time of its entry.
MarkOf ==
    \A i \in Known :
        IF marks[i].pass = 0 THEN marks[i].at = trades[i].entry
        ELSE marks[i].pass \in DOMAIN passes /\ marks[i].at = passes[marks[i].pass]
PassOf ==
    pass.todo # {} \/ pass.at = "register"
        => pass.no \in DOMAIN passes /\ pass.time = passes[pass.no]
\* No trade to be marked has a later mark.
Ahead == \A i \in pass.todo : marks[i].at <= pass.time
Dated == Ordered /\ MarkOf /\ PassOf /\ Ahead

LEMMA Naturals1 ==
    ASSUME Types
    PROVE  /\ now \in Nat
           /\ \A n \in DOMAIN passes : n \in Nat /\ n > 0 /\ passes[n] \in Nat
           /\ \A i \in Known : /\ marks[i].pass \in Nat /\ marks[i].at \in Nat
                               /\ trades[i].entry \in Nat
           /\ pass.time \in Nat /\ pass.no \in Nat /\ pass.todo \subseteq Known
<1>1. now \in Nat
  BY DEF Types, OtherTypes
<1>2. \A n \in DOMAIN passes : n \in Nat /\ n > 0 /\ passes[n] \in Nat
  BY NextPass DEF Types, PassesType
<1>3. \A i \in Known : marks[i].pass \in Nat /\ marks[i].at \in Nat /\ trades[i].entry \in Nat
  BY DEF Types, BooksType, Mark, Trade
<1>4. pass.time \in Nat /\ pass.no \in Nat /\ pass.todo \subseteq Known
  BY DEF Types, PassType, Pass
<1> QED BY <1>1, <1>2, <1>3, <1>4

\* A mark is no later than now, nor than any pass after its own.
LEMMA MarkPast ==
    ASSUME Types, Ordered, MarkOf, NEW i \in Known
    PROVE  /\ marks[i].at <= now
           /\ \A n \in DOMAIN passes : marks[i].pass < n /\ trades[i].entry < passes[n]
                                        => marks[i].at <= passes[n]
<1>1. CASE marks[i].pass = 0
  <2>1. marks[i].at = trades[i].entry
    BY <1>1 DEF MarkOf
  <2> QED BY <2>1, Naturals1 DEF Ordered
<1>2. CASE marks[i].pass # 0
  <2>1. marks[i].pass \in DOMAIN passes /\ marks[i].at = passes[marks[i].pass]
    BY <1>2 DEF MarkOf
  <2>2. marks[i].pass \in Nat /\ \A n \in DOMAIN passes : n \in Nat
    BY Naturals1
  <2>3. ASSUME NEW n \in DOMAIN passes, marks[i].pass < n PROVE marks[i].at <= passes[n]
    <3>1. marks[i].pass <= n
      BY <2>2, <2>3
    <3> QED BY <2>1, <3>1 DEF Ordered
  <2> QED BY <2>1, <2>3 DEF Ordered
<1> QED BY <1>1, <1>2

LEMMA DatedKept ==
    ASSUME Types, Dated
    PROVE  /\ Known' = Known /\ UNCHANGED <<passes, now>>
              /\ (\A i \in Known : trades'[i].entry = trades[i].entry) => Ordered'
           /\ Known' = Known /\ UNCHANGED <<passes, marks>>
              /\ (\A i \in Known : trades'[i].entry = trades[i].entry) => MarkOf'
           /\ UNCHANGED passes /\ pass'.at # "register" /\ pass'.todo \subseteq pass.todo
              /\ pass'.no = pass.no /\ pass'.time = pass.time => PassOf'
           /\ UNCHANGED marks /\ pass'.todo \subseteq pass.todo /\ pass'.time = pass.time
              => Ahead'
<1>1. Known' = Known /\ UNCHANGED <<passes, now>>
         /\ (\A i \in Known : trades'[i].entry = trades[i].entry) => Ordered'
  BY DEF Dated, Ordered
<1>2. Known' = Known /\ UNCHANGED <<passes, marks>>
         /\ (\A i \in Known : trades'[i].entry = trades[i].entry) => MarkOf'
  BY DEF Dated, MarkOf
<1>3. UNCHANGED passes /\ pass'.at # "register" /\ pass'.todo \subseteq pass.todo
         /\ pass'.no = pass.no /\ pass'.time = pass.time => PassOf'
  BY DEF Dated, PassOf
<1>4. UNCHANGED marks /\ pass'.todo \subseteq pass.todo /\ pass'.time = pass.time => Ahead'
  BY DEF Dated, Ahead
<1> QED BY <1>1, <1>2, <1>3, <1>4

\* The books and the passes stay, and the pass goes on or is over.
LEMMA DatedSame ==
    ASSUME Types, Dated, UNCHANGED <<trades, marks, passes, now>>
    PROVE  /\ pass'.at # "register" /\ pass'.todo \subseteq pass.todo /\ pass'.no = pass.no
              /\ pass'.time = pass.time => Dated'
           /\ pass'.at # "register" /\ pass'.todo = {} => Dated'
           /\ UNCHANGED pass => Dated'
<1>1. Known' = Known
  BY Zenon DEF Known
<1>2. Ordered' /\ MarkOf'
  BY <1>1, DatedKept
<1>3. ASSUME pass'.at # "register", pass'.todo \subseteq pass.todo, pass'.no = pass.no,
             pass'.time = pass.time
      PROVE  Dated'
  BY <1>2, <1>3, DatedKept DEF Dated
<1>4. ASSUME pass'.at # "register", pass'.todo = {} PROVE Dated'
  <2>1. PassOf' /\ Ahead'
    BY <1>4 DEF PassOf, Ahead
  <2> QED BY <1>2, <2>1 DEF Dated
<1>5. ASSUME UNCHANGED pass PROVE Dated'
  <2>1. PassOf' /\ Ahead'
    BY <1>5 DEF Dated, PassOf, Ahead
  <2> QED BY <1>2, <2>1 DEF Dated
<1> QED BY <1>3, <1>4, <1>5

LEMMA DatedTick == Types /\ Dated /\ Tick => Dated'
<1> SUFFICES ASSUME Types, Dated, Tick PROVE Dated'
  OBVIOUS
<1>1. UNCHANGED <<trades, marks, passes, pass>> /\ now' = now + 1
  BY DEF Tick, ledger
<1>2. Known' = Known
  BY <1>1, Zenon DEF Known
<1>3. Ordered'
  BY <1>1, <1>2, Naturals1 DEF Dated, Ordered
<1>4. MarkOf' /\ PassOf' /\ Ahead'
  BY <1>1, <1>2 DEF Dated, MarkOf, PassOf, Ahead
<1> QED BY <1>3, <1>4 DEF Dated

LEMMA DatedStart == Types /\ Dated /\ StartPass => Dated'
<1> SUFFICES ASSUME Types, Dated, StartPass PROVE Dated'
  OBVIOUS
<1>1. /\ pass'.at = "register" /\ pass'.time = now /\ pass'.todo = {}
      /\ pass'.no \in DOMAIN passes' /\ passes'[pass'.no] = now
      /\ \/ pass'.no = Last + 1 /\ DOMAIN passes' = DOMAIN passes \cup {Last + 1}
         \/ /\ pass'.no = Last /\ DOMAIN passes' = DOMAIN passes
            /\ Last \in DOMAIN passes /\ passes[Last] = now
      /\ \A n \in DOMAIN passes : n # pass'.no => passes'[n] = passes[n]
  BY StartPassEffect
<1>2. UNCHANGED <<trades, marks, now>>
  BY DEF StartPass
<1>3. Known' = Known
  BY <1>2, Zenon DEF Known
<1>4. Last \in Nat /\ DOMAIN passes = 1 .. Last
  BY NextPass
<1>5. \A n \in DOMAIN passes : passes'[n] = passes[n] /\ n <= pass'.no /\ n \in Nat
  BY <1>1, <1>4
<1>6. \A n \in DOMAIN passes' : n = pass'.no \/ n \in DOMAIN passes
  BY <1>1
<1>7. \A n \in DOMAIN passes' : passes'[n] <= now /\ n <= pass'.no
  BY <1>1, <1>4, <1>5, <1>6, Naturals1 DEF Dated, Ordered
<1>8. \A m, n \in DOMAIN passes' : m <= n => passes'[m] <= passes'[n]
  <2> SUFFICES ASSUME NEW m \in DOMAIN passes', NEW n \in DOMAIN passes', m <= n
               PROVE  passes'[m] <= passes'[n]
    OBVIOUS
  <2>1. CASE n = pass'.no
    BY <1>1, <1>7, <2>1
  <2>2. CASE n # pass'.no
    <3>1. n \in DOMAIN passes /\ n \in Nat /\ n <= Last
      BY <1>4, <1>6, <2>2
    <3>2. m \in DOMAIN passes
      <4>1. CASE m = pass'.no
        <5>1. m = n
          BY <1>1, <1>4, <3>1, <4>1
        <5> QED BY <3>1, <5>1
      <4> QED BY <1>6, <4>1
    <3> QED BY <1>5, <3>1, <3>2 DEF Dated, Ordered
  <2> QED BY <2>1, <2>2
<1>9. Ordered'
  BY <1>2, <1>3, <1>7, <1>8 DEF Dated, Ordered
<1>10. MarkOf'
  BY <1>1, <1>2, <1>3, <1>5 DEF Dated, MarkOf
<1>11. PassOf' /\ Ahead'
  BY <1>1 DEF PassOf, Ahead
<1> QED BY <1>9, <1>10, <1>11 DEF Dated

LEMMA DatedRegister ==
    ASSUME Types, Dated, NEW a \in Assets, Register(a)
    PROVE  Dated'
<1> DEFINE i == Cardinality(Known) + 1
<1>1. /\ i \notin Known /\ Known' = Known \cup {i} /\ trades'[i].entry = now
      /\ marks'[i].pass = 0 /\ marks'[i].at = now
      /\ \A j \in Known : trades'[j] = trades[j] /\ marks'[j] = marks[j]
  BY RegisterEffect
<1>2. UNCHANGED <<passes, pass, now>>
  BY DEF Register
<1> HIDE DEF i
<1>3. Ordered'
  BY <1>1, <1>2, Naturals1 DEF Dated, Ordered
<1>4. MarkOf'
  BY <1>1, <1>2 DEF Dated, MarkOf
<1>5. PassOf'
  BY <1>2 DEF Dated, PassOf
<1>6. Ahead'
  BY <1>1, <1>2, Naturals1 DEF Dated, Ahead
<1> QED BY <1>3, <1>4, <1>5, <1>6 DEF Dated

LEMMA DatedMark ==
    ASSUME Types, Dated, NEW dead \in BOOLEAN, NEW booked \in BOOLEAN, MarkTrade(dead, booked)
    PROVE  Dated'
<1>1. /\ pass'.at = "fate" /\ pass'.todo = pass.todo /\ pass'.no = pass.no
      /\ pass'.time = pass.time /\ Cur \in pass.todo /\ Cur \in Known
      /\ marks'[Cur].pass = pass.no /\ marks'[Cur].at = pass.time
      /\ \A j \in Known : j # Cur => marks'[j] = marks[j]
      /\ UNCHANGED <<trades, passes, now>>
  BY MarkEffect
<1>2. Known' = Known
  BY <1>1, Zenon DEF Known
<1>3. Ordered' /\ PassOf'
  BY <1>1, <1>2, DatedKept
<1>4. pass.no \in DOMAIN passes /\ pass.time = passes[pass.no] /\ pass.no # 0
  BY <1>1, Naturals1 DEF Dated, PassOf
<1>5. MarkOf'
  BY <1>1, <1>2, <1>4 DEF Dated, MarkOf
<1>6. Ahead'
  BY <1>1, Naturals1 DEF Dated, Ahead
<1> QED BY <1>3, <1>5, <1>6 DEF Dated

LEMMA DatedStep == Types /\ Dated /\ [Next]_vars => Dated'
<1> SUFFICES ASSUME Types, Dated, [Next]_vars PROVE Dated'
  OBVIOUS
<1>1. CASE Tick
  BY <1>1, DatedTick
<1>2. CASE StartPass
  BY <1>2, DatedStart
<1>3. CASE Registered
  <2>1. /\ UNCHANGED <<trades, marks, passes, now>> /\ pass.at = "register"
        /\ pass' = [pass EXCEPT !.at = "next", !.todo = Open]
    BY <1>3 DEF Registered, ledger
  <2>2. pass'.at = "next" /\ pass'.todo = Open /\ pass'.no = pass.no /\ pass'.time = pass.time
    BY <2>1 DEF Types, PassType, Pass
  <2>3. Known' = Known
    BY <2>1, Zenon DEF Known
  <2>4. Ordered' /\ MarkOf'
    BY <2>1, <2>3, DatedKept
  <2>5. PassOf'
    BY <2>1, <2>2 DEF Dated, PassOf
  <2>6. pass.time = now
    BY <2>1 DEF Types, LiveNow, Registers
  <2>7. \A i \in Open : marks[i].at <= now
    BY MarkPast DEF Dated, Open
  <2>8. Ahead'
    BY <2>1, <2>2, <2>6, <2>7 DEF Ahead
  <2> QED BY <2>4, <2>5, <2>8 DEF Dated
<1>4. CASE Close
  <2>1. /\ UNCHANGED <<marks, passes, now>> /\ pass'.at = "settle" /\ pass'.todo = pass.todo
        /\ pass'.no = pass.no /\ pass'.time = pass.time /\ Known' = Known
        /\ \A j \in Known : trades'[j].entry = trades[j].entry
    BY <1>4, CloseEffect
  <2> QED BY <2>1, DatedKept DEF Dated
<1>5. CASE Settle
  <2>1. /\ UNCHANGED <<marks, passes, now>> /\ pass'.at = "next"
        /\ pass'.todo \subseteq pass.todo
        /\ pass'.no = pass.no /\ pass'.time = pass.time /\ Known' = Known
        /\ trades'[Cur].entry = trades[Cur].entry
        /\ \A j \in Known : j # Cur => trades'[j] = trades[j]
    BY <1>5, SettleEffect
  <2>2. \A j \in Known : trades'[j].entry = trades[j].entry
    BY <2>1
  <2> QED BY <2>1, <2>2, DatedKept DEF Dated
<1>6. CASE EndPass
  <2>1. UNCHANGED <<trades, marks, passes, now>> /\ pass'.at = "idle" /\ pass'.todo = {}
    BY <1>6 DEF EndPass, Idle
  <2> QED BY <2>1, DatedSame
<1>7. CASE Replay
  <2>1. /\ UNCHANGED <<trades, marks, passes, now>>
        /\ \/ pass'.at = "idle" /\ pass'.todo = {}
           \/ /\ pass'.at = "next" /\ pass'.no \in DOMAIN passes
              /\ pass'.time = passes[pass'.no] /\ pass'.todo = Unmarked(pass'.no)
    BY <1>7, ReplayEffect
  <2>2. CASE pass'.at = "idle" /\ pass'.todo = {}
    BY <2>1, <2>2, DatedSame
  <2>3. CASE /\ pass'.at = "next" /\ pass'.no \in DOMAIN passes
             /\ pass'.time = passes[pass'.no] /\ pass'.todo = Unmarked(pass'.no)
    <3>1. Known' = Known
      BY <2>1, Zenon DEF Known
    <3>2. Ordered' /\ MarkOf'
      BY <2>1, <3>1, DatedKept
    <3>3. PassOf'
      BY <2>1, <2>3 DEF PassOf
    <3>4. \A i \in Unmarked(pass'.no) : marks[i].at <= passes[pass'.no]
      <4> SUFFICES ASSUME NEW i \in Unmarked(pass'.no) PROVE marks[i].at <= passes[pass'.no]
        OBVIOUS
      <4>1. i \in Known /\ trades[i].entry < passes[pass'.no] /\ marks[i].pass < pass'.no
        BY DEF Unmarked, Open
      <4> QED BY <2>3, <4>1, MarkPast DEF Dated
    <3>5. Ahead'
      BY <2>1, <2>3, <3>4 DEF Ahead
    <3> QED BY <3>2, <3>3, <3>5 DEF Dated
  <2> QED BY <2>1, <2>2, <2>3
<1>8. ASSUME NEW paid \in BOOLEAN, NEW floats \in BOOLEAN, Fund(paid, floats) PROVE Dated'
  <2>1. /\ UNCHANGED <<trades, marks, passes, now>> /\ pass'.at = "mark"
        /\ pass'.todo = pass.todo /\ pass'.no = pass.no /\ pass'.time = pass.time
    BY <1>8, FundEffect
  <2> QED BY <2>1, DatedSame
<1>9. ASSUME NEW dead \in BOOLEAN, NEW booked \in BOOLEAN, MarkTrade(dead, booked) PROVE Dated'
  BY <1>9, DatedMark
<1>10. ASSUME NEW delisted \in BOOLEAN, NEW priced \in BOOLEAN, Fate(delisted, priced)
       PROVE Dated'
  <2>1. /\ UNCHANGED <<trades, marks, passes, now>> /\ pass'.at # "register"
        /\ pass'.todo \subseteq pass.todo /\ pass'.no = pass.no /\ pass'.time = pass.time
    BY <1>10, FateEffect DEF ledger
  <2> QED BY <2>1, DatedSame
<1>11. ASSUME NEW a \in Assets, Register(a) PROVE Dated'
  BY <1>11, DatedRegister
<1>12. CASE Fail \/ Refused \/ Crash
  <2>1. UNCHANGED <<trades, marks, passes, now>> /\ pass'.at = "idle" /\ pass'.todo = {}
    BY <1>12, EndsStep, EndsEffect
  <2> QED BY <2>1, DatedSame
<1>13. CASE Boot
  <2>1. UNCHANGED <<trades, marks, passes, now>> /\ pass'.at = "next" /\ pass'.todo = {}
    BY <1>13, BootEffect
  <2> QED BY <2>1, DatedSame
<1>14. CASE UNCHANGED vars
  <2>1. UNCHANGED <<trades, marks, passes, now, pass>>
    BY <1>14 DEF vars, ledger
  <2> QED BY <2>1, DatedSame
<1> QED BY <1>1, <1>2, <1>3, <1>4, <1>5, <1>6, <1>7, <1>8, <1>9, <1>10, <1>11, <1>12, <1>13,
           <1>14, Zenon DEF Next, Step

LEMMA InitDated == Init => Dated
<1> SUFFICES ASSUME Init PROVE Dated
  OBVIOUS
<1>1. Known = {} /\ DOMAIN passes = {}
  BY DEF Init, Known, Empty
<1>2. pass.todo = {} /\ pass.at = "idle"
  BY DEF Init, Idle
<1> QED BY <1>1, <1>2 DEF Dated, Ordered, MarkOf, PassOf, Ahead

-----------------------------------------------------------------------------
(* The floating amounts cancel the funding.                                   *)

\* Between the funding and the mark the pass owes what the mark will subtract.
Marking(i) == pass.at = "mark" /\ i = Cur
Balance ==
    \A i \in Known \ (torn \cup late) :
        marks[i].floating + funding[i].cash = IF Marking(i) THEN pass.owes ELSE 0
\* Funding stored under a time is of a mark, or of the one to be written.
Stored ==
    \A i \in Known \ torn : \A t \in funding[i].at :
        t <= marks[i].at \/ (Marking(i) /\ t <= pass.time)
Balanced == Balance /\ Stored

LEMMA Amounts ==
    ASSUME Types, NEW i \in Known
    PROVE  marks[i].floating \in Int /\ funding[i].cash \in Int /\ funding[i].at \subseteq Nat
           /\ marks[i].at \in Nat
BY DEF Types, BooksType, Mark, Funding

\* No step outside a mark touches the books.
LEMMA BalanceKept ==
    ASSUME Types, Balanced, UNCHANGED <<marks, funding>>, Known' = Known,
           torn \subseteq torn', late \subseteq late', pass.at = "mark" => Cur \in torn',
           pass'.at # "mark"
    PROVE  Balanced'
<1>1. ASSUME NEW i \in Known \ torn' PROVE ~ Marking(i) /\ ~ Marking(i)'
  BY <1>1 DEF Marking
<1>2. Balance'
  <2> SUFFICES ASSUME NEW i \in Known \ (torn' \cup late')
               PROVE  marks[i].floating + funding[i].cash = 0 /\ ~ Marking(i)'
    BY DEF Balance
  <2>1. ~ Marking(i) /\ ~ Marking(i)' /\ i \in Known \ (torn \cup late)
    BY <1>1
  <2> QED BY <2>1, Zenon DEF Balanced, Balance
<1>3. Stored'
  <2> SUFFICES ASSUME NEW i \in Known \ torn', NEW t \in funding[i].at
               PROVE  t <= marks[i].at
    BY Zenon DEF Stored
  <2>1. ~ Marking(i) /\ i \in Known \ torn
    BY <1>1
  <2> QED BY <2>1, Zenon DEF Balanced, Stored
<1> QED BY <1>2, <1>3 DEF Balanced

LEMMA BalanceFund ==
    ASSUME Types, Dated, Balanced, NEW paid \in BOOLEAN, NEW floats \in BOOLEAN,
           Fund(paid, floats)
    PROVE  Balanced'
<1> DEFINE i == Cur
           f == funding[i]
           sampled == trades[i].asset \in Sampled
           since == pass.time - marks[i].at
           cash == IF sampled THEN since ELSE pass.time - f.cursor
<1>1. /\ i \in pass.todo /\ i \in Known /\ since \in Int /\ cash \in Int
      /\ pass.at = "next" /\ pass'.at = "mark"
      /\ pass'.owes = IF floats THEN since ELSE IF paid THEN cash ELSE 0
      /\ pass'.time = pass.time /\ Cur' = i
      /\ \A j \in Known : j # i => funding'[j] = funding[j]
      /\ paid /\ ~ sampled => funding'[i].cash = f.cash + cash /\ funding'[i].at = f.at
      /\ (paid /\ sampled) \/ (floats /\ ~ paid)
         => \/ /\ funding'[i].cash = f.cash + since
               /\ funding'[i].at \subseteq f.at \cup {pass.time}
            \/ pass.time \in f.at /\ funding'[i] = f
      /\ ~ paid /\ ~ floats => funding'[i] = f
      /\ late \subseteq late' /\ (paid /\ floats /\ cash # since => i \in late')
      /\ UNCHANGED <<trades, marks, torn>>
  BY FundEffect, Zenon
<1>2. Known' = Known
  BY <1>1, Zenon DEF Known
<1>3. /\ marks[i].floating \in Int /\ f.cash \in Int /\ f.at \subseteq Nat
      /\ marks[i].at \in Nat /\ pass.time \in Nat
  BY <1>1, Amounts, Naturals1
<1>4. sampled => cash = since
  OBVIOUS
<1>5. /\ \A j : ~ Marking(j)
      /\ \A j : j # i => ~ Marking(j)'
      /\ Marking(i)'
  BY <1>1 DEF Marking
<1>6. i \notin torn => (pass.time \in f.at => since = 0)
  <2> SUFFICES ASSUME i \notin torn, pass.time \in f.at PROVE since = 0
    OBVIOUS
  <2>1. pass.time <= marks[i].at
    BY <1>1, <1>5 DEF Balanced, Stored
  <2>2. marks[i].at <= pass.time
    BY <1>1 DEF Dated, Ahead
  <2> QED BY <1>3, <2>1, <2>2
<1>7. Balance'
  <2>1. ASSUME NEW j \in Known \ (torn' \cup late'), j # i
        PROVE  marks'[j].floating + funding'[j].cash = 0 /\ ~ Marking(j)'
    <3>1. j \in Known \ (torn \cup late) /\ funding'[j] = funding[j]
      BY <1>1, <2>1
    <3> QED BY <1>1, <1>5, <2>1, <3>1 DEF Balanced, Balance
  <2>2. ASSUME i \notin torn' \cup late'
        PROVE  marks'[i].floating + funding'[i].cash = pass'.owes
    <3>1. marks[i].floating + f.cash = 0
      BY <1>1, <1>5, <2>2 DEF Balanced, Balance
    <3>2. paid /\ floats => cash = since
      BY <1>1, <2>2
    <3>3. pass.time \in f.at => since = 0
      BY <1>1, <1>6, <2>2
    <3>4. marks'[i].floating = marks[i].floating
      BY <1>1
    <3> DEFINE m == marks[i].floating
               c == f.cash
               c1 == funding'[i].cash
               o == pass'.owes
    <3>5. m \in Int /\ c \in Int /\ m + c = 0
      BY <1>3, <3>1
    <3>6. c1 - c = o /\ c1 \in Int
      <4>1. CASE paid /\ ~ sampled
        <5>1. c1 = c + cash /\ o = cash
          BY <1>1, <3>2, <4>1
        <5> HIDE DEF c, c1, o, cash, since
        <5> QED BY <1>1, <3>5, <5>1
      <4>2. CASE (paid /\ sampled) \/ (floats /\ ~ paid)
        <5>1. o = since
          BY <1>1, <1>4, <4>2
        <5>2. c1 = c + since \/ (c1 = c /\ since = 0)
          BY <1>1, <3>3, <4>2
        <5> HIDE DEF c, c1, o, cash, since
        <5> QED BY <1>1, <3>5, <5>1, <5>2
      <4>3. CASE ~ paid /\ ~ floats
        <5>1. c1 = c /\ o = 0
          BY <1>1, <4>3
        <5> HIDE DEF c, c1, o, cash, since
        <5> QED BY <3>5, <5>1
      <4> QED BY <4>1, <4>2, <4>3
    <3>7. m + c1 = o
      <4> HIDE DEF m, c, c1, o
      <4> QED BY <3>5, <3>6
    <3> QED BY <3>4, <3>7
  <2>3. ASSUME NEW j \in Known \ (torn' \cup late')
        PROVE  marks'[j].floating + funding'[j].cash = IF Marking(j)' THEN pass'.owes ELSE 0
    <3>1. CASE j = i
      BY <1>5, <2>2, <2>3, <3>1
    <3>2. CASE j # i
      BY <2>1, <2>3, <3>2
    <3> QED BY <3>1, <3>2
  <2> QED BY <1>2, <2>3 DEF Balance
<1>8. Stored'
  <2> SUFFICES ASSUME NEW j \in Known \ torn, NEW t \in funding'[j].at
               PROVE  t <= marks[j].at \/ (Marking(j)' /\ t <= pass.time)
    BY <1>1, <1>2 DEF Stored
  <2>1. CASE j # i
    BY <1>1, <1>5, <2>1 DEF Balanced, Stored
  <2>2. CASE j = i
    <3>1. t \in f.at \/ t = pass.time
      BY <1>1, <2>2
    <3>2. t \in f.at => t <= marks[i].at
      BY <1>5, <2>2 DEF Balanced, Stored
    <3>3. pass.time <= pass.time
      BY <1>3
    <3> QED BY <1>5, <2>2, <3>1, <3>2, <3>3
  <2> QED BY <2>1, <2>2
<1> QED BY <1>7, <1>8 DEF Balanced

LEMMA BalanceMark ==
    ASSUME Types, Dated, Balanced,
           NEW dead \in BOOLEAN, NEW booked \in BOOLEAN, MarkTrade(dead, booked)
    PROVE  Balanced'
<1>1. /\ pass.at = "mark" /\ pass'.at = "fate" /\ Cur \in pass.todo /\ Cur \in Known
      /\ marks'[Cur].at = pass.time
      /\ marks'[Cur].floating = marks[Cur].floating - pass.owes
      /\ \A j \in Known : j # Cur => marks'[j] = marks[j]
      /\ UNCHANGED <<trades, funding, torn, late>>
  BY MarkEffect
<1>2. Known' = Known
  BY <1>1, Zenon DEF Known
<1>3. \A j : ~ Marking(j)' /\ (Marking(j) <=> j = Cur)
  BY <1>1 DEF Marking
<1>4. pass.owes \in Int /\ pass.time \in Nat
  BY DEF Types, PassType, Pass
<1>5. Balance'
  <2> SUFFICES ASSUME NEW j \in Known \ (torn \cup late)
               PROVE  marks'[j].floating + funding[j].cash = 0
    BY <1>1, <1>2, <1>3 DEF Balance
  <2>1. marks[j].floating \in Int /\ funding[j].cash \in Int
    BY Amounts
  <2>2. CASE j = Cur
    <3>1. marks[j].floating + funding[j].cash = pass.owes
      BY <1>3, <2>2 DEF Balanced, Balance
    <3>2. marks'[j].floating = marks[j].floating - pass.owes
      BY <1>1, <2>2
    <3> QED BY <1>4, <2>1, <3>1, <3>2
  <2>3. CASE j # Cur
    BY <1>1, <1>3, <2>3 DEF Balanced, Balance
  <2> QED BY <2>2, <2>3
<1>6. Stored'
  <2> SUFFICES ASSUME NEW j \in Known \ torn, NEW t \in funding[j].at
               PROVE  t <= marks'[j].at
    BY <1>1, <1>2 DEF Stored
  <2>1. CASE j = Cur
    <3>1. t <= marks[j].at \/ t <= pass.time
      BY DEF Balanced, Stored
    <3>2. marks[j].at <= pass.time
      BY <1>1, <2>1 DEF Dated, Ahead
    <3>3. t \in Nat /\ marks[j].at \in Nat
      BY Amounts
    <3> QED BY <1>1, <1>4, <2>1, <3>1, <3>2, <3>3
  <2>2. CASE j # Cur
    BY <1>1, <1>3, <2>2 DEF Balanced, Stored
  <2> QED BY <2>1, <2>2
<1> QED BY <1>5, <1>6 DEF Balanced

LEMMA BalanceRegister ==
    ASSUME Types, Balanced, NEW a \in Assets, Register(a)
    PROVE  Balanced'
<1> DEFINE i == Cardinality(Known) + 1
<1>1. /\ i \notin Known /\ Known' = Known \cup {i}
      /\ marks'[i].floating = 0 /\ funding'[i].cash = 0 /\ funding'[i].at = {}
      /\ \A j \in Known : marks'[j] = marks[j] /\ funding'[j] = funding[j]
  BY RegisterEffect
<1>2. UNCHANGED <<pass, torn, late>> /\ pass.at = "register"
  BY DEF Register
<1> HIDE DEF i
<1>3. \A j : ~ Marking(j) /\ ~ Marking(j)'
  BY <1>2 DEF Marking
<1>4. Balance'
  BY <1>1, <1>2, <1>3 DEF Balanced, Balance
<1>5. Stored'
  BY <1>1, <1>2, <1>3 DEF Balanced, Stored
<1> QED BY <1>4, <1>5 DEF Balanced

LEMMA BalanceStep == Types /\ DownIdle /\ Dated /\ Balanced /\ [Next]_vars => Balanced'
<1> SUFFICES ASSUME Types, DownIdle, Dated, Balanced, [Next]_vars PROVE Balanced'
  OBVIOUS
<1>k. UNCHANGED trades => Known' = Known
  BY Zenon DEF Known
<1>1. CASE Tick
  <2>1. UNCHANGED <<trades, marks, funding, torn, late, pass>> /\ pass.at = "idle"
    BY <1>1 DEF Tick, ledger
  <2> QED BY <1>k, <2>1, BalanceKept
<1>2. CASE StartPass
  <2>1. UNCHANGED <<trades, marks, funding, torn, late>> /\ pass.at = "idle"
    BY <1>2 DEF StartPass
  <2>2. pass'.at = "register"
    BY <1>2, StartPassEffect
  <2> QED BY <1>k, <2>1, <2>2, BalanceKept
<1>3. CASE Registered
  <2>1. UNCHANGED <<trades, marks, funding, torn, late>> /\ pass.at = "register"
        /\ pass' = [pass EXCEPT !.at = "next", !.todo = Open]
    BY <1>3 DEF Registered, ledger
  <2>2. pass'.at = "next"
    BY <2>1 DEF Types, PassType, Pass
  <2> QED BY <1>k, <2>1, <2>2, BalanceKept
<1>4. CASE Close
  <2>1. /\ UNCHANGED <<marks, funding, torn, late>> /\ pass.at = "close" /\ Known' = Known
        /\ pass'.at = "settle"
    BY <1>4, CloseEffect
  <2> QED BY <2>1, BalanceKept
<1>5. CASE Settle
  <2>1. /\ UNCHANGED <<marks, funding, torn, late>> /\ pass.at = "settle" /\ Known' = Known
        /\ pass'.at = "next"
    BY <1>5, SettleEffect
  <2> QED BY <2>1, BalanceKept
<1>6. CASE EndPass
  <2>1. UNCHANGED <<trades, marks, funding, torn, late>> /\ pass.at = "next" /\ pass'.at = "idle"
    BY <1>6 DEF EndPass, Idle
  <2> QED BY <1>k, <2>1, BalanceKept
<1>7. CASE Replay
  <2>1. UNCHANGED <<trades, marks, funding, torn, late>> /\ pass.at = "next"
        /\ pass'.at \in {"idle", "next"}
    BY <1>7, ReplayEffect
  <2> QED BY <1>k, <2>1, BalanceKept
<1>8. ASSUME NEW paid \in BOOLEAN, NEW floats \in BOOLEAN, Fund(paid, floats) PROVE Balanced'
  BY <1>8, BalanceFund
<1>9. ASSUME NEW dead \in BOOLEAN, NEW booked \in BOOLEAN, MarkTrade(dead, booked) PROVE Balanced'
  BY <1>9, BalanceMark
<1>10. ASSUME NEW delisted \in BOOLEAN, NEW priced \in BOOLEAN, Fate(delisted, priced)
       PROVE Balanced'
  <2>1. UNCHANGED <<trades, marks, funding, torn, late>> /\ pass.at = "fate"
        /\ pass'.at \in {"close", "next"}
    BY <1>10, FateEffect DEF ledger
  <2> QED BY <1>k, <2>1, BalanceKept
<1>11. ASSUME NEW a \in Assets, Register(a) PROVE Balanced'
  BY <1>11, BalanceRegister
<1>12. CASE Fail \/ Refused \/ Crash
  <2>1. /\ UNCHANGED <<trades, marks, funding, late>> /\ pass'.at = "idle"
        /\ torn \subseteq torn' /\ (pass.at = "mark" => Cur \in torn')
    BY <1>12, EndsStep, EndsEffect DEF Busy
  <2> QED BY <1>k, <2>1, BalanceKept
<1>13. CASE Boot
  <2>1. UNCHANGED <<trades, marks, funding, torn, late>> /\ pass'.at = "next"
    BY <1>13, BootEffect
  <2>2. pass.at = "idle"
    BY <1>13 DEF Boot, DownIdle, Types, OtherTypes
  <2> QED BY <1>k, <2>1, <2>2, BalanceKept
<1>14. CASE UNCHANGED vars
  <2>1. UNCHANGED <<trades, marks, funding, torn, late, pass>>
    BY <1>14 DEF vars, ledger
  <2>2. Known' = Known /\ \A j : Marking(j)' = Marking(j)
    BY <1>k, <2>1, Zenon DEF Marking, Cur
  <2> QED BY <2>1, <2>2, Zenon DEF Balanced, Balance, Stored
<1> QED BY <1>1, <1>2, <1>3, <1>4, <1>5, <1>6, <1>7, <1>8, <1>9, <1>10, <1>11, <1>12, <1>13,
           <1>14, Zenon DEF Next, Step

(* In the books of every trade the floating amount cancels the funding, unless *)
(* a pass or the process ended between the two writes, or funding was read      *)
(* late.                                                                       *)
THEOREM BooksCancel == Spec => []Cancels
<1>1. Init => DownIdle /\ Balanced
  <2>1. ASSUME Init PROVE Known = {}
    BY <2>1 DEF Init, Known, Empty
  <2> QED BY <2>1 DEF Init, DownIdle, Balanced, Balance, Stored
<1>2. Types /\ DownIdle /\ Dated /\ Balanced /\ [Next]_vars
      => (Types /\ DownIdle /\ Dated /\ Balanced)'
  BY StepTypes, DownIdleStep, DatedStep, BalanceStep
<1>3. Balanced => Cancels
  BY DEF Balanced, Balance, Marking, Cancels
<1> QED BY <1>1, <1>2, <1>3, InitTypes, InitDated, PTL DEF Spec

-----------------------------------------------------------------------------
(* Marks go forward.                                                          *)

\* A trade that has a close row and is open, and is not just being settled.
Stuck == \E i \in Open : trades[i].closed = TRUE /\ ~ (pass.at = "settle" /\ i = Cur)
\* The pass is later than the marks of the trades it has still to mark.
Later ==
    /\ \A i \in pass.todo : marks[i].pass < pass.no \/ Decided(i)
    /\ pass.at = "register" => \A i \in Known : marks[i].pass < pass.no
Fresh == Stuck \/ Later

LEMMA StuckIsWedged == Types /\ Stuck => Wedged
<1> SUFFICES ASSUME Types, Stuck PROVE Wedged
  OBVIOUS
<1>1. \A i \in Open : trades[i].closed \in BOOLEAN
  BY DEF Open, Types, BooksType, Trade
<1> QED BY <1>1 DEF Stuck, Wedged

LEMMA WedgedIsStuck ==
    ASSUME Types, Wedged, pass.at # "settle"
    PROVE  Stuck
<1>1. \A i \in Open : trades[i].closed \in BOOLEAN
  BY DEF Open, Types, BooksType, Trade
<1> QED BY <1>1 DEF Stuck, Wedged

\* Only its settling, which a close row of an earlier pass keeps from coming, ends it.
LEMMA StuckStays == Types /\ DownIdle /\ Stuck /\ [Next]_vars => Stuck'
<1> SUFFICES ASSUME Types, DownIdle, Stuck, [Next]_vars PROVE Stuck'
  OBVIOUS
<1>1. PICK i \in Open : trades[i].closed = TRUE /\ ~ (pass.at = "settle" /\ i = Cur)
  BY DEF Stuck
<1>2. i \in Known
  BY DEF Open
<1>s. ASSUME i \in Open', trades'[i] = trades[i], ~ (pass'.at = "settle" /\ i = Cur')
      PROVE  Stuck'
  BY <1>1, <1>s DEF Stuck
<1>u. UNCHANGED trades => Open' = Open
  BY Zenon DEF Open, Known
<1>4. CASE Close
  <2>1. /\ Open' = Open /\ Cur' = Cur /\ trades[Cur].closed = FALSE
        /\ \A j \in Known : j # Cur => trades'[j] = trades[j]
    BY <1>4, CloseEffect
  <2>2. i # Cur
    BY <1>1, <2>1
  <2> QED BY <1>2, <1>s, <2>1, <2>2
<1>5. CASE Settle
  <2>1. /\ pass.at = "settle" /\ pass'.at = "next" /\ Open' = Open \ {Cur}
        /\ \A j \in Known : j # Cur => trades'[j] = trades[j]
    BY <1>5, SettleEffect
  <2>2. i # Cur
    BY <1>1, <2>1
  <2> QED BY <1>2, <1>s, <2>1, <2>2
<1>11. ASSUME NEW a \in Assets, Register(a) PROVE Stuck'
  <2>1. Known \subseteq Known' /\ \A j \in Known : trades'[j] = trades[j]
    BY <1>11, RegisterEffect
  <2>2. pass'.at = "register"
    BY <1>11 DEF Register
  <2>3. i \in Open'
    BY <1>2, <2>1 DEF Open
  <2> QED BY <1>2, <1>s, <2>1, <2>2, <2>3
<1>x. ASSUME UNCHANGED trades, pass'.at # "settle" PROVE Stuck'
  BY <1>s, <1>u, <1>x
<1>1a. CASE Tick
  BY <1>x, <1>1a DEF Tick, ledger
<1>2a. CASE StartPass
  <2>1. UNCHANGED trades
    BY <1>2a DEF StartPass
  <2>2. pass'.at = "register"
    BY <1>2a, StartPassEffect
  <2> QED BY <1>x, <2>1, <2>2
<1>3a. CASE Registered
  <2>1. UNCHANGED trades /\ pass' = [pass EXCEPT !.at = "next", !.todo = Open]
    BY <1>3a DEF Registered, ledger
  <2>2. pass'.at = "next"
    BY <2>1 DEF Types, PassType, Pass
  <2> QED BY <1>x, <2>1, <2>2
<1>6a. CASE EndPass
  BY <1>x, <1>6a DEF EndPass, Idle
<1>7a. CASE Replay
  <2>1. UNCHANGED trades /\ pass'.at \in {"idle", "next"}
    BY <1>7a, ReplayEffect
  <2> QED BY <1>x, <2>1
<1>8a. ASSUME NEW paid \in BOOLEAN, NEW floats \in BOOLEAN, Fund(paid, floats) PROVE Stuck'
  <2>1. UNCHANGED trades /\ pass'.at = "mark"
    BY <1>8a, FundEffect
  <2> QED BY <1>x, <2>1
<1>9a. ASSUME NEW dead \in BOOLEAN, NEW booked \in BOOLEAN, MarkTrade(dead, booked) PROVE Stuck'
  <2>1. UNCHANGED trades /\ pass'.at = "fate"
    BY <1>9a, MarkEffect
  <2> QED BY <1>x, <2>1
<1>10a. ASSUME NEW delisted \in BOOLEAN, NEW priced \in BOOLEAN, Fate(delisted, priced)
        PROVE Stuck'
  <2>1. UNCHANGED trades /\ pass'.at \in {"close", "next"}
    BY <1>10a, FateEffect DEF ledger
  <2> QED BY <1>x, <2>1
<1>12a. CASE Fail \/ Refused \/ Crash
  <2>1. UNCHANGED trades /\ pass'.at = "idle"
    BY <1>12a, EndsStep, EndsEffect
  <2> QED BY <1>x, <2>1
<1>13a. CASE Boot
  <2>1. UNCHANGED trades /\ pass'.at = "next"
    BY <1>13a, BootEffect
  <2> QED BY <1>x, <2>1
<1>14a. CASE UNCHANGED vars
  <2>1. UNCHANGED <<trades, pass>>
    BY <1>14a DEF vars, ledger
  <2> QED BY <1>1, <1>u, <2>1, Zenon DEF Stuck, Cur
<1> QED BY <1>4, <1>5, <1>11, <1>1a, <1>2a, <1>3a, <1>6a, <1>7a, <1>8a, <1>9a, <1>10a, <1>12a,
           <1>13a, <1>14a, Zenon DEF Next, Step

LEMMA FreshStep == Types /\ DownIdle /\ Dated /\ Fresh /\ [Next]_vars => Fresh'
<1> SUFFICES ASSUME Types, DownIdle, Dated, Fresh, [Next]_vars, ~ Stuck PROVE Fresh'
  BY StuckStays DEF Fresh
<1>l. Later
  BY DEF Fresh
<1>n. pass.todo \subseteq Known
  BY Naturals1
<1>0. ASSUME pass'.todo = {}, pass'.at # "register" PROVE Fresh'
  BY <1>0 DEF Fresh, Later
<1>s. ASSUME UNCHANGED <<trades, marks, pass>> PROVE Fresh'
  <2>1. Known' = Known /\ \A i : Decided(i)' = Decided(i)
    BY <1>s, Zenon DEF Known, Decided, Deciding, Cur
  <2>2. Later'
    BY <1>l, <1>s, <2>1, Zenon DEF Later
  <2> QED BY <2>2 DEF Fresh
<1>g. ASSUME UNCHANGED marks, pass'.no = pass.no, pass'.at # "register",
             \A i \in pass'.todo : i \in pass.todo /\ (Decided(i) => Decided(i)')
      PROVE  Fresh'
  <2>1. \A i \in pass'.todo : marks'[i].pass < pass'.no \/ Decided(i)'
    BY <1>l, <1>g DEF Later
  <2> QED BY <1>g, <2>1 DEF Fresh, Later
<1>1. CASE Tick
  BY <1>s, <1>1 DEF Tick, ledger
<1>2. CASE StartPass
  <2>1. /\ pass'.at = "register" /\ pass'.todo = {}
        /\ pass'.no = Last + 1 \/ Wedged
    BY <1>2, StartPassEffect
  <2>2. UNCHANGED <<trades, marks>> /\ pass.at = "idle"
    BY <1>2 DEF StartPass
  <2>3. pass'.no = Last + 1
    BY <2>1, <2>2, WedgedIsStuck
  <2>4. Last \in Nat /\ DOMAIN passes = 1 .. Last
    BY NextPass
  <2>5. \A i \in Known : marks[i].pass < Last + 1
    BY <2>4, Naturals1 DEF Dated, MarkOf
  <2>6. Known' = Known
    BY <2>2, Zenon DEF Known
  <2> QED BY <2>1, <2>2, <2>3, <2>5, <2>6 DEF Fresh, Later
<1>3. CASE Registered
  <2>1. /\ UNCHANGED marks /\ pass.at = "register"
        /\ pass' = [pass EXCEPT !.at = "next", !.todo = Open]
    BY <1>3 DEF Registered, ledger
  <2>2. pass'.at = "next" /\ pass'.todo = Open /\ pass'.no = pass.no
    BY <2>1 DEF Types, PassType, Pass
  <2>3. \A i \in Open : marks[i].pass < pass.no
    BY <1>l, <2>1 DEF Later, Open
  <2> QED BY <2>1, <2>2, <2>3 DEF Fresh, Later
<1>4. CASE Close
  <2>1. /\ UNCHANGED marks /\ pass'.no = pass.no /\ pass'.at = "settle"
        /\ pass'.todo = pass.todo /\ Cur' = Cur
    BY <1>4, CloseEffect
  <2> QED BY <1>g, <2>1 DEF Decided, Deciding
<1>5. CASE Settle
  <2>1. /\ UNCHANGED marks /\ pass'.no = pass.no /\ pass'.at = "next"
        /\ pass'.todo = pass.todo \ {Cur}
    BY <1>5, SettleEffect
  <2> QED BY <1>g, <2>1 DEF Decided, Deciding
<1>6. CASE EndPass
  BY <1>0, <1>6 DEF EndPass, Idle
<1>7. CASE Replay
  <2>1. /\ UNCHANGED marks
        /\ \/ pass'.at = "idle" /\ pass'.todo = {}
           \/ pass'.at = "next" /\ pass'.todo = Unmarked(pass'.no)
    BY <1>7, ReplayEffect
  <2>2. \A i \in Unmarked(pass'.no) : marks[i].pass < pass'.no
    BY DEF Unmarked
  <2> QED BY <1>0, <2>1, <2>2 DEF Fresh, Later
<1>8. ASSUME NEW paid \in BOOLEAN, NEW floats \in BOOLEAN, Fund(paid, floats) PROVE Fresh'
  <2>1. /\ UNCHANGED marks /\ pass.at = "next" /\ pass'.at = "mark" /\ pass'.no = pass.no
        /\ pass'.todo = pass.todo
    BY <1>8, FundEffect
  <2> QED BY <1>g, <2>1 DEF Decided, Deciding
<1>9. ASSUME NEW dead \in BOOLEAN, NEW booked \in BOOLEAN, MarkTrade(dead, booked) PROVE Fresh'
  <2>1. /\ pass.at = "mark" /\ pass'.at = "fate" /\ pass'.no = pass.no
        /\ pass'.todo = pass.todo /\ Cur' = Cur
        /\ \A j \in Known : j # Cur => marks'[j] = marks[j]
    BY <1>9, MarkEffect
  <2>2. \A i \in pass.todo : i # Cur => marks'[i].pass < pass.no
    BY <1>l, <1>n, <2>1 DEF Later, Decided, Deciding
  <2> QED BY <2>1, <2>2 DEF Fresh, Later, Decided, Deciding
<1>10. ASSUME NEW delisted \in BOOLEAN, NEW priced \in BOOLEAN, Fate(delisted, priced)
       PROVE Fresh'
  <2>1. /\ UNCHANGED marks /\ pass.at = "fate" /\ pass'.no = pass.no
        /\ \/ pass'.at = "close" /\ pass'.todo = pass.todo /\ Cur' = Cur
           \/ pass'.at = "next" /\ pass'.todo = pass.todo \ {Cur}
    BY <1>10, FateEffect DEF ledger
  <2> QED BY <1>g, <2>1 DEF Decided, Deciding
<1>11. ASSUME NEW a \in Assets, Register(a) PROVE Fresh'
  <2> DEFINE i == Cardinality(Known) + 1
  <2>1. /\ Known' = Known \cup {i} /\ marks'[i].pass = 0
        /\ \A j \in Known : marks'[j] = marks[j]
    BY <1>11, RegisterEffect
  <2>2. UNCHANGED pass /\ pass.at = "register"
    BY <1>11 DEF Register
  <2> HIDE DEF i
  <2>3. pass.no > 0 /\ pass.todo = {}
    BY <2>2, Naturals1 DEF Dated, PassOf, Types, Registers
  <2>4. \A j \in Known' : marks'[j].pass < pass.no
    BY <1>l, <2>1, <2>2, <2>3, Naturals1 DEF Later
  <2> QED BY <2>2, <2>3, <2>4 DEF Fresh, Later
<1>12. CASE Fail \/ Refused \/ Crash
  <2>1. pass'.at = "idle" /\ pass'.todo = {}
    BY <1>12, EndsStep, EndsEffect
  <2> QED BY <1>0, <2>1
<1>13. CASE Boot
  <2>1. pass'.at = "next" /\ pass'.todo = {}
    BY <1>13, BootEffect
  <2> QED BY <1>0, <2>1
<1>14. CASE UNCHANGED vars
  BY <1>s, <1>14 DEF vars, ledger
<1> QED BY <1>1, <1>2, <1>3, <1>4, <1>5, <1>6, <1>7, <1>8, <1>9, <1>10, <1>11, <1>12, <1>13,
           <1>14, Zenon DEF Next, Step

\* Only a mark changes the mark of a known trade.
LEMMA OtherMarks ==
    ASSUME Types, [Next]_vars
    PROVE  \/ \A i \in Known : marks'[i] = marks[i]
           \/ \E dead, booked \in BOOLEAN : MarkTrade(dead, booked)
<1>1. CASE Tick \/ StartPass \/ Registered \/ Close \/ Settle \/ EndPass \/ Replay
  <2>1. UNCHANGED marks
    BY <1>1, Zenon DEF Tick, StartPass, Registered, Close, Settle, EndPass, Replay, ledger
  <2> QED BY <2>1
<1>2. ASSUME NEW paid \in BOOLEAN, NEW floats \in BOOLEAN, Fund(paid, floats)
      PROVE  UNCHANGED marks
  BY <1>2, FundEffect
<1>3. ASSUME NEW delisted \in BOOLEAN, NEW priced \in BOOLEAN, Fate(delisted, priced)
      PROVE  UNCHANGED marks
  BY <1>3 DEF Fate, ledger
<1>4. ASSUME NEW a \in Assets, Register(a) PROVE \A i \in Known : marks'[i] = marks[i]
  BY <1>4, RegisterEffect
<1>5. CASE Fail \/ Refused \/ Crash
  BY <1>5, EndsStep, EndsEffect
<1>6. CASE Boot
  BY <1>6, BootEffect
<1>7. CASE UNCHANGED vars
  BY <1>7 DEF vars, ledger
<1> QED BY <1>1, <1>2, <1>3, <1>4, <1>5, <1>6, <1>7, Zenon DEF Next, Step

(* Marks follow the order of the passes, one a pass, whatever is replayed,     *)
(* while no trade has a close row and is open.                                 *)
THEOREM MarksGoForward == Spec => MarksForward
<1>1. Init => DownIdle /\ Fresh
  BY DEF Init, DownIdle, Idle, Fresh, Later
<1>2. Types /\ DownIdle /\ Dated /\ Fresh /\ [Next]_vars
      => (Types /\ DownIdle /\ Dated /\ Fresh)'
  BY StepTypes, DownIdleStep, DatedStep, FreshStep
<1>3. ASSUME Types, Dated, Fresh, [Next]_vars
      PROVE  [~ Wedged => \A i \in Known : marks'[i] # marks[i] =>
                 marks'[i].pass > marks[i].pass /\ marks'[i].at >= marks[i].at]_vars
  <2> SUFFICES ASSUME ~ Wedged, NEW i \in Known, marks'[i] # marks[i]
               PROVE  marks'[i].pass > marks[i].pass /\ marks'[i].at >= marks[i].at
    BY Zenon
  <2>1. PICK dead, booked \in BOOLEAN : MarkTrade(dead, booked)
    BY <1>3, OtherMarks
  <2>2. /\ pass.at = "mark" /\ Cur \in pass.todo
        /\ marks'[Cur].pass = pass.no /\ marks'[Cur].at = pass.time
        /\ \A j \in Known : j # Cur => marks'[j] = marks[j]
    BY <1>3, <2>1, MarkEffect
  <2>3. i = Cur
    BY <2>2
  <2>4. Later
    BY <1>3, StuckIsWedged DEF Fresh
  <2>5. marks[i].pass < pass.no /\ marks[i].at <= pass.time
    BY <1>3, <2>2, <2>3, <2>4 DEF Later, Decided, Deciding, Dated, Ahead
  <2>6. marks[i].pass \in Nat /\ marks[i].at \in Nat /\ pass.no \in Nat /\ pass.time \in Nat
    BY <1>3, Naturals1
  <2> QED BY <2>2, <2>3, <2>5, <2>6
<1> QED BY <1>1, <1>2, <1>3, InitTypes, InitDated, PTL DEF Spec, MarksForward
-----------------------------------------------------------------------------
(* No stored pass is forgotten.                                               *)

\* Past its registrations a pass has left no trade behind that is not on its list,
\* neither of itself nor of a pass before it.
Walking == pass.at \notin {"idle", "register"}
Caught ==
    Walking => \A n \in DOMAIN passes : n <= pass.no => Unmarked(n) \subseteq pass.todo
\* The trade whose fate is looked at has the mark of this pass.
MarkedCur == pass.at \in {"fate", "close", "settle"} => marks[Cur].pass = pass.no
\* A pass that is no replay is the last one stored.
LiveLast ==
    pass.at # "idle" /\ ~ pass.replay => \A n \in DOMAIN passes : n <= pass.no
Swept == Caught /\ MarkedCur /\ LiveLast

LEMMA UnmarkedFewer ==
    ASSUME Types, UNCHANGED passes, Open' \subseteq Open,
           \A i \in Open' : trades'[i].entry = trades[i].entry,
           \A i \in Open' : marks'[i].pass = marks[i].pass,
           NEW n \in DOMAIN passes
    PROVE  Unmarked(n)' \subseteq Unmarked(n)
BY DEF Unmarked

\* A trade that has the mark of a pass is behind with none before it.
LEMMA MarkedNotBehind ==
    ASSUME Types, NEW i \in Known, NEW n \in DOMAIN passes, n <= pass.no,
           marks[i].pass = pass.no
    PROVE  i \notin Unmarked(n)
<1>1. n \in Nat /\ pass.no \in Nat
  BY Naturals1
<1> QED BY <1>1 DEF Unmarked

\* A trade leaves the list marked, or settled.
LEMMA SweptGone ==
    ASSUME Types, Swept, pass.at \in {"fate", "settle"}, Open' \subseteq Open,
           UNCHANGED <<passes, marks>>,
           \A i \in Open' : trades'[i].entry = trades[i].entry,
           pass'.at = "next", pass'.todo = pass.todo \ {Cur}, pass'.no = pass.no,
           pass'.replay = pass.replay
    PROVE  Swept'
<1>1. Cur \in Known
  BY BusyCur DEF Busy
<1>2. ASSUME NEW n \in DOMAIN passes, n <= pass.no PROVE Unmarked(n)' \subseteq pass'.todo
  <2>1. Unmarked(n)' \subseteq Unmarked(n)
    BY UnmarkedFewer
  <2>2. Unmarked(n) \subseteq pass.todo
    BY <1>2 DEF Swept, Caught, Walking
  <2>3. Cur \notin Unmarked(n)
    BY <1>1, <1>2, MarkedNotBehind DEF Swept, MarkedCur
  <2> QED BY <2>1, <2>2, <2>3
<1>3. Caught'
  BY <1>2 DEF Caught
<1>4. MarkedCur' /\ LiveLast'
  BY DEF Swept, MarkedCur, LiveLast
<1> QED BY <1>3, <1>4 DEF Swept

\* A step within one trade.
LEMMA SweptStays ==
    ASSUME Types, Swept, Walking, UNCHANGED <<passes, marks>>, Open' = Open,
           \A i \in Open : trades'[i].entry = trades[i].entry,
           pass'.at \in {"mark", "close", "settle"}, pass'.todo = pass.todo,
           pass'.no = pass.no, pass'.replay = pass.replay, Cur' = Cur,
           pass'.at = "mark" \/ pass.at \in {"fate", "close", "settle"}
    PROVE  Swept'
<1>1. ASSUME NEW n \in DOMAIN passes, n <= pass.no PROVE Unmarked(n)' \subseteq pass'.todo
  <2>1. Unmarked(n)' \subseteq Unmarked(n)
    BY UnmarkedFewer
  <2> QED BY <1>1, <2>1 DEF Swept, Caught
<1>2. Caught'
  BY <1>1 DEF Caught
<1>3. MarkedCur' /\ LiveLast'
  BY DEF Swept, MarkedCur, LiveLast, Walking
<1> QED BY <1>2, <1>3 DEF Swept

LEMMA SweptIdle == pass'.at = "idle" => Swept'
BY DEF Swept, Caught, Walking, MarkedCur, LiveLast

LEMMA SweptMark ==
    ASSUME Types, Swept, NEW dead \in BOOLEAN, NEW booked \in BOOLEAN, MarkTrade(dead, booked)
    PROVE  Swept'
<1>1. /\ pass.at = "mark" /\ pass'.at = "fate" /\ pass'.todo = pass.todo
      /\ pass'.no = pass.no /\ pass'.replay = pass.replay
      /\ Cur' = Cur /\ Cur \in pass.todo /\ marks'[Cur].pass = pass.no
      /\ \A j \in Known : j # Cur => marks'[j] = marks[j]
      /\ UNCHANGED <<trades, passes>>
  BY MarkEffect
<1>2. Open' = Open /\ Open \subseteq Known
  BY <1>1 DEF Open, Known
<1>3. ASSUME NEW n \in DOMAIN passes, n <= pass.no, NEW i \in Unmarked(n)'
      PROVE  i \in pass.todo
  <2>1. i \in Open /\ trades[i].entry < passes[n] /\ marks'[i].pass < n
    BY <1>1, <1>2 DEF Unmarked
  <2>2. CASE i # Cur
    <3>1. i \in Unmarked(n)
      BY <1>1, <1>2, <2>1, <2>2 DEF Unmarked
    <3> QED BY <1>1, <1>3, <3>1 DEF Swept, Caught, Walking
  <2> QED BY <1>1, <2>2
<1>4. Caught'
  BY <1>1, <1>3 DEF Caught
<1>5. MarkedCur' /\ LiveLast'
  BY <1>1 DEF Swept, MarkedCur, LiveLast
<1> QED BY <1>4, <1>5 DEF Swept

\* The backfill passes over a stored pass only if nothing is behind with it.
LEMMA ReplayAll ==
    ASSUME Types, Swept, Replay
    PROVE  Swept' /\ (pass'.at = "idle" => Behind = {})
<1> DEFINE ahead == {m \in Behind : m > pass.no}
           n == Least(ahead)
<1>1. /\ pass.at = "next" /\ pass.replay = TRUE /\ pass.todo = {}
      /\ UNCHANGED <<trades, marks, passes>>
      /\ IF ahead = {} THEN pass' = Idle
         ELSE pass' = [pass EXCEPT !.no = n, !.time = passes[n], !.todo = Unmarked(n)]
  BY DEF Replay, ledger, Types, PassType, Pass
<1>2. \A m \in DOMAIN passes : m <= pass.no => Unmarked(m) = {}
  BY <1>1 DEF Swept, Caught, Walking
<1>3. pass.no \in Nat /\ DOMAIN passes \in SUBSET Nat
  BY Naturals1
<1>4. \A m \in Behind : m \in DOMAIN passes /\ m \in Nat /\ m > pass.no
  BY <1>2, <1>3 DEF Behind
<1>5. CASE ahead = {}
  <2>1. pass' = Idle /\ Behind = {}
    BY <1>1, <1>4, <1>5
  <2> QED BY <2>1, SweptIdle DEF Idle
<1>6. CASE ahead # {}
  <2>1. ahead = Behind /\ ahead \in SUBSET Nat
    BY <1>4
  <2>2. \E i \in ahead : \A j \in ahead : i <= j
    BY <1>6, <2>1, Minimum
  <2>3. n \in ahead /\ \A m \in ahead : n <= m
    BY <2>2, Zenon DEF Least
  <2>4. pass' = [pass EXCEPT !.no = n, !.time = passes[n], !.todo = Unmarked(n)]
    BY <1>1, <1>6
  <2> HIDE DEF n, ahead
  <2>5. n \in Nat /\ n \in DOMAIN passes
    BY <1>4, <2>1, <2>3
  <2>6. /\ pass'.no = n /\ pass'.at = "next" /\ pass'.todo = Unmarked(n)
        /\ pass'.replay = TRUE
    <3> DEFINE todo == Unmarked(n)
               t == passes[n]
    <3>1. pass \in Pass /\ pass' = [pass EXCEPT !.no = n, !.time = t, !.todo = todo]
      BY <2>4 DEF Types, PassType
    <3> HIDE DEF todo, t
    <3>2. /\ pass'.no = n /\ pass'.at = pass.at /\ pass'.todo = todo
          /\ pass'.replay = pass.replay
      BY <3>1 DEF Pass
    <3> QED BY <1>1, <3>2 DEF todo
  <2>7. ASSUME NEW m \in DOMAIN passes, m <= n, m # n PROVE Unmarked(m) = {}
    <3>1. m \in Nat /\ ~ (n <= m)
      BY <1>3, <2>5, <2>7
    <3> QED BY <2>1, <2>3, <3>1, <2>7 DEF Behind
  <2>8. \A m \in DOMAIN passes : Unmarked(m)' = Unmarked(m)
    BY <1>1 DEF Unmarked, Open, Known
  <2>9. Caught'
    BY <1>1, <2>6, <2>7, <2>8 DEF Caught
  <2>10. MarkedCur' /\ LiveLast'
    BY <2>6 DEF MarkedCur, LiveLast
  <2> QED BY <2>6, <2>9, <2>10 DEF Swept
<1> QED BY <1>5, <1>6

LEMMA SweptStep == Types /\ Swept /\ [Next]_vars => Swept'
<1> SUFFICES ASSUME Types, Swept, [Next]_vars PROVE Swept'
  OBVIOUS
<1>o. UNCHANGED trades => Open' = Open
  BY Zenon DEF Open, Known
<1>1. CASE Tick
  <2>1. pass'.at = "idle"
    BY <1>1 DEF Tick
  <2> QED BY <2>1, SweptIdle
<1>2. CASE StartPass
  <2>1. /\ pass'.at = "register" /\ ~ pass'.replay
        /\ \/ pass'.no = Last + 1 /\ DOMAIN passes' = DOMAIN passes \cup {Last + 1}
           \/ pass'.no = Last /\ DOMAIN passes' = DOMAIN passes
    BY <1>2, StartPassEffect
  <2>2. Last \in Nat /\ DOMAIN passes = 1 .. Last
    BY NextPass
  <2>3. \A n \in DOMAIN passes' : n <= pass'.no
    BY <2>1, <2>2
  <2> QED BY <2>1, <2>3 DEF Swept, Caught, Walking, MarkedCur, LiveLast
<1>3. CASE Registered
  <2>1. /\ UNCHANGED <<trades, marks, passes>> /\ pass.at = "register"
        /\ pass' = [pass EXCEPT !.at = "next", !.todo = Open]
    BY <1>3 DEF Registered, ledger
  <2>2. /\ pass'.at = "next" /\ pass'.todo = Open /\ pass'.no = pass.no
        /\ pass'.replay = pass.replay
    BY <2>1 DEF Types, PassType, Pass
  <2>3. \A n : Unmarked(n)' \subseteq Open
    BY <1>o, <2>1 DEF Unmarked
  <2> QED BY <2>1, <2>2, <2>3 DEF Swept, Caught, Walking, MarkedCur, LiveLast
<1>4. CASE Close
  <2>1. /\ pass.at = "close" /\ pass'.at = "settle" /\ pass'.todo = pass.todo
        /\ pass'.no = pass.no /\ pass'.replay = pass.replay /\ Cur' = Cur
        /\ \A j \in Known : trades'[j].entry = trades[j].entry
        /\ Open' = Open
    BY <1>4, CloseEffect
  <2>2. UNCHANGED <<passes, marks>>
    BY <1>4 DEF Close
  <2>3. Open \subseteq Known
    BY DEF Open
  <2> QED BY <2>1, <2>2, <2>3, SweptStays DEF Walking
<1>5. CASE Settle
  <2>1. /\ pass.at = "settle" /\ pass'.at = "next" /\ pass'.todo = pass.todo \ {Cur}
        /\ pass'.no = pass.no /\ pass'.replay = pass.replay
        /\ \A j \in Known : j # Cur => trades'[j] = trades[j]
        /\ Open' = Open \ {Cur}
    BY <1>5, SettleEffect
  <2>2. UNCHANGED <<passes, marks>>
    BY <1>5 DEF Settle
  <2>3. Open \subseteq Known
    BY DEF Open
  <2> QED BY <2>1, <2>2, <2>3, SweptGone
<1>6. CASE EndPass
  BY <1>6, SweptIdle DEF EndPass, Idle
<1>7. CASE Replay
  BY <1>7, ReplayAll
<1>8. ASSUME NEW paid \in BOOLEAN, NEW floats \in BOOLEAN, Fund(paid, floats) PROVE Swept'
  <2>1. /\ UNCHANGED <<marks, trades>> /\ pass.at = "next" /\ pass'.at = "mark"
        /\ pass'.no = pass.no /\ pass'.todo = pass.todo /\ pass'.replay = pass.replay
    BY <1>8, FundEffect
  <2>2. UNCHANGED passes
    BY <1>8 DEF Fund
  <2>3. Cur' = Cur
    BY <2>1 DEF Cur
  <2> QED BY <1>o, <2>1, <2>2, <2>3, SweptStays DEF Walking
<1>9. ASSUME NEW dead \in BOOLEAN, NEW booked \in BOOLEAN, MarkTrade(dead, booked) PROVE Swept'
  BY <1>9, SweptMark
<1>10. ASSUME NEW delisted \in BOOLEAN, NEW priced \in BOOLEAN, Fate(delisted, priced)
       PROVE Swept'
  <2>1. /\ UNCHANGED <<trades, marks, passes>> /\ pass.at = "fate" /\ pass'.no = pass.no
        /\ pass'.replay = pass.replay
        /\ \/ pass'.at = "close" /\ pass'.todo = pass.todo /\ Cur' = Cur
           \/ pass'.at = "next" /\ pass'.todo = pass.todo \ {Cur}
    BY <1>10, FateEffect DEF ledger
  <2>2. CASE pass'.at = "close"
    BY <1>o, <2>1, <2>2, SweptStays DEF Walking
  <2>3. CASE pass'.at = "next"
    BY <1>o, <2>1, <2>3, SweptGone
  <2> QED BY <2>1, <2>2, <2>3
<1>11. ASSUME NEW a \in Assets, Register(a) PROVE Swept'
  <2>1. UNCHANGED <<pass, passes>> /\ pass.at = "register"
    BY <1>11 DEF Register
  <2> QED BY <2>1 DEF Swept, Caught, Walking, MarkedCur, LiveLast
<1>12. CASE Fail \/ Refused \/ Crash
  <2>1. pass'.at = "idle"
    BY <1>12, EndsStep, EndsEffect
  <2> QED BY <2>1, SweptIdle
<1>13. CASE Boot
  <2>1. pass'.at = "next" /\ pass'.no = 0 /\ pass'.replay /\ UNCHANGED passes
    BY <1>13, BootEffect
  <2>2. \A n \in DOMAIN passes : ~ (n <= 0)
    BY Naturals1
  <2> QED BY <2>1, <2>2 DEF Swept, Caught, MarkedCur, LiveLast
<1>14. CASE UNCHANGED vars
  <2>1. UNCHANGED <<trades, marks, passes, pass>>
    BY <1>14 DEF vars, ledger
  <2>2. Cur' = Cur
    BY <2>1 DEF Cur
  <2>3. \A n : Unmarked(n)' = Unmarked(n)
    BY <1>o, <2>1, Zenon DEF Unmarked
  <2> QED BY <2>1, <2>2, <2>3 DEF Swept, Caught, Walking, MarkedCur, LiveLast
<1> QED BY <1>1, <1>2, <1>3, <1>4, <1>5, <1>6, <1>7, <1>8, <1>9, <1>10, <1>11, <1>12, <1>13,
           <1>14, Zenon DEF Next, Step

\* A pass that comes to its end leaves nothing behind.
LEMMA EndsCaught ==
    ASSUME Types, Swept, [Next]_vars, pass.at = "next", pass'.at = "idle", left' = left
    PROVE  Behind' = {}
<1>1. CASE EndPass
  <2>1. pass.todo = {} /\ ~ pass.replay /\ UNCHANGED <<trades, marks, passes>>
    BY <1>1 DEF EndPass
  <2>2. \A n \in DOMAIN passes : Unmarked(n) = {}
    BY <2>1 DEF Swept, Caught, Walking, LiveLast
  <2>3. Behind = {}
    BY <2>2 DEF Behind
  <2> QED BY <2>1, <2>3, Zenon DEF Behind, Unmarked, Open, Known
<1>2. CASE Replay
  <2>1. Behind = {} /\ UNCHANGED <<trades, marks, passes>>
    BY <1>2, ReplayAll DEF Replay, ledger
  <2> QED BY <2>1, Zenon DEF Behind, Unmarked, Open, Known
<1>3. ~ Fail /\ ~ Crash
  <2>1. left \in Nat
    BY DEF Types, OtherTypes
  <2> QED BY <2>1 DEF Fail, Crash
<1>4. ~ Refused /\ ~ Tick /\ ~ StartPass /\ ~ Registered /\ ~ Close /\ ~ Settle /\ ~ UNCHANGED vars
  BY DEF Refused, Tick, StartPass, Registered, Close, Settle, vars
<1>5. /\ \A a \in Assets : ~ Register(a)
      /\ \A dead, booked \in BOOLEAN : ~ MarkTrade(dead, booked)
      /\ \A delisted, priced \in BOOLEAN : ~ Fate(delisted, priced)
  BY DEF Register, MarkTrade, Fate
<1>6. \A paid, floats \in BOOLEAN : ~ Fund(paid, floats)
  BY FundEffect
<1>7. ~ Boot
  BY BootEffect
<1> QED BY <1>1, <1>2, <1>3, <1>4, <1>5, <1>6, <1>7, Zenon DEF Next, Step

(* Whatever writes and processes have failed, a pass or a backfill that comes  *)
(* to its end has given every open trade its mark of each stored pass since    *)
(* its entry, or of a later one.                                               *)
THEOREM PassesCaught == Spec => NoPassForgotten
<1>1. Init => Swept
  BY DEF Init, Idle, Swept, Caught, Walking, MarkedCur, LiveLast
<1>2. Types /\ Swept /\ [Next]_vars => (Types /\ Swept)'
  BY StepTypes, SweptStep
<1>3. Types /\ Swept /\ [Next]_vars
      => [pass.at = "next" /\ pass'.at = "idle" /\ left' = left => Behind' = {}]_vars
  BY EndsCaught
<1> QED BY <1>1, <1>2, <1>3, InitTypes, PTL DEF Spec, NoPassForgotten
=============================================================================
