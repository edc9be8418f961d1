----------------------- MODULE NativeProtection_proofs -----------------------
(***************************************************************************)
(* The stop of the open position, for any set of fill callbacks and any number *)
(* of lots, levels, entries, exits, trailing steps, restarts and failing calls. *)
(***************************************************************************)
EXTENDS NativeProtection, TLAPS, LeastElement, FiniteSetTheorems

-----------------------------------------------------------------------------
(* Types, variable by variable.                                               *)

PosType == pos \in Nat
OrderType == order \in Nat
RestType == rest \subseteq Stop /\ IsFiniteSet(rest)
\* No more is open or applied than was filled.
FilledType == filled \in Nat /\ applied \in Nat /\ applied <= filled
OpenFilled == pos <= filled
BookType == book \in Nat
LevelsType == stop \in Nat /\ trail \in Nat
StType == st \in Tracked
CallType ==
    /\ call \in [Tasks -> Call]
    /\ \A t \in Tasks : call[t].at = "ensure" => call[t].op = "ensure"
SnapType == snap \in [pos : Nat, orders : SUBSET Stop] /\ IsFiniteSet(snap.orders)
CauseType == cause \subseteq Causes
LeftType == left \in [entries : Nat, exits : Nat, trails : Nat, restarts : Nat]
ErrorsType == errors \in Nat

Types ==
    /\ PosType /\ OrderType /\ RestType /\ FilledType /\ OpenFilled /\ BookType /\ LevelsType
    /\ StType /\ CallType /\ SnapType /\ CauseType /\ LeftType /\ ErrorsType

LEMMA TypesImply == Types => TypeOK
BY DEF Types, TypeOK, PosType, OrderType, RestType, FilledType, BookType, LevelsType, StType,
       CallType, SnapType, CauseType, LeftType, ErrorsType

\* What stays keeps its type.
LEMMA TypesKept ==
    ASSUME Types
    PROVE  /\ UNCHANGED pos => PosType'
           /\ UNCHANGED order => OrderType'
           /\ UNCHANGED rest => RestType'
           /\ UNCHANGED <<filled, applied>> => FilledType'
           /\ UNCHANGED <<pos, filled>> => OpenFilled'
           /\ UNCHANGED book => BookType'
           /\ UNCHANGED <<stop, trail>> => LevelsType'
           /\ UNCHANGED st => StType'
           /\ UNCHANGED call => CallType'
           /\ UNCHANGED snap => SnapType'
           /\ UNCHANGED cause => CauseType'
           /\ UNCHANGED left => LeftType'
           /\ UNCHANGED errors => ErrorsType'
<1>1. UNCHANGED pos => PosType'
  BY DEF Types, PosType
<1>2. UNCHANGED order => OrderType'
  BY DEF Types, OrderType
<1>3. UNCHANGED rest => RestType'
  BY Zenon DEF Types, RestType
<1>4. UNCHANGED <<filled, applied>> => FilledType'
  BY Zenon DEF Types, FilledType
<1>5. UNCHANGED <<pos, filled>> => OpenFilled'
  BY Zenon DEF Types, OpenFilled
<1>6. UNCHANGED book => BookType'
  BY DEF Types, BookType
<1>7. UNCHANGED <<stop, trail>> => LevelsType'
  BY Zenon DEF Types, LevelsType
<1>8. UNCHANGED st => StType'
  BY DEF Types, StType
<1>9. UNCHANGED call => CallType'
  BY Zenon DEF Types, CallType
<1>10. UNCHANGED snap => SnapType'
  BY Zenon DEF Types, SnapType
<1>11. UNCHANGED cause => CauseType'
  BY DEF Types, CauseType
<1>12. UNCHANGED left => LeftType'
  BY DEF Types, LeftType
<1>13. UNCHANGED errors => ErrorsType'
  BY DEF Types, ErrorsType
<1> QED BY <1>1, <1>2, <1>3, <1>4, <1>5, <1>6, <1>7, <1>8, <1>9, <1>10, <1>11, <1>12, <1>13

-----------------------------------------------------------------------------
(* The operators.                                                             *)

\* A finite set of naturals has a largest element: a set without one would have a
\* smaller set without one.
LEMMA Maximum ==
    ASSUME NEW S \in SUBSET Nat, IsFiniteSet(S), S # {}
    PROVE  MaxOf(S) \in S /\ \A m \in S : MaxOf(S) >= m
<1> DEFINE Tops(T) == \E n \in T : \A m \in T : n >= m
           Topless == {n \in Nat : \E T \in SUBSET S : T # {} /\ Cardinality(T) = n /\ ~ Tops(T)}
<1>1. Topless = {}
  <2> SUFFICES ASSUME Topless # {} PROVE FALSE
    OBVIOUS
  <2>1. Topless \in SUBSET Nat
    OBVIOUS
  <2> HIDE DEF Topless
  <2>2. PICK n \in Topless : \A k \in Topless : n <= k
    BY <2>1, Minimum
  <2>3. PICK T \in SUBSET S : T # {} /\ Cardinality(T) = n /\ ~ Tops(T)
    BY <2>2 DEF Topless
  <2>4. PICK x \in T : TRUE
    BY <2>3
  <2> DEFINE U == T \ {x}
  <2>5. IsFiniteSet(T)
    BY FS_Subset
  <2>6. IsFiniteSet(U) /\ Cardinality(U) = n - 1
    BY <2>3, <2>4, <2>5, FS_RemoveElement
  <2>7. n \in Nat /\ Cardinality(U) \in Nat
    BY <2>1, <2>6, FS_CardinalityType
  <2>8. U # {}
    <3> SUFFICES ASSUME U = {} PROVE FALSE
      OBVIOUS
    <3>1. T = {x} /\ x \in Nat
      BY <2>4
    <3>2. x >= x
      BY <3>1
    <3> QED BY <2>3, <2>4, <3>1, <3>2
  <2>9. ~ Tops(U) => Cardinality(U) \in Topless
    <3>1. U \in SUBSET S
      OBVIOUS
    <3> QED BY <2>7, <2>8, <3>1 DEF Topless
  <2>10. Tops(U)
    <3> SUFFICES ASSUME ~ Tops(U) PROVE FALSE
      OBVIOUS
    <3>1. n <= Cardinality(U)
      BY <2>2, <2>9
    <3> QED BY <2>6, <2>7, <3>1
  <2>11. PICK m \in U : \A k \in U : m >= k
    BY <2>10
  <2>12. m \in T /\ m \in Nat /\ x \in Nat
    BY <2>4, <2>11
  <2>13. CASE x >= m
    <3>1. \A k \in T : x >= k
      <4> TAKE k \in T
      <4>1. k \in Nat
        OBVIOUS
      <4>2. k = x \/ m >= k
        BY <2>11
      <4> QED BY <2>12, <2>13, <4>1, <4>2
    <3> QED BY <2>3, <2>4, <3>1
  <2>14. CASE ~ (x >= m)
    <3>1. \A k \in T : m >= k
      <4> TAKE k \in T
      <4>1. k = x \/ m >= k
        BY <2>11
      <4> QED BY <2>12, <2>14, <4>1
    <3> QED BY <2>3, <2>12, <3>1
  <2> QED BY <2>13, <2>14
<1>2. Tops(S)
  <2>1. Cardinality(S) \in Nat
    BY FS_CardinalityType
  <2>2. S \in SUBSET S
    OBVIOUS
  <2> QED BY <1>1, <2>1, <2>2
<1>3. \E n \in S : \A m \in S : n >= m
  BY <1>2
<1> QED BY <1>3, Zenon DEF MaxOf

LEMMA OrderIdsFinite ==
    ASSUME NEW S \in SUBSET Stop, IsFiniteSet(S)
    PROVE  IsFiniteSet({tr.id : tr \in S})
<1> DEFINE T == {tr.id : tr \in S}
           f == [tr \in S |-> tr.id]
<1>1. f \in [S -> T]
  OBVIOUS
<1>2. \A i \in T : \E tr \in S : f[tr] = i
  OBVIOUS
<1>3. f \in Surjection(S, T)
  BY <1>1, <1>2, Zenon DEF Surjection
<1> HIDE DEF f, T
<1>4. IsFiniteSet(T)
  BY <1>3, FS_Surjection
<1> QED BY <1>4 DEF T

LEMMA OrderSizes ==
    ASSUME NEW S \in SUBSET Stop, IsFiniteSet(S), NEW n \in SUBSET Nat, IsFiniteSet(n)
    PROVE  IsFiniteSet(n \cup {tr.size : tr \in S}) /\ n \cup {tr.size : tr \in S} \in SUBSET Nat
<1> DEFINE T == {tr.size : tr \in S}
           f == [tr \in S |-> tr.size]
<1>1. f \in [S -> T]
  OBVIOUS
<1>2. \A i \in T : \E tr \in S : f[tr] = i
  OBVIOUS
<1>3. f \in Surjection(S, T)
  BY <1>1, <1>2, Zenon DEF Surjection
<1>5. T \in SUBSET Nat
  BY DEF Stop
<1> HIDE DEF f, T
<1>4. IsFiniteSet(T)
  BY <1>3, FS_Surjection
<1>6. IsFiniteSet(n \cup T) /\ n \cup T \in SUBSET Nat
  BY <1>4, <1>5, FS_Union
<1> QED BY <1>6 DEF T

LEMMA KnownFinite == IsFiniteSet(Known)
<1>1. IsFiniteSet({st.sl})
  BY FS_Singleton
<1>2. Known \in SUBSET {st.sl}
  BY DEF Known
<1> QED BY <1>1, <1>2, FS_Subset

\* Of an order that is cancelled nothing rests, and nothing new comes up.
LEMMA CancelsEffect ==
    ASSUME Types, NEW ids, IsFiniteSet(ids), SendCancels(ids)
    PROVE  RestType' /\ ErrorsType' /\ rest' \subseteq rest
<1>1. PICK failed \in SUBSET ids :
          /\ Cardinality(failed) <= errors
          /\ errors' = errors - Cardinality(failed)
          /\ rest' = {tr \in rest : tr.id \notin ids \ failed}
  BY DEF SendCancels
<1>2. Cardinality(failed) \in Nat
  <2>1. IsFiniteSet(failed)
    BY FS_Subset
  <2> QED BY <2>1, FS_CardinalityType
<1>3. ErrorsType'
  BY <1>1, <1>2 DEF ErrorsType, Types
<1>4. rest' \in SUBSET rest
  BY <1>1
<1>5. RestType'
  <2>1. rest \subseteq Stop /\ IsFiniteSet(rest)
    BY DEF Types, RestType
  <2>2. IsFiniteSet(rest')
    BY <1>4, <2>1, FS_Subset
  <2> QED BY <1>4, <2>1, <2>2 DEF RestType
<1> QED BY <1>3, <1>4, <1>5

\* If the stop the manager knows still rests, nothing was cancelled.
LEMMA KnownRests ==
    ASSUME SendCancels(Known), \E tr \in rest' : tr.id = st.sl
    PROVE  rest' = rest
<1>1. PICK failed \in SUBSET Known : rest' = {tr \in rest : tr.id \notin Known \ failed}
  BY DEF SendCancels
<1>2. PICK tr \in rest' : tr.id = st.sl
  OBVIOUS
<1>3. st.sl \notin Known \ failed
  BY <1>1, <1>2
<1>4. Known \ failed = {}
  BY <1>3 DEF Known
<1> QED BY <1>1, <1>4

LEMMA FreshIs ==
    ASSUME \E i \in Ids : i \notin Used
    PROVE  FreshId \in Ids /\ FreshId \notin Used
BY Zenon DEF FreshId

LEMMA CallIs ==
    ASSUME Types, NEW t \in Tasks
    PROVE  /\ call[t] \in Call /\ call[t].size \in Nat /\ call[t].px \in Nat
           /\ call[t].at = "ensure" => call[t].op = "ensure"
BY DEF Types, CallType, Call

LEMMA CallSet ==
    ASSUME Types, NEW t \in Tasks, NEW c \in Call, c.at = "ensure" => c.op = "ensure", Goto(t, c)
    PROVE  CallType' /\ call'[t] = c /\ \A u \in Tasks : u # t => call'[u] = call[u]
<1>1. call \in [Tasks -> Call] /\ \A u \in Tasks : call[u].at = "ensure" => call[u].op = "ensure"
  BY DEF Types, CallType
<1>2. call' = [call EXCEPT ![t] = c]
  BY DEF Goto
<1>3. call' \in [Tasks -> Call] /\ call'[t] = c /\ \A u \in Tasks : u # t => call'[u] = call[u]
  BY <1>1, <1>2
<1> QED BY <1>1, <1>3 DEF CallType

LEMMA IdleIs == Idle \in Call /\ Idle.at = "idle"
BY DEF Idle, Call

LEMMA EnsureIs ==
    ASSUME NEW size \in Nat, NEW px \in Nat
    PROVE  /\ Ensure(size, px) \in Call /\ Ensure(size, px).at = "ensure"
           /\ Ensure(size, px).op = "ensure" /\ Ensure(size, px).size = size
BY DEF Ensure, Call

LEMMA CancelledIs ==
    ASSUME NEW op \in {"close", "drop", "purge"}
    PROVE  /\ Cancelled(op) \in Call /\ Cancelled(op).at = "cancelled" /\ Cancelled(op).op = op
BY DEF Cancelled, Idle, Call

LEMMA PlaceIs ==
    ASSUME NEW at \in {"account", "orders", "compare"}
    PROVE  /\ [Idle EXCEPT !.at = at] \in Call /\ [Idle EXCEPT !.at = at].at = at
BY DEF Idle, Call

\* A stop that is sent: if no cause came up it rests and covers the position.
LEMMA SendStopEffect ==
    ASSUME Types, NEW t \in Tasks, SendStop(t)
    PROVE  /\ RestType' /\ CauseType' /\ ErrorsType' /\ CallType'
           /\ call'[t].at = "stop" /\ \A u \in Tasks : u # t => call'[u] = call[u]
           /\ cause' = {} =>
                /\ call[t].size >= pos
                /\ \E tr \in rest' : tr.size = call[t].size
<1> DEFINE c == call[t]
           new == [id |-> FreshId, size |-> c.size, px |-> c.px]
<1>1. c \in Call /\ c.size \in Nat /\ c.px \in Nat
  BY CallIs
<1>2. FreshId \in Ids
  BY FreshIs DEF SendStop
<1>3. new \in Stop /\ new.size = c.size /\ new.id = FreshId
  BY <1>1, <1>2 DEF Stop
<1>4. ErrorsType'
  <2>1. UNCHANGED errors \/ Fault
    BY DEF SendStop
  <2> QED BY <2>1 DEF Fault, ErrorsType, Types
<1>5. \E got \in Ids \cup {None} : Goto(t, [c EXCEPT !.at = "stop", !.got = got])
  BY <1>2, <1>3 DEF SendStop
<1>6. PICK got \in Ids \cup {None} : Goto(t, [c EXCEPT !.at = "stop", !.got = got])
  BY <1>5
<1>7. /\ [c EXCEPT !.at = "stop", !.got = got] \in Call
      /\ [c EXCEPT !.at = "stop", !.got = got].at = "stop"
  BY <1>1 DEF Call
<1>8. CallType' /\ call'[t].at = "stop" /\ \A u \in Tasks : u # t => call'[u] = call[u]
  BY <1>6, <1>7, CallSet
<1>9. CASE rest' = rest \cup {new}
           /\ cause' = IF c.size < pos THEN cause \cup {"resized"} ELSE {}
  <2>1. RestType'
    <3>1. rest \subseteq Stop /\ IsFiniteSet(rest)
      BY DEF Types, RestType
    <3>2. IsFiniteSet(rest \cup {new})
      BY <3>1, FS_AddElement
    <3> HIDE DEF new
    <3>3. rest \cup {new} \subseteq Stop
      BY <1>3, <3>1
    <3> QED BY <1>9, <3>2, <3>3 DEF RestType
  <2>2. CauseType'
    BY <1>9 DEF CauseType, Types, Causes
  <2>3. cause' = {} => c.size >= pos
    BY <1>1, <1>9 DEF Types, PosType
  <2>4. \E tr \in rest' : tr.size = c.size
    BY <1>3, <1>9
  <2> QED BY <1>4, <1>8, <2>1, <2>2, <2>3, <2>4
<1>10. CASE UNCHANGED rest /\ cause' = cause \cup {"refused"}
  <2>1. RestType'
    BY <1>10, TypesKept
  <2>2. CauseType' /\ cause' # {}
    BY <1>10 DEF CauseType, Types, Causes
  <2> QED BY <1>4, <1>8, <2>1, <2>2
<1>11. \/ rest' = rest \cup {new}
          /\ cause' = IF c.size < pos THEN cause \cup {"resized"} ELSE {}
       \/ UNCHANGED rest /\ cause' = cause \cup {"refused"}
  BY DEF SendStop
<1> QED BY <1>9, <1>10, <1>11

LEMMA BlameIs ==
    ASSUME Types, NEW b \in BOOLEAN, Blame(b)
    PROVE  CauseType' /\ (cause' = {} => ~ b /\ cause = {})
BY DEF Blame, CauseType, Types, Causes

-----------------------------------------------------------------------------
(* Every step keeps the types.                                                *)

LEMMA InitTypes == Init => Types
<1> SUFFICES ASSUME Init PROVE Types
  OBVIOUS
<1>1. PosType /\ OrderType /\ FilledType /\ OpenFilled /\ BookType /\ LevelsType
  BY DEF Init, PosType, OrderType, FilledType, OpenFilled, BookType, LevelsType
<1>2. RestType
  BY FS_EmptySet DEF Init, RestType
<1>3. StType
  BY DEF Init, StType, Tracked, Unknown
<1>4. CallType
  BY IdleIs DEF Init, CallType
<1>5. SnapType
  BY FS_EmptySet DEF Init, SnapType, Nothing
<1>6. CauseType
  BY DEF Init, CauseType
<1>7. LeftType /\ ErrorsType
  BY BoundsAssumption DEF Init, LeftType, ErrorsType
<1> QED BY <1>1, <1>2, <1>3, <1>4, <1>5, <1>6, <1>7 DEF Types

LEMMA SpendIs ==
    ASSUME Types, NEW f \in {"entries", "exits", "trails", "restarts"}, Spend(f)
    PROVE  LeftType'
<1>1. left \in [entries : Nat, exits : Nat, trails : Nat, restarts : Nat]
  BY DEF Types, LeftType
<1>2. left[f] \in Nat /\ left[f] > 0
  BY <1>1 DEF Spend
<1>3. left[f] - 1 \in Nat
  BY <1>2
<1>4. left' = [left EXCEPT ![f] = left[f] - 1]
  BY DEF Spend
<1>5. left' \in [entries : Nat, exits : Nat, trails : Nat, restarts : Nat]
  BY <1>1, <1>3, <1>4
<1> QED BY <1>5 DEF LeftType

LEMMA FaultIs == ASSUME Types, Fault PROVE ErrorsType'
BY DEF Fault, ErrorsType, Types

LEMMA EnterTypes == Types /\ Enter => Types'
<1> SUFFICES ASSUME Types, Enter PROVE Types'
  OBVIOUS
<1>1. /\ UNCHANGED pos /\ UNCHANGED rest /\ UNCHANGED book /\ UNCHANGED st /\ UNCHANGED call
      /\ UNCHANGED snap /\ UNCHANGED cause /\ UNCHANGED errors
  BY DEF Enter
<1>2. PosType' /\ RestType' /\ BookType' /\ StType' /\ CallType' /\ SnapType' /\ CauseType'
      /\ ErrorsType'
  BY <1>1, TypesKept
<1>3. OrderType' /\ LevelsType' /\ FilledType'
  BY BoundsAssumption DEF Enter, OrderType, LevelsType, FilledType, EntryStop
<1>4. OpenFilled'
  BY DEF Enter, OpenFilled
<1>5. LeftType'
  BY SpendIs DEF Enter
<1> QED BY <1>2, <1>3, <1>4, <1>5 DEF Types

LEMMA FillTypes == Types /\ Fill => Types'
<1> SUFFICES ASSUME Types, Fill PROVE Types'
  OBVIOUS
<1>1. /\ UNCHANGED rest /\ UNCHANGED book /\ UNCHANGED <<stop, trail>> /\ UNCHANGED st
      /\ UNCHANGED call /\ UNCHANGED snap /\ UNCHANGED left /\ UNCHANGED errors
  BY DEF Fill
<1>2. RestType' /\ BookType' /\ LevelsType' /\ StType' /\ CallType' /\ SnapType' /\ LeftType'
      /\ ErrorsType'
  BY <1>1, TypesKept
<1>3. PosType' /\ OrderType' /\ FilledType' /\ OpenFilled'
  BY DEF Types, Fill, PosType, OrderType, FilledType, OpenFilled
<1>4. CauseType'
  <2>1. CASE pos = 0 /\ st.sl # None
    BY <2>1 DEF Fill, Blame, CauseType, Types, Causes
  <2>2. CASE ~ (pos = 0 /\ st.sl # None)
    BY <2>2 DEF Fill, Blame, CauseType, Types
  <2> QED BY <2>1, <2>2
<1> QED BY <1>2, <1>3, <1>4 DEF Types

LEMMA ExpireTypes == Types /\ Expire => Types'
<1> SUFFICES ASSUME Types, Expire PROVE Types'
  OBVIOUS
<1>1. /\ UNCHANGED pos /\ UNCHANGED rest /\ UNCHANGED <<filled, applied>>
      /\ UNCHANGED <<pos, filled>> /\ UNCHANGED book /\ UNCHANGED <<stop, trail>>
      /\ UNCHANGED st /\ UNCHANGED call /\ UNCHANGED snap /\ UNCHANGED cause
      /\ UNCHANGED left /\ UNCHANGED errors
  BY DEF Expire, bookVars
<1>2. OrderType'
  BY DEF Expire, OrderType
<1> QED BY <1>1, <1>2, TypesKept, Zenon DEF Types

LEMMA FireTypes ==
    ASSUME Types, NEW tr \in rest, Fire(tr)
    PROVE  Types' /\ pos' <= pos
<1>1. /\ UNCHANGED order /\ UNCHANGED <<filled, applied>> /\ UNCHANGED book
      /\ UNCHANGED <<stop, trail>> /\ UNCHANGED st /\ UNCHANGED call /\ UNCHANGED snap
      /\ UNCHANGED left /\ UNCHANGED errors
  BY DEF Fire, bookVars
<1>2. OrderType' /\ FilledType' /\ BookType' /\ LevelsType' /\ StType' /\ CallType' /\ SnapType'
      /\ LeftType' /\ ErrorsType'
  BY <1>1, TypesKept
<1>3. tr \in Stop /\ tr.size \in Nat
  BY DEF Types, RestType, Stop
<1>4. PosType' /\ pos' <= pos
  BY <1>3 DEF Fire, PosType, Types
<1>5. OpenFilled'
  BY <1>1, <1>4 DEF Types, OpenFilled, PosType, FilledType
<1>6. RestType'
  <2>1. rest \subseteq Stop /\ IsFiniteSet(rest)
    BY DEF Types, RestType
  <2>2. rest' \in SUBSET rest
    BY DEF Fire
  <2> QED BY <2>1, <2>2, FS_Subset DEF RestType
<1>7. CauseType'
  BY DEF Fire, CauseType, Types, Causes
<1> QED BY <1>2, <1>4, <1>5, <1>6, <1>7 DEF Types

LEMMA FireTargetTypes == Types /\ FireTarget => Types'
<1> SUFFICES ASSUME Types, FireTarget PROVE Types'
  OBVIOUS
<1>1. /\ UNCHANGED order /\ UNCHANGED rest /\ UNCHANGED <<filled, applied>> /\ UNCHANGED book
      /\ UNCHANGED <<stop, trail>> /\ UNCHANGED st /\ UNCHANGED call /\ UNCHANGED snap
      /\ UNCHANGED cause /\ UNCHANGED left /\ UNCHANGED errors
  BY DEF FireTarget, bookVars
<1>2. PosType' /\ OpenFilled'
  BY <1>1 DEF FireTarget, PosType, OpenFilled, Types, FilledType
<1> QED BY <1>1, <1>2, TypesKept, Zenon DEF Types

LEMMA EnsureStartTypes == ASSUME Types, NEW t \in Tasks, EnsureStart(t) PROVE Types'
<1>1. /\ UNCHANGED pos /\ UNCHANGED order /\ UNCHANGED <<filled, applied>>
      /\ UNCHANGED <<pos, filled>> /\ UNCHANGED book /\ UNCHANGED <<stop, trail>>
      /\ UNCHANGED st /\ UNCHANGED snap /\ UNCHANGED left
  BY DEF EnsureStart, bookVars
<1>2. RestType' /\ CallType' /\ CauseType' /\ ErrorsType'
  <2>1. CASE Goto(t, Idle) /\ Blame(st.sl \notin Live) /\ UNCHANGED <<rest, errors>>
    <3>1. CallType'
      BY <2>1, IdleIs, CallSet
    <3>2. CauseType'
      BY <2>1, BlameIs
    <3>3. UNCHANGED rest /\ UNCHANGED errors
      BY <2>1
    <3> QED BY <3>1, <3>2, <3>3, TypesKept
  <2>2. CASE SendStop(t)
    BY <2>2, SendStopEffect
  <2>3. CASE /\ SendCancels(Known) /\ UNCHANGED cause
             /\ Goto(t, [call[t] EXCEPT !.at = "cancelled"])
    <3>1. RestType' /\ ErrorsType'
      BY <2>3, CancelsEffect, KnownFinite
    <3>2. CauseType'
      BY <2>3, TypesKept
    <3>3. [call[t] EXCEPT !.at = "cancelled"] \in Call
          /\ [call[t] EXCEPT !.at = "cancelled"].at = "cancelled"
      BY CallIs DEF Call
    <3>4. CallType'
      BY <2>3, <3>3, CallSet
    <3> QED BY <3>1, <3>2, <3>4
  <2> QED BY <2>1, <2>2, <2>3, Zenon DEF EnsureStart
<1> QED BY <1>1, <1>2, TypesKept, Zenon DEF Types

\* Where a call goes when its cancels are answered.
After(c) == CASE c.op = "close" -> [c EXCEPT !.at = "submit"]
              [] c.op = "drop" -> Idle
              [] c.op = "purge" -> [c EXCEPT !.at = "compare"]

LEMMA AfterIs ==
    ASSUME NEW c \in Call, c.op \in {"close", "drop", "purge"}
    PROVE  /\ After(c) \in Call /\ After(c).at # "ensure"
           /\ c.op = "close" => After(c).at = "submit"
<1>1. [c EXCEPT !.at = "submit"] \in Call /\ [c EXCEPT !.at = "submit"].at = "submit"
  BY DEF Call
<1>2. [c EXCEPT !.at = "compare"] \in Call /\ [c EXCEPT !.at = "compare"].at = "compare"
  BY DEF Call
<1>3. c.op = "close" => After(c) = [c EXCEPT !.at = "submit"]
  BY DEF After
<1>4. c.op = "drop" => After(c) = Idle
  BY DEF After
<1>5. c.op = "purge" => After(c) = [c EXCEPT !.at = "compare"]
  BY DEF After
<1> QED BY <1>1, <1>2, <1>3, <1>4, <1>5, IdleIs

LEMMA ForgetTypes == ASSUME Types, NEW t \in Tasks, Forget(t) PROVE Types'
<1>1. /\ UNCHANGED pos /\ UNCHANGED order /\ UNCHANGED <<filled, applied>>
      /\ UNCHANGED <<pos, filled>> /\ UNCHANGED book /\ UNCHANGED <<stop, trail>>
      /\ UNCHANGED snap /\ UNCHANGED left
  BY DEF Forget, bookVars
<1>2. RestType' /\ StType' /\ CallType' /\ CauseType' /\ ErrorsType'
  <2>1. CASE st' = [st EXCEPT !.sl = None, !.tp = FALSE] /\ SendStop(t)
    <3>1. RestType' /\ CallType' /\ CauseType' /\ ErrorsType'
      BY <2>1, SendStopEffect
    <3>2. StType'
      BY <2>1 DEF StType, Types, Tracked
    <3> QED BY <3>1, <3>2
  <2>2. CASE /\ call[t].op \in {"close", "drop", "purge"}
             /\ st' = [st EXCEPT !.sl = None, !.tp = FALSE, !.size = 0]
             /\ Goto(t, After(call[t])) /\ UNCHANGED <<rest, cause, errors>>
    <3>1. UNCHANGED rest /\ UNCHANGED cause /\ UNCHANGED errors
      BY <2>2
    <3>2. CallType'
      BY <2>2, AfterIs, CallIs, CallSet
    <3>3. StType'
      <4> DEFINE r == [st EXCEPT !.sl = None, !.tp = FALSE]
      <4>1. r \in Tracked
        BY DEF StType, Types, Tracked
      <4>2. st' = [r EXCEPT !.size = 0]
        BY <2>2, Zenon
      <4> HIDE DEF r
      <4> QED BY <4>1, <4>2 DEF StType, Tracked
    <3> QED BY <3>1, <3>2, <3>3, TypesKept
  <2> QED BY <2>1, <2>2, Zenon DEF Forget, After
<1> QED BY <1>1, <1>2, TypesKept, Zenon DEF Types

LEMMA StopAnsweredTypes == ASSUME Types, NEW t \in Tasks, StopAnswered(t) PROVE Types'
<1>1. /\ UNCHANGED pos /\ UNCHANGED order /\ UNCHANGED rest /\ UNCHANGED <<filled, applied>>
      /\ UNCHANGED <<pos, filled>> /\ UNCHANGED book /\ UNCHANGED <<stop, trail>>
      /\ UNCHANGED snap /\ UNCHANGED left /\ UNCHANGED errors
  BY DEF StopAnswered, exVars, bookVars
<1>2. call[t] \in Call
  BY CallIs
<1>3. StType'
  <2>1. st' = IF call[t].got = None THEN st ELSE [st EXCEPT !.sl = call[t].got, !.px = call[t].px]
    BY DEF StopAnswered
  <2> QED BY <1>2, <2>1 DEF StType, Types, Tracked, Call
<1>4. CallType'
  <2>1. /\ [call[t] EXCEPT !.at = "target", !.got = None] \in Call
        /\ [call[t] EXCEPT !.at = "target", !.got = None].at = "target"
    BY <1>2 DEF Call
  <2>2. Goto(t, [call[t] EXCEPT !.at = "target", !.got = None])
    BY DEF StopAnswered
  <2> QED BY <2>1, <2>2, CallSet
<1>5. CauseType'
  <2>1. PICK b \in BOOLEAN : Blame(b)
    BY Zenon DEF StopAnswered
  <2> QED BY <2>1, BlameIs
<1> QED BY <1>1, <1>3, <1>4, <1>5, TypesKept, Zenon DEF Types

LEMMA TargetAnsweredTypes ==
    ASSUME Types, NEW t \in Tasks, NEW placed \in BOOLEAN, TargetAnswered(t, placed)
    PROVE  Types'
<1>1. /\ UNCHANGED pos /\ UNCHANGED order /\ UNCHANGED rest /\ UNCHANGED <<filled, applied>>
      /\ UNCHANGED <<pos, filled>> /\ UNCHANGED book /\ UNCHANGED <<stop, trail>>
      /\ UNCHANGED snap /\ UNCHANGED left
  BY DEF TargetAnswered, exVars, bookVars
<1>2. call[t].size \in Nat
  BY CallIs
<1>3. StType'
  <2>1. st' = [st EXCEPT !.tp = st.tp \/ placed, !.size = call[t].size]
    BY DEF TargetAnswered
  <2> QED BY <1>2, <2>1 DEF StType, Types, Tracked
<1>4. CallType'
  BY IdleIs, CallSet DEF TargetAnswered
<1>5. CauseType'
  <2>1. PICK b \in BOOLEAN : Blame(b)
    BY Zenon DEF TargetAnswered, Overrates
  <2> QED BY <2>1, BlameIs
<1>6. ErrorsType'
  BY TypesKept, FaultIs DEF TargetAnswered
<1> QED BY <1>1, <1>3, <1>4, <1>5, <1>6, TypesKept, Zenon DEF Types

LEMMA ApplyFillTypes == ASSUME Types, NEW t \in FillTasks, ApplyFill(t) PROVE Types'
<1>1. /\ UNCHANGED pos /\ UNCHANGED order /\ UNCHANGED rest /\ UNCHANGED <<pos, filled>>
      /\ UNCHANGED <<stop, trail>> /\ UNCHANGED st /\ UNCHANGED snap /\ UNCHANGED cause
      /\ UNCHANGED left /\ UNCHANGED errors
  BY DEF ApplyFill, exVars
<1>2. FilledType' /\ BookType'
  BY DEF ApplyFill, FilledType, BookType, Types
<1>3. CallType'
  <2>1. filled \in Nat /\ EntryStop \in Nat
    BY DEF Types, FilledType, EntryStop
  <2>2. Goto(t, Ensure(filled, EntryStop)) /\ t \in Tasks
    BY DEF ApplyFill, Tasks
  <2> QED BY <2>1, <2>2, EnsureIs, CallSet
<1> QED BY <1>1, <1>2, <1>3, TypesKept, Zenon DEF Types

LEMMA RatchetTypes == ASSUME Types, NEW level \in 1 .. MaxStop, Ratchet(level) PROVE Types'
<1>1. /\ UNCHANGED pos /\ UNCHANGED order /\ UNCHANGED rest /\ UNCHANGED <<filled, applied>>
      /\ UNCHANGED <<pos, filled>> /\ UNCHANGED book /\ UNCHANGED st /\ UNCHANGED snap
      /\ UNCHANGED cause /\ UNCHANGED errors
  BY DEF Ratchet, exVars
<1>2. level \in Nat
  BY BoundsAssumption
<1>3. LevelsType'
  BY <1>2 DEF Ratchet, LevelsType, Types
<1>4. LeftType'
  BY SpendIs DEF Ratchet
<1>5. CallType'
  <2>1. book \in Nat
    BY DEF Types, BookType
  <2>2. Goto("tick", Ensure(book, level)) /\ "tick" \in Tasks
    BY DEF Ratchet, Tasks
  <2> QED BY <1>2, <2>1, <2>2, EnsureIs, CallSet
<1> QED BY <1>1, <1>3, <1>4, <1>5, TypesKept, Zenon DEF Types

Closes == [Cancelled("close") EXCEPT !.size = book, !.px = stop]

LEMMA ClosesIs ==
    ASSUME Types
    PROVE  Closes \in Call /\ Closes.at = "cancelled" /\ Closes.op = "close"
<1>1. book \in Nat /\ stop \in Nat
  BY DEF Types, BookType, LevelsType
<1> DEFINE c == Cancelled("close")
<1>2. c \in Call /\ c.at = "cancelled" /\ c.op = "close"
  BY CancelledIs
<1>3. Closes = [c EXCEPT !.size = book, !.px = stop]
  BY DEF Closes
<1> HIDE DEF c
<1> QED BY <1>1, <1>2, <1>3 DEF Call

LEMMA StartCloseTypes == Types /\ StartClose => Types'
<1> SUFFICES ASSUME Types, StartClose PROVE Types'
  OBVIOUS
<1>1. /\ UNCHANGED pos /\ UNCHANGED order /\ UNCHANGED <<filled, applied>>
      /\ UNCHANGED <<pos, filled>> /\ UNCHANGED book /\ UNCHANGED st /\ UNCHANGED snap
      /\ UNCHANGED cause
  BY DEF StartClose
<1>2. RestType' /\ ErrorsType'
  BY CancelsEffect, KnownFinite DEF StartClose
<1>3. LevelsType'
  BY DEF StartClose, LevelsType, Types
<1>4. LeftType'
  BY SpendIs DEF StartClose
<1>5. CallType'
  <2>1. Goto("tick", Closes) /\ "tick" \in Tasks
    BY DEF StartClose, Closes, Tasks
  <2> QED BY <2>1, ClosesIs, CallSet
<1> QED BY <1>1, <1>2, <1>3, <1>4, <1>5, TypesKept, Zenon DEF Types

LEMMA SubmitTypes ==
    ASSUME Types, Submit
    PROVE  Types' /\ pos' <= pos
<1> DEFINE c == call["tick"]
<1>1. /\ UNCHANGED order /\ UNCHANGED rest /\ UNCHANGED <<filled, applied>>
      /\ UNCHANGED <<stop, trail>> /\ UNCHANGED st /\ UNCHANGED snap /\ UNCHANGED left
  BY DEF Submit
<1>2. "tick" \in Tasks /\ c.size \in Nat /\ c.px \in Nat
  BY CallIs DEF Tasks
<1>3. pos' \in Nat /\ pos' <= pos
  <2>1. pos \in Nat
    BY DEF Types, PosType
  <2>2. pos' = pos \/ pos' = IF c.size >= pos THEN 0 ELSE pos - c.size
    BY DEF Submit
  <2> QED BY <1>2, <2>1, <2>2
<1>4. PosType' /\ OpenFilled'
  BY <1>1, <1>3 DEF Types, PosType, OpenFilled, FilledType
<1>5. BookType' /\ ErrorsType'
  <2>1. (book' = 0 \/ UNCHANGED book) /\ (UNCHANGED errors \/ Fault)
    BY DEF Submit
  <2> QED BY <2>1, FaultIs, TypesKept DEF BookType
<1>6. CallType' /\ CauseType'
  <2>1. CASE Goto("tick", Idle) /\ UNCHANGED cause
    BY <1>2, <2>1, IdleIs, CallSet, TypesKept
  <2>2. CASE Restore(c)
    <3>1. CallType'
      BY <1>2, <2>2, EnsureIs, CallSet DEF Restore
    <3>2. CauseType'
      BY <2>2 DEF Restore, CauseType, Types, Causes
    <3> QED BY <3>1, <3>2
  <2>3. (Goto("tick", Idle) /\ UNCHANGED cause) \/ Restore(c)
    BY DEF Submit
  <2> QED BY <2>1, <2>2, <2>3
<1> QED BY <1>1, <1>3, <1>4, <1>5, <1>6, TypesKept, Zenon DEF Types

LEMMA ReadAccountTypes == Types /\ ReadAccount => Types'
<1> SUFFICES ASSUME Types, ReadAccount PROVE Types'
  OBVIOUS
<1>1. /\ UNCHANGED pos /\ UNCHANGED order /\ UNCHANGED rest /\ UNCHANGED <<filled, applied>>
      /\ UNCHANGED <<pos, filled>> /\ UNCHANGED book /\ UNCHANGED <<stop, trail>>
      /\ UNCHANGED st /\ UNCHANGED cause /\ UNCHANGED left /\ UNCHANGED errors
  BY DEF ReadAccount, exVars, bookVars
<1>2. CallType'
  BY PlaceIs, CallSet DEF ReadAccount, Tasks
<1>3. SnapType'
  <2>1. snap' = [pos |-> pos, orders |-> {}] /\ pos \in Nat
    BY DEF ReadAccount, Types, PosType
  <2> QED BY <2>1, FS_EmptySet DEF SnapType
<1> QED BY <1>1, <1>2, <1>3, TypesKept, Zenon DEF Types

LEMMA ReadOrdersTypes == Types /\ ReadOrders => Types'
<1> SUFFICES ASSUME Types, ReadOrders PROVE Types'
  OBVIOUS
<1>1. /\ UNCHANGED pos /\ UNCHANGED order /\ UNCHANGED rest /\ UNCHANGED <<filled, applied>>
      /\ UNCHANGED <<pos, filled>> /\ UNCHANGED book /\ UNCHANGED <<stop, trail>>
      /\ UNCHANGED st /\ UNCHANGED cause /\ UNCHANGED left /\ UNCHANGED errors
  BY DEF ReadOrders, exVars, bookVars
<1>2. CallType'
  BY PlaceIs, CallSet DEF ReadOrders, Tasks
<1>3. SnapType'
  <2>1. snap \in [pos : Nat, orders : SUBSET Stop] /\ rest \subseteq Stop /\ IsFiniteSet(rest)
    BY DEF Types, SnapType, RestType
  <2>2. snap' = [snap EXCEPT !.orders = rest]
    BY DEF ReadOrders
  <2> QED BY <2>1, <2>2 DEF SnapType
<1> QED BY <1>1, <1>2, <1>3, TypesKept, Zenon DEF Types

\* What is recorded of the orders that were read: the size is one that was read, or
\* the one that was given.
LEMMA SyncEffect ==
    ASSUME Types, NEW last \in snap.orders \cup {NoStop}, NEW target \in BOOLEAN,
           NEW sizes \in SUBSET Nat, IsFiniteSet(sizes), Sync(last, target, sizes)
    PROVE  /\ StType'
           /\ snap.orders = {} => st' = st
           /\ snap.orders # {} => st'.size \in sizes \/ \E tr \in snap.orders : tr.size = st'.size
<1>1. snap.orders \in SUBSET Stop /\ IsFiniteSet(snap.orders)
  BY DEF Types, SnapType
<1>2. CASE snap.orders = {}
  BY <1>2, TypesKept DEF Sync
<1>3. CASE snap.orders # {}
  <2> DEFINE S == sizes \cup {tr.size : tr \in snap.orders}
  <2>1. IsFiniteSet(S) /\ S \in SUBSET Nat
    BY <1>1, OrderSizes
  <2>2. S # {}
    BY <1>3
  <2>3. MaxOf(S) \in S
    <3> HIDE DEF S
    <3> QED BY <2>1, <2>2, Maximum
  <2>4. last \in Stop
    BY <1>1, <1>3 DEF Sync
  <2>5. st' = [sl |-> last.id, px |-> last.px, tp |-> st.tp \/ target, size |-> MaxOf(S)]
    BY <1>3 DEF Sync
  <2>6. st' \in Tracked /\ st'.size = MaxOf(S)
    <3>1. MaxOf(S) \in Nat
      BY <2>1, <2>3
    <3> HIDE DEF S
    <3> QED BY <2>4, <2>5, <3>1 DEF Tracked, Stop, StType, Types
  <2>7. st'.size \in sizes \/ \E tr \in snap.orders : tr.size = st'.size
    BY <2>3, <2>6
  <2> QED BY <1>3, <2>6, <2>7 DEF StType
<1> QED BY <1>2, <1>3

LEMMA DeliveredTypes == Types /\ Delivered => Types'
<1> SUFFICES ASSUME Types, Delivered PROVE Types'
  OBVIOUS
<1> DEFINE ids == {tr.id : tr \in snap.orders}
<1>1. /\ UNCHANGED pos /\ UNCHANGED order /\ UNCHANGED <<filled, applied>>
      /\ UNCHANGED <<pos, filled>> /\ UNCHANGED book /\ UNCHANGED <<stop, trail>>
      /\ UNCHANGED snap /\ UNCHANGED left
  BY DEF Delivered, bookVars
<1>2. StType'
  <2>1. PICK last \in snap.orders \cup {NoStop}, target \in BOOLEAN : Sync(last, target, {})
    BY Zenon DEF Delivered
  <2> QED BY <2>1, SyncEffect, FS_EmptySet
<1>3. IsFiniteSet(ids)
  BY OrderIdsFinite DEF Types, SnapType
<1> HIDE DEF ids
<1>4. CASE /\ SendCancels(ids) /\ Goto("rec", Cancelled("purge"))
           /\ Blame(CutsOpen(ids) \/ ~ snap.orders \subseteq rest)
  <2>1. RestType' /\ ErrorsType'
    BY <1>3, <1>4, CancelsEffect
  <2>2. CallType'
    BY <1>4, CancelledIs, CallSet DEF Tasks
  <2>3. CauseType'
    <3>1. PICK b \in BOOLEAN : Blame(b)
      BY <1>4, Zenon DEF CutsOpen
    <3> QED BY <3>1, BlameIs
  <2> QED BY <1>1, <1>2, <2>1, <2>2, <2>3, TypesKept, Zenon DEF Types
<1>5. CASE /\ Goto("rec", [Idle EXCEPT !.at = "compare"])
           /\ Blame(~ snap.orders \subseteq rest) /\ UNCHANGED <<rest, errors>>
  <2>1. UNCHANGED rest /\ UNCHANGED errors
    BY <1>5
  <2>2. CallType'
    BY <1>5, PlaceIs, CallSet DEF Tasks
  <2>3. CauseType'
    BY <1>5, BlameIs
  <2> QED BY <1>1, <1>2, <2>1, <2>2, <2>3, TypesKept, Zenon DEF Types
<1> QED BY <1>4, <1>5, Zenon DEF Delivered, ids

LEMMA NothingIs == ASSUME snap' = Nothing PROVE SnapType'
BY FS_EmptySet DEF SnapType, Nothing

LEMMA OrphanLocalTypes == Types /\ OrphanLocal => Types'
<1> SUFFICES ASSUME Types, OrphanLocal PROVE Types'
  OBVIOUS
<1>1. /\ UNCHANGED pos /\ UNCHANGED order /\ UNCHANGED <<filled, applied>>
      /\ UNCHANGED <<pos, filled>> /\ UNCHANGED <<stop, trail>> /\ UNCHANGED st
      /\ UNCHANGED left
  BY DEF OrphanLocal
<1>2. BookType'
  BY DEF OrphanLocal, BookType
<1>3. RestType' /\ ErrorsType'
  BY CancelsEffect, KnownFinite DEF OrphanLocal
<1>4. CallType'
  BY CancelledIs, CallSet DEF OrphanLocal, Tasks
<1>5. SnapType'
  BY NothingIs DEF OrphanLocal
<1>6. CauseType'
  <2>1. PICK b \in BOOLEAN : Blame(b)
    BY Zenon DEF OrphanLocal, CutsOpen
  <2> QED BY <2>1, BlameIs
<1> QED BY <1>1, <1>2, <1>3, <1>4, <1>5, <1>6, TypesKept, Zenon DEF Types

LEMMA SuspendTypes == Types /\ Suspend => Types'
<1> SUFFICES ASSUME Types, Suspend PROVE Types'
  OBVIOUS
<1>1. /\ UNCHANGED pos /\ UNCHANGED order /\ UNCHANGED rest /\ UNCHANGED <<filled, applied>>
      /\ UNCHANGED <<pos, filled>> /\ UNCHANGED <<stop, trail>> /\ UNCHANGED st
      /\ UNCHANGED cause /\ UNCHANGED left /\ UNCHANGED errors
  BY DEF Suspend, exVars
<1>2. BookType'
  BY DEF Suspend, BookType
<1>3. CallType'
  BY IdleIs, CallSet DEF Suspend, Tasks
<1>4. SnapType'
  BY NothingIs DEF Suspend
<1> QED BY <1>1, <1>2, <1>3, <1>4, TypesKept, Zenon DEF Types

\* What adoption leaves: the triggers that were read, or a call for a stop.
Adopts(last, target) ==
    /\ Sync(last, target, {st.size})
    /\ cause' = cause
         \cup {c \in {"overtaken"} : ~ snap.orders \subseteq rest \/ Overrates(st')}
         \cup {c \in {"resized"} : \A tr \in snap.orders : tr.size < snap.pos}
    /\ Goto("rec", Idle)

LEMMA AdoptStrayTypes ==
    ASSUME Types, NEW last \in snap.orders \cup {NoStop}, NEW target \in BOOLEAN,
           AdoptStray(last, target)
    PROVE  Types'
<1>1. /\ UNCHANGED pos /\ UNCHANGED order /\ UNCHANGED rest /\ UNCHANGED <<filled, applied>>
      /\ UNCHANGED <<pos, filled>> /\ UNCHANGED left /\ UNCHANGED errors
  BY DEF AdoptStray, exVars
<1>2. SnapType'
  BY NothingIs DEF AdoptStray
<1>3. snap.pos \in Nat
  BY DEF Types, SnapType
<1>4. BookType' /\ LevelsType'
  BY <1>3 DEF AdoptStray, BookType, LevelsType, Types, EntryStop
<1>5. CASE snap.orders # {} /\ Adopts(last, target)
  <2>1. st.size \in Nat
    BY DEF Types, StType, Tracked
  <2>2. IsFiniteSet({st.size})
    BY FS_Singleton
  <2>3. StType'
    BY <1>5, <2>1, <2>2, SyncEffect DEF Adopts
  <2>4. CauseType'
    BY <1>5 DEF Adopts, CauseType, Types, Causes
  <2>5. CallType'
    BY <1>5, IdleIs, CallSet DEF Adopts, Tasks
  <2> QED BY <1>1, <1>2, <1>4, <2>3, <2>4, <2>5, TypesKept, Zenon DEF Types
<1>6. CASE Goto("rec", Ensure(snap.pos, EntryStop)) /\ UNCHANGED <<st, cause>>
  <2>1. UNCHANGED st /\ UNCHANGED cause
    BY <1>6
  <2>2. CallType'
    BY <1>3, <1>6, EnsureIs, CallSet DEF Tasks, EntryStop
  <2> QED BY <1>1, <1>2, <1>4, <2>1, <2>2, TypesKept, Zenon DEF Types
<1> QED BY <1>5, <1>6, Zenon DEF AdoptStray, Adopts

LEMMA AgreeTypes == Types /\ Agree => Types'
<1> SUFFICES ASSUME Types, Agree PROVE Types'
  OBVIOUS
<1>1. /\ UNCHANGED pos /\ UNCHANGED order /\ UNCHANGED rest /\ UNCHANGED <<filled, applied>>
      /\ UNCHANGED <<pos, filled>> /\ UNCHANGED book /\ UNCHANGED <<stop, trail>>
      /\ UNCHANGED st /\ UNCHANGED cause /\ UNCHANGED left /\ UNCHANGED errors
  BY DEF Agree, exVars, bookVars
<1>2. CallType'
  BY IdleIs, CallSet DEF Agree, Tasks
<1>3. SnapType'
  BY NothingIs DEF Agree
<1> QED BY <1>1, <1>2, <1>3, TypesKept, Zenon DEF Types

LEMMA RestartTypes == Types /\ Restart => Types'
<1> SUFFICES ASSUME Types, Restart PROVE Types'
  OBVIOUS
<1>1. /\ UNCHANGED pos /\ UNCHANGED order /\ UNCHANGED rest /\ UNCHANGED <<filled, applied>>
      /\ UNCHANGED <<pos, filled>> /\ UNCHANGED book /\ UNCHANGED errors
  BY DEF Restart, exVars
<1>2. LevelsType'
  BY DEF Restart, LevelsType, Types
<1>3. StType'
  BY DEF Restart, StType, Tracked, Unknown
<1>4. CallType'
  BY IdleIs DEF Restart, CallType
<1>5. SnapType'
  BY NothingIs DEF Restart
<1>6. CauseType'
  BY DEF Restart, CauseType, Types, Causes
<1>7. LeftType'
  BY SpendIs DEF Restart
<1> QED BY <1>1, <1>2, <1>3, <1>4, <1>5, <1>6, <1>7, TypesKept, Zenon DEF Types

LEMMA TypesStep == Types /\ [Next]_vars => Types'
<1> SUFFICES ASSUME Types, [Next]_vars PROVE Types'
  OBVIOUS
<1>1. CASE UNCHANGED vars
  <2>1. /\ UNCHANGED pos /\ UNCHANGED order /\ UNCHANGED rest /\ UNCHANGED <<filled, applied>>
        /\ UNCHANGED <<pos, filled>> /\ UNCHANGED book /\ UNCHANGED <<stop, trail>>
        /\ UNCHANGED st /\ UNCHANGED call /\ UNCHANGED snap /\ UNCHANGED cause
        /\ UNCHANGED left /\ UNCHANGED errors
    BY <1>1 DEF vars, exVars, bookVars
  <2> QED BY <2>1, TypesKept, Zenon DEF Types
<1>2. CASE Enter \/ Fill \/ Expire \/ FireTarget
  BY <1>2, EnterTypes, FillTypes, ExpireTypes, FireTargetTypes
<1>3. ASSUME NEW tr \in rest, Fire(tr) PROVE Types'
  BY <1>3, FireTypes
<1>4. CASE StartClose \/ Submit
  BY <1>4, StartCloseTypes, SubmitTypes
<1>10. ASSUME NEW t \in FillTasks, ApplyFill(t) PROVE Types'
  BY <1>10, ApplyFillTypes
<1>5. ASSUME NEW level \in 1 .. MaxStop, Ratchet(level) PROVE Types'
  BY <1>5, RatchetTypes
<1>6. ASSUME NEW t \in Tasks, EnsureStart(t) \/ Forget(t) \/ StopAnswered(t) PROVE Types'
  BY <1>6, EnsureStartTypes, ForgetTypes, StopAnsweredTypes
<1>7. ASSUME NEW t \in Tasks, NEW placed \in BOOLEAN, TargetAnswered(t, placed) PROVE Types'
  BY <1>7, TargetAnsweredTypes
<1>8. CASE ReadAccount \/ ReadOrders \/ Delivered \/ OrphanLocal \/ Suspend \/ Agree \/ Restart
  BY <1>8, ReadAccountTypes, ReadOrdersTypes, DeliveredTypes, OrphanLocalTypes, SuspendTypes,
     AgreeTypes, RestartTypes
<1>9. ASSUME NEW last \in snap.orders \cup {NoStop}, NEW target \in BOOLEAN,
             AdoptStray(last, target)
      PROVE  Types'
  BY <1>9, AdoptStrayTypes
<1> QED
  BY <1>1, <1>2, <1>3, <1>4, <1>5, <1>6, <1>7, <1>8, <1>9, <1>10, Zenon DEF Next, CallStep,
     Pass

\* Every variable keeps its type, for any number of entries, exits, restarts and
\* failing calls: no size goes below zero, whatever closes the position, and every call
\* a task is suspended in is one of ensure_protection, cancel_protection or the pass.
THEOREM TypeCorrect == Spec => []TypeOK
<1>1. Types /\ [Next]_vars => Types'
  BY TypesStep
<1>2. Types => TypeOK
  BY TypesImply
<1> QED BY InitTypes, <1>1, <1>2, PTL DEF Spec

-----------------------------------------------------------------------------
(* The stop of the open position.                                             *)

\* Task t is about to see to the stop: it will place one for the whole position, it
\* has cancelled one to place another, or it closes the position.
Minds(t) ==
    \/ call[t].at = "ensure" /\ call[t].size >= pos
    \/ call[t].at = "cancelled" /\ call[t].op = "ensure"
    \/ t = "tick" /\ \/ call[t].at = "submit"
                     \/ call[t].at = "cancelled" /\ call[t].op = "close"
Waits == applied < filled
Astray == book # pos
Exposed == cause = {} /\ pos > 0

\* While no cause came up, an open position has its stop, or somebody sees to it; and a
\* size that the manager has recorded is that of a stop that rests, or less.
Protected == Exposed => Covered \/ Waits \/ Astray \/ \E t \in Tasks : Minds(t)
Backed == Exposed => ~ Overrates(st)
Guarded == Types /\ Protected /\ Backed

LEMMA GuardedImplies == Guarded => StopCovers
<1> SUFFICES ASSUME Guarded, Quiet, pos > 0, book = pos, cause = {} PROVE Covered
  BY DEF StopCovers
<1>1. Covered \/ Waits \/ Astray \/ \E t \in Tasks : Minds(t)
  BY DEF Guarded, Protected, Exposed
<1>2. ~ Waits
  BY DEF Waits, Quiet, Guarded, Types, FilledType
<1>3. ~ Astray
  BY DEF Astray
<1>4. \A t \in Tasks : ~ Minds(t)
  BY DEF Minds, Quiet, IdleTask
<1> QED BY <1>1, <1>2, <1>3, <1>4

(* What a step has to show.                                                   *)

LEMMA ProtectedStep ==
    ASSUME Protected, Exposed' => Exposed,
           Covered => Covered', Waits => Waits', Astray => Astray',
           \A t \in Tasks : Minds(t) => Minds(t)' \/ Covered'
    PROVE  Protected'
<1> SUFFICES ASSUME Exposed' PROVE Covered' \/ Waits' \/ Astray' \/ \E t \in Tasks : Minds(t)'
  BY DEF Protected
<1>1. Covered \/ Waits \/ Astray \/ \E t \in Tasks : Minds(t)
  BY DEF Protected
<1> QED BY <1>1

LEMMA BackedStep ==
    ASSUME Backed, Exposed' => Exposed, UNCHANGED rest, UNCHANGED st
    PROVE  Backed'
BY DEF Backed, Overrates, Live

LEMMA BackedCancels ==
    ASSUME Backed, Exposed' => Exposed, SendCancels(Known), UNCHANGED st
    PROVE  Backed'
<1> SUFFICES ASSUME Exposed', Overrates(st)' PROVE FALSE
  BY DEF Backed
<1>1. \E tr \in rest' : tr.id = st.sl
  BY DEF Overrates, Live
<1>2. UNCHANGED rest
  BY <1>1, KnownRests
<1>3. Overrates(st)
  BY <1>2 DEF Overrates, Live
<1> QED BY <1>3 DEF Backed

\* A task whose call stays minds the stop as before; so does the account.
LEMMA MindsKept ==
    ASSUME Types, PosType', pos' <= pos, NEW t \in Tasks, call'[t] = call[t], Minds(t)
    PROVE  Minds(t)'
<1>1. call[t].size \in Nat
  BY CallIs
<1> QED BY <1>1 DEF Minds, Types, PosType

LEMMA CoveredKept ==
    ASSUME Types, PosType', pos' <= pos, UNCHANGED rest, Covered
    PROVE  Covered'
<1>1. \A tr \in rest : tr.size \in Nat
  BY DEF Types, RestType, Stop
<1> QED BY <1>1 DEF Covered, Types, PosType

LEMMA SameAccount ==
    ASSUME Types, UNCHANGED pos
    PROVE  PosType' /\ pos' <= pos
BY DEF Types, PosType

LEMMA LedgerKept ==
    ASSUME UNCHANGED <<filled, applied>>, UNCHANGED book, UNCHANGED pos
    PROVE  (Waits => Waits') /\ (Astray => Astray')
BY DEF Waits, Astray

\* One task goes on from a call that did not mind the stop, and nothing else changes.
LEMMA Aside ==
    ASSUME Types, Protected, Backed, Exposed' => Exposed,
           UNCHANGED pos, UNCHANGED rest, UNCHANGED <<filled, applied>>, UNCHANGED book,
           NEW t \in Tasks, ~ Minds(t), \A u \in Tasks : u # t => call'[u] = call[u]
    PROVE  Protected'
<1>1. Covered => Covered'
  BY SameAccount, CoveredKept
<1>2. (Waits => Waits') /\ (Astray => Astray')
  BY LedgerKept
<1>3. \A u \in Tasks : Minds(u) => Minds(u)'
  BY SameAccount, MindsKept
<1> QED BY <1>1, <1>2, <1>3, ProtectedStep

-----------------------------------------------------------------------------
(* Every step leaves the position guarded.                                    *)

LEMMA FillGuards == Guarded /\ Fill => Protected' /\ Backed'
<1> SUFFICES ASSUME Guarded, Fill PROVE Protected' /\ Backed'
  OBVIOUS
<1>1. Waits'
  BY DEF Fill, Waits, Guarded, Types, FilledType
<1>2. Protected'
  BY <1>1 DEF Protected
<1>3. Backed'
  <2> SUFFICES ASSUME Exposed', Overrates(st)' PROVE FALSE
    BY DEF Backed
  <2>1. cause = {} /\ ~ (pos = 0 /\ st.sl # None)
    BY DEF Exposed, Fill, Blame
  <2>2. UNCHANGED rest /\ UNCHANGED st
    BY DEF Fill
  <2>3. Overrates(st)
    BY <2>2 DEF Overrates, Live
  <2>4. st.sl # None
    <3>1. PICK tr \in rest : tr.id = st.sl
      BY <2>3 DEF Overrates, Live
    <3>2. tr.id \in Ids
      BY DEF Guarded, Types, RestType, Stop
    <3> QED BY <3>1, <3>2, IdsAssumption DEF None
  <2>5. pos > 0
    BY <2>1, <2>4 DEF Guarded, Types, PosType
  <2> QED BY <2>1, <2>3, <2>5 DEF Backed, Guarded, Exposed
<1> QED BY <1>2, <1>3

LEMMA FireGuards == ASSUME Guarded, NEW tr \in rest, Fire(tr) PROVE Protected' /\ Backed'
<1>1. ~ Exposed'
  <2>1. tr.size \in Nat /\ pos \in Nat
    BY DEF Guarded, Types, RestType, Stop, PosType
  <2> QED BY <2>1 DEF Fire, Exposed
<1> QED BY <1>1 DEF Protected, Backed

LEMMA FlatGuards == ASSUME ~ (pos' > 0) PROVE Protected' /\ Backed'
BY DEF Protected, Backed, Exposed

LEMMA ExpireGuards == Guarded /\ Expire => Protected' /\ Backed'
<1> SUFFICES ASSUME Guarded, Expire PROVE Protected' /\ Backed'
  OBVIOUS
<1>1. /\ UNCHANGED pos /\ UNCHANGED rest /\ UNCHANGED <<filled, applied>> /\ UNCHANGED book
      /\ UNCHANGED st /\ UNCHANGED call /\ UNCHANGED cause
  BY DEF Expire, bookVars
<1>2. Protected'
  BY <1>1 DEF Guarded, Protected, Exposed, Covered, Waits, Astray, Minds
<1>3. Backed'
  BY <1>1, BackedStep DEF Guarded, Exposed
<1> QED BY <1>2, <1>3

\* The call of ensure_protection: the stop rests already, is sent, or is cancelled to be
\* placed again.
LEMMA EnsureStartGuards ==
    ASSUME Guarded, NEW t \in Tasks, EnsureStart(t)
    PROVE  Protected' /\ Backed'
<1> DEFINE c == call[t]
<1>1. /\ UNCHANGED pos /\ UNCHANGED <<filled, applied>> /\ UNCHANGED book /\ UNCHANGED st
      /\ c.at = "ensure"
  BY DEF EnsureStart, bookVars
<1>t. Types /\ Protected /\ Backed
  BY DEF Guarded
<1>2. PosType' /\ pos' <= pos /\ pos \in Nat
  BY <1>1, <1>t, SameAccount DEF Types, PosType
<1>3. c \in Call /\ c.size \in Nat /\ c.op = "ensure"
  BY <1>1, <1>t, CallIs
<1>4. (Waits => Waits') /\ (Astray => Astray')
  BY <1>1, LedgerKept
<1>5. CASE /\ ~ NeedsReplace(c) /\ BothKnown
           /\ Goto(t, Idle) /\ Blame(st.sl \notin Live) /\ UNCHANGED <<rest, errors>>
  <2>1. UNCHANGED rest
    BY <1>5
  <2>2. Exposed' => Exposed /\ st.sl \in Live
    BY <1>1, <1>5, BlameIs, <1>t DEF Exposed
  <2>3. \A u \in Tasks : u # t => call'[u] = call[u]
    BY <1>5, <1>t, IdleIs, CallSet
  <2>4. Covered => Covered'
    BY <1>2, <1>t, <2>1, CoveredKept
  <2>5. Backed'
    BY <1>1, <1>t, <2>1, <2>2, BackedStep
  <2>6. ASSUME Exposed', Minds(t) PROVE Covered'
    <3>1. c.size >= pos
      BY <1>1, <2>6 DEF Minds
    <3>2. st.size = c.size /\ st.tp
      BY <1>5 DEF NeedsReplace, BothKnown
    <3>3. PICK tr \in rest : ~ (tr.size < st.size)
      BY <1>t, <2>2, <2>6, <3>2 DEF Backed, Overrates
    <3>4. tr.size \in Nat
      BY <1>t DEF Types, RestType, Stop
    <3>5. tr.size >= pos
      BY <1>2, <1>3, <3>1, <3>2, <3>3, <3>4
    <3>6. Covered
      BY <3>5 DEF Covered
    <3> QED BY <2>4, <3>6
  <2>7. Protected'
    <3> SUFFICES ASSUME Exposed' PROVE Protected'
      BY DEF Protected
    <3>1. \A u \in Tasks : Minds(u) => Minds(u)' \/ Covered'
      BY <1>2, <1>t, <2>3, <2>6, MindsKept
    <3> QED BY <1>4, <1>t, <2>2, <2>4, <3>1, ProtectedStep
  <2> QED BY <2>5, <2>7
<1>6. CASE ~ NeedsReplace(c) /\ SendStop(t)
  <2>1. Exposed' => c.size >= pos /\ \E tr \in rest' : tr.size = c.size
    BY <1>6, <1>t, SendStopEffect DEF Exposed
  <2>2. Exposed' => Covered'
    BY <1>1, <2>1 DEF Covered
  <2>3. Protected'
    BY <2>2 DEF Protected
  <2>4. Backed'
    <3> SUFFICES ASSUME Exposed', Overrates(st)' PROVE FALSE
      BY DEF Backed
    <3>1. PICK tr \in rest' : tr.size = c.size
      BY <2>1
    <3>2. tr.size < st.size
      BY <1>1 DEF Overrates
    <3>3. st.size = c.size
      BY <1>6 DEF NeedsReplace
    <3> QED BY <1>3, <3>1, <3>2, <3>3
  <2> QED BY <2>3, <2>4
<1>7. CASE /\ SendCancels(Known) /\ UNCHANGED cause
           /\ Goto(t, [c EXCEPT !.at = "cancelled"])
  <2>1. Exposed' => Exposed
    BY <1>1, <1>7 DEF Exposed
  <2>2. Backed'
    BY <1>1, <1>7, <1>t, <2>1, BackedCancels
  <2>3. /\ [c EXCEPT !.at = "cancelled"] \in Call
        /\ [c EXCEPT !.at = "cancelled"].at = "cancelled"
        /\ [c EXCEPT !.at = "cancelled"].op = "ensure"
    BY <1>3 DEF Call
  <2>4. call'[t].at = "cancelled" /\ call'[t].op = "ensure"
    BY <1>7, <1>t, <2>3, CallSet
  <2>5. Minds(t)'
    BY <2>4 DEF Minds
  <2> QED BY <2>2, <2>5 DEF Protected
<1> QED BY <1>5, <1>6, <1>7, Zenon DEF EnsureStart

LEMMA ForgetGuards ==
    ASSUME Guarded, NEW t \in Tasks, Forget(t)
    PROVE  Protected' /\ Backed'
<1>1. /\ UNCHANGED pos /\ UNCHANGED <<filled, applied>> /\ UNCHANGED book
      /\ call[t].at = "cancelled"
  BY DEF Forget, bookVars
<1>t. Types /\ Protected /\ Backed
  BY DEF Guarded
<1>2. call[t] \in Call
  BY <1>t, CallIs
<1>3. Backed'
  <2>1. st'.sl = None
    BY <1>t DEF Forget, Types, StType, Tracked
  <2>2. RestType'
    BY <1>t, ForgetTypes DEF Types
  <2>3. st'.sl \notin Live'
    BY <2>1, <2>2, IdsAssumption DEF Live, RestType, Stop, None
  <2> QED BY <2>3 DEF Backed, Overrates
<1>4. CASE SendStop(t)
  <2>1. Exposed' => call[t].size >= pos /\ \E tr \in rest' : tr.size = call[t].size
    BY <1>4, <1>t, SendStopEffect DEF Exposed
  <2>2. Exposed' => Covered'
    BY <1>1, <2>1 DEF Covered
  <2> QED BY <1>3, <2>2 DEF Protected
<1>5. CASE /\ call[t].op \in {"close", "drop", "purge"}
           /\ Goto(t, After(call[t])) /\ UNCHANGED <<rest, cause, errors>>
  <2>1. Exposed' => Exposed
    BY <1>1, <1>5 DEF Exposed
  <2>2. /\ \A u \in Tasks : u # t => call'[u] = call[u]
        /\ call'[t] = After(call[t])
    BY <1>2, <1>5, <1>t, AfterIs, CallSet
  <2>3. Covered => Covered'
    <3>1. UNCHANGED rest
      BY <1>5
    <3> QED BY <1>1, <1>t, <3>1, SameAccount, CoveredKept
  <2>4. Minds(t) => Minds(t)'
    <3>1. Minds(t) => t = "tick" /\ call[t].op = "close"
      BY <1>1, <1>5 DEF Minds
    <3>2. call[t].op = "close" => call'[t].at = "submit"
      BY <1>2, <1>5, <2>2, AfterIs
    <3> QED BY <3>1, <3>2 DEF Minds
  <2>5. \A u \in Tasks : Minds(u) => Minds(u)'
    BY <1>1, <1>t, <2>2, <2>4, SameAccount, MindsKept
  <2>6. (Waits => Waits') /\ (Astray => Astray')
    BY <1>1, LedgerKept
  <2>7. Protected'
    BY <1>t, <2>1, <2>3, <2>5, <2>6, ProtectedStep
  <2> QED BY <1>3, <2>7
<1> QED BY <1>4, <1>5, Zenon DEF Forget, After

LEMMA StopAnsweredGuards ==
    ASSUME Guarded, NEW t \in Tasks, StopAnswered(t)
    PROVE  Protected' /\ Backed'
<1>1. /\ UNCHANGED pos /\ UNCHANGED rest /\ UNCHANGED <<filled, applied>> /\ UNCHANGED book
      /\ call[t].at = "stop"
  BY DEF StopAnswered, exVars, bookVars
<1>t. Types /\ Protected /\ Backed
  BY DEF Guarded
<1> DEFINE new == IF call[t].got = None THEN st
                  ELSE [st EXCEPT !.sl = call[t].got, !.px = call[t].px]
<1>2. st' = new
  BY DEF StopAnswered
<1>3. Exposed' => Exposed /\ ~ Overrates(new)
  <2>1. Blame(call[t].got \notin Live \cup {None} \/ Overrates(new))
    BY DEF StopAnswered
  <2> HIDE DEF new
  <2>2. cause' = {} => cause = {} /\ ~ Overrates(new)
    BY <2>1 DEF Blame
  <2> QED BY <1>1, <2>2 DEF Exposed
<1> HIDE DEF new
<1>4. Backed'
  <2>1. Overrates(st)' <=> Overrates(new)
    BY <1>1, <1>2 DEF Overrates, Live
  <2> QED BY <1>3, <2>1 DEF Backed
<1>5. \A u \in Tasks : u # t => call'[u] = call[u]
  <2>1. call' = [call EXCEPT ![t] = [call[t] EXCEPT !.at = "target", !.got = None]]
    BY DEF StopAnswered, Goto
  <2> QED BY <1>t, <2>1 DEF Types, CallType
<1>6. ~ Minds(t)
  BY <1>1 DEF Minds
<1>7. Protected'
  BY <1>1, <1>t, <1>3, <1>5, <1>6, Aside
<1> QED BY <1>4, <1>7

LEMMA TargetAnsweredGuards ==
    ASSUME Guarded, NEW t \in Tasks, NEW placed \in BOOLEAN, TargetAnswered(t, placed)
    PROVE  Protected' /\ Backed'
<1>1. /\ UNCHANGED pos /\ UNCHANGED rest /\ UNCHANGED <<filled, applied>> /\ UNCHANGED book
      /\ call[t].at = "target"
  BY DEF TargetAnswered, exVars, bookVars
<1>t. Types /\ Protected /\ Backed
  BY DEF Guarded
<1> DEFINE new == [st EXCEPT !.tp = st.tp \/ placed, !.size = call[t].size]
<1>2. st' = new
  BY DEF TargetAnswered
<1>3. Exposed' => Exposed /\ ~ Overrates(new)
  <2>1. Blame(Overrates(new))
    BY DEF TargetAnswered
  <2> HIDE DEF new
  <2>2. cause' = {} => cause = {} /\ ~ Overrates(new)
    BY <2>1 DEF Blame
  <2> QED BY <1>1, <2>2 DEF Exposed
<1> HIDE DEF new
<1>4. Backed'
  <2>1. Overrates(st)' <=> Overrates(new)
    BY <1>1, <1>2 DEF Overrates, Live
  <2> QED BY <1>3, <2>1 DEF Backed
<1>5. \A u \in Tasks : u # t => call'[u] = call[u]
  BY <1>t, IdleIs, CallSet DEF TargetAnswered
<1>6. ~ Minds(t)
  BY <1>1 DEF Minds
<1>7. Protected'
  BY <1>1, <1>t, <1>3, <1>5, <1>6, Aside
<1> QED BY <1>4, <1>7

LEMMA ApplyFillGuards ==
    ASSUME Guarded, NEW t \in FillTasks, ApplyFill(t)
    PROVE  Protected' /\ Backed'
<1>1. /\ UNCHANGED pos /\ UNCHANGED rest /\ UNCHANGED st /\ UNCHANGED cause
      /\ Goto(t, Ensure(filled, EntryStop)) /\ t \in Tasks
  BY DEF ApplyFill, exVars, Tasks
<1>2. filled \in Nat /\ EntryStop \in Nat /\ pos \in Nat /\ pos <= filled
  BY DEF Guarded, Types, FilledType, EntryStop, PosType, OpenFilled
<1>3. call'[t].at = "ensure" /\ call'[t].size = filled
  BY <1>1, <1>2, EnsureIs, CallSet DEF Guarded
<1>4. Minds(t)'
  BY <1>1, <1>2, <1>3 DEF Minds
<1>5. Protected'
  BY <1>1, <1>4 DEF Protected
<1>6. Backed'
  BY <1>1, BackedStep DEF Guarded, Exposed
<1> QED BY <1>5, <1>6

LEMMA RatchetGuards ==
    ASSUME Guarded, NEW level \in 1 .. MaxStop, Ratchet(level)
    PROVE  Protected' /\ Backed'
<1>1. /\ UNCHANGED pos /\ UNCHANGED rest /\ UNCHANGED <<filled, applied>> /\ UNCHANGED book
      /\ UNCHANGED st /\ UNCHANGED cause
      /\ Goto("tick", Ensure(book, level)) /\ "tick" \in Tasks /\ call["tick"].at = "idle"
  BY DEF Ratchet, exVars, Tasks, Starts, IdleTask
<1>t. Types /\ Protected /\ Backed
  BY DEF Guarded
<1>2. level \in Nat /\ book \in Nat
  BY <1>t, BoundsAssumption DEF Types, BookType
<1>3. \A u \in Tasks : u # "tick" => call'[u] = call[u]
  BY <1>1, <1>2, <1>t, EnsureIs, CallSet
<1>4. ~ Minds("tick")
  BY <1>1 DEF Minds
<1>5. Exposed' => Exposed
  BY <1>1 DEF Exposed
<1>6. Protected'
  BY <1>1, <1>t, <1>3, <1>4, <1>5, Aside
<1>7. Backed'
  BY <1>1, <1>t, <1>5, BackedStep
<1> QED BY <1>6, <1>7

LEMMA StartCloseGuards == Guarded /\ StartClose => Protected' /\ Backed'
<1> SUFFICES ASSUME Guarded, StartClose PROVE Protected' /\ Backed'
  OBVIOUS
<1>1. /\ UNCHANGED pos /\ UNCHANGED st /\ UNCHANGED cause /\ SendCancels(Known)
      /\ Goto("tick", Closes) /\ "tick" \in Tasks
  BY DEF StartClose, Closes, Tasks
<1>2. call'["tick"].at = "cancelled" /\ call'["tick"].op = "close"
  BY <1>1, ClosesIs, CallSet DEF Guarded
<1>3. Minds("tick")'
  BY <1>2 DEF Minds
<1>4. Protected'
  BY <1>1, <1>3 DEF Protected
<1>5. Backed'
  BY <1>1, BackedCancels DEF Guarded, Exposed
<1> QED BY <1>4, <1>5

LEMMA SubmitGuards == Guarded /\ Submit => Protected' /\ Backed'
<1> SUFFICES ASSUME Guarded, Submit PROVE Protected' /\ Backed'
  OBVIOUS
<1> DEFINE c == call["tick"]
<1>t. Types /\ Protected /\ Backed
  BY DEF Guarded
<1>1. UNCHANGED rest /\ UNCHANGED st /\ "tick" \in Tasks
  BY DEF Submit, Tasks
<1>2. pos' \in Nat /\ pos \in Nat /\ pos' <= pos /\ c.size \in Nat /\ c.px \in Nat
  BY <1>1, <1>t, SubmitTypes, CallIs DEF Types, PosType
<1>3. CASE book' = 0 /\ UNCHANGED cause
  <2>1. Exposed' => Exposed
    BY <1>2, <1>3 DEF Exposed
  <2>2. Exposed' => Astray'
    BY <1>2, <1>3 DEF Exposed, Astray
  <2>3. Protected'
    BY <2>2 DEF Protected
  <2> QED BY <1>1, <1>t, <2>1, <2>3, BackedStep
<1>4. CASE Restore(c)
  <2>1. cause' = {} => cause = {} /\ ~ (c.size < pos')
    BY <1>4 DEF Restore
  <2>2. Exposed' => Exposed
    BY <1>2, <2>1 DEF Exposed
  <2>3. call'["tick"].at = "ensure" /\ call'["tick"].size = c.size
    BY <1>1, <1>2, <1>4, <1>t, EnsureIs, CallSet DEF Restore
  <2>4. Exposed' => Minds("tick")'
    BY <1>2, <2>1, <2>3 DEF Minds, Exposed
  <2>5. Protected'
    BY <1>1, <2>4 DEF Protected
  <2> QED BY <1>1, <1>t, <2>2, <2>5, BackedStep
<1>5. (book' = 0 /\ UNCHANGED cause) \/ Restore(c)
  BY DEF Submit
<1> QED BY <1>3, <1>4, <1>5

\* The steps of the pass that change nothing but what it has read and where it is.
LEMMA ReadGuards ==
    ASSUME Guarded, ReadAccount \/ ReadOrders \/ Agree
    PROVE  Protected' /\ Backed'
<1>t. Types /\ Protected /\ Backed
  BY DEF Guarded
<1>1. /\ UNCHANGED pos /\ UNCHANGED rest /\ UNCHANGED <<filled, applied>> /\ UNCHANGED book
      /\ UNCHANGED st /\ UNCHANGED cause /\ "rec" \in Tasks
  BY DEF ReadAccount, ReadOrders, Agree, exVars, bookVars, Tasks
<1>2. call["rec"].at \in {"idle", "account", "compare"}
  BY DEF ReadAccount, ReadOrders, Agree, Starts, IdleTask
<1>3. ~ Minds("rec")
  BY <1>2 DEF Minds
<1>4. \E c \in Call : Goto("rec", c) /\ c.at # "ensure"
  BY PlaceIs, IdleIs DEF ReadAccount, ReadOrders, Agree
<1>5. \A u \in Tasks : u # "rec" => call'[u] = call[u]
  BY <1>1, <1>4, <1>t, CallSet
<1>6. Exposed' => Exposed
  BY <1>1 DEF Exposed
<1>7. Protected'
  BY <1>1, <1>t, <1>3, <1>5, <1>6, Aside
<1>8. Backed'
  BY <1>1, <1>t, <1>6, BackedStep
<1> QED BY <1>7, <1>8

\* What a pass records is of orders that rest, and the orders it cancels are not the
\* open position's, or it is to blame.
LEMMA DeliveredGuards == Guarded /\ Delivered => Protected' /\ Backed'
<1> SUFFICES ASSUME Guarded, Delivered, Exposed' PROVE Protected' /\ Backed'
  BY DEF Protected, Backed
<1> DEFINE ids == {tr.id : tr \in snap.orders}
<1>t. Types /\ Protected /\ Backed
  BY DEF Guarded
<1>1. /\ UNCHANGED pos /\ UNCHANGED <<filled, applied>> /\ UNCHANGED book
      /\ call["rec"].at = "orders" /\ "rec" \in Tasks
  BY DEF Delivered, bookVars, Tasks
<1>2. /\ snap.orders = {} => st' = st
      /\ snap.orders # {} => \E tr \in snap.orders : tr.size = st'.size
  <2>1. PICK last \in snap.orders \cup {NoStop}, target \in BOOLEAN : Sync(last, target, {})
    BY Zenon DEF Delivered
  <2> QED BY <1>t, <2>1, SyncEffect, FS_EmptySet
<1>3. CASE /\ ids # {} /\ Blame(CutsOpen(ids) \/ ~ snap.orders \subseteq rest)
  <2>1. snap.orders \subseteq rest /\ ~ CutsOpen(ids)
    BY <1>3 DEF Blame, Exposed
  <2>2. ids \cap Live # {}
    BY <1>3, <2>1 DEF Live
  <2>3. ~ (pos > 0)
    <3> HIDE DEF ids
    <3> QED BY <2>1, <2>2 DEF CutsOpen
  <2> QED BY <1>1, <2>3 DEF Exposed
<1>4. CASE /\ Goto("rec", [Idle EXCEPT !.at = "compare"])
           /\ Blame(~ snap.orders \subseteq rest) /\ UNCHANGED <<rest, errors>>
  <2>1. UNCHANGED rest /\ snap.orders \subseteq rest /\ cause = {}
    BY <1>4 DEF Blame, Exposed
  <2>2. Exposed
    BY <1>1, <2>1 DEF Exposed
  <2>3. Backed'
    <3>1. CASE snap.orders = {}
      BY <1>2, <1>t, <2>1, <2>2, <3>1, BackedStep
    <3>2. CASE snap.orders # {}
      <4>1. PICK tr \in snap.orders : tr.size = st'.size
        BY <1>2, <3>2
      <4>2. tr \in rest' /\ ~ (tr.size < st'.size)
        <5>1. tr.size \in Nat
          BY <1>t, <2>1 DEF Types, RestType, Stop
        <5> QED BY <2>1, <4>1, <5>1
      <4>3. ~ Overrates(st)'
        BY <4>2 DEF Overrates
      <4> QED BY <4>3 DEF Backed
    <3> QED BY <3>1, <3>2
  <2>4. \A u \in Tasks : u # "rec" => call'[u] = call[u]
    BY <1>1, <1>4, <1>t, PlaceIs, CallSet
  <2>5. ~ Minds("rec")
    BY <1>1 DEF Minds
  <2>6. Protected'
    BY <1>1, <1>t, <2>1, <2>2, <2>4, <2>5, Aside
  <2> QED BY <2>3, <2>6
<1> HIDE DEF ids
<1>5. \/ ids # {} /\ Blame(CutsOpen(ids) \/ ~ snap.orders \subseteq rest)
      \/ /\ Goto("rec", [Idle EXCEPT !.at = "compare"])
         /\ Blame(~ snap.orders \subseteq rest) /\ UNCHANGED <<rest, errors>>
  BY Zenon DEF Delivered, ids
<1> QED BY <1>3, <1>4, <1>5

\* The book is emptied: it no longer agrees with an account that is not flat.
LEMMA OrphanGuards ==
    ASSUME Guarded, OrphanLocal \/ Suspend
    PROVE  Protected' /\ Backed'
<1>t. Types /\ Protected /\ Backed
  BY DEF Guarded
<1>1. UNCHANGED pos /\ UNCHANGED st /\ book' = 0
  BY DEF OrphanLocal, Suspend, exVars
<1>2. Exposed' => Astray'
  BY <1>1, <1>t DEF Exposed, Astray, Types, PosType
<1>3. Protected'
  BY <1>2 DEF Protected
<1>4. Exposed' => Exposed
  BY <1>1 DEF OrphanLocal, Suspend, Blame, Exposed
<1>5. SendCancels(Known) \/ UNCHANGED rest
  BY DEF OrphanLocal, Suspend, exVars
<1>6. Backed'
  BY <1>1, <1>t, <1>4, <1>5, BackedStep, BackedCancels
<1> QED BY <1>3, <1>6

LEMMA AdoptGuards ==
    ASSUME Guarded, NEW last \in snap.orders \cup {NoStop}, NEW target \in BOOLEAN,
           AdoptStray(last, target)
    PROVE  Protected' /\ Backed'
<1>t. Types /\ Protected /\ Backed
  BY DEF Guarded
<1>1. UNCHANGED pos /\ UNCHANGED rest /\ book' = snap.pos /\ "rec" \in Tasks
  BY DEF AdoptStray, exVars, Tasks
<1>2. snap.pos \in Nat /\ pos \in Nat
  BY <1>t DEF Types, SnapType, PosType
<1>3. CASE snap.orders # {} /\ Adopts(last, target)
  <2>1. cause' = {} => snap.orders \subseteq rest /\ ~ Overrates(st')
    BY <1>3 DEF Adopts
  <2>2. cause' = {} => \E tr \in snap.orders : ~ (tr.size < snap.pos)
    BY <1>3 DEF Adopts
  <2>3. Backed'
    <3>1. Overrates(st)' <=> Overrates(st')
      BY <1>1 DEF Overrates, Live
    <3> QED BY <2>1, <3>1 DEF Backed, Exposed
  <2>4. Protected'
    <3> SUFFICES ASSUME Exposed', ~ Astray' PROVE Covered'
      BY DEF Protected
    <3>1. PICK tr \in snap.orders : ~ (tr.size < snap.pos)
      BY <2>2 DEF Exposed
    <3>2. tr \in rest
      BY <2>1 DEF Exposed
    <3>3. tr.size \in Nat /\ pos = snap.pos
      BY <1>1, <1>t, <3>2 DEF Types, RestType, Stop, Astray
    <3>4. tr.size >= pos
      BY <1>2, <3>1, <3>3
    <3> QED BY <1>1, <3>2, <3>4 DEF Covered
  <2> QED BY <2>3, <2>4
<1>4. CASE Goto("rec", Ensure(snap.pos, EntryStop)) /\ UNCHANGED <<st, cause>>
  <2>1. UNCHANGED st /\ UNCHANGED cause
    BY <1>4
  <2>2. Exposed' => Exposed
    BY <1>1, <2>1 DEF Exposed
  <2>3. Backed'
    BY <1>1, <1>t, <2>1, <2>2, BackedStep
  <2>4. call'["rec"].at = "ensure" /\ call'["rec"].size = snap.pos
    BY <1>1, <1>2, <1>4, <1>t, EnsureIs, CallSet DEF EntryStop
  <2>5. ~ Astray' => Minds("rec")'
    BY <1>1, <1>2, <2>4 DEF Astray, Minds
  <2>6. Protected'
    BY <1>1, <2>5 DEF Protected
  <2> QED BY <2>3, <2>6
<1> QED BY <1>3, <1>4, Zenon DEF AdoptStray, Adopts

\* A restart that ends no call takes nobody away who sees to the stop.
LEMMA RestartGuards == Guarded /\ Restart => Protected' /\ Backed'
<1> SUFFICES ASSUME Guarded, Restart PROVE Protected' /\ Backed'
  OBVIOUS
<1>t. Types /\ Protected /\ Backed
  BY DEF Guarded
<1>1. /\ UNCHANGED pos /\ UNCHANGED rest /\ UNCHANGED <<filled, applied>> /\ UNCHANGED book
      /\ st' = Unknown
  BY DEF Restart, exVars
<1>2. cause' = {} => cause = {} /\ \A t \in Tasks : call[t].at = "idle"
  BY DEF Restart, IdleTask
<1>3. Backed'
  <2>1. Unknown.tp = FALSE
    BY DEF Unknown
  <2> QED BY <1>1, <2>1 DEF Backed, Overrates
<1>4. Protected'
  <2> SUFFICES ASSUME Exposed' PROVE Protected'
    BY DEF Protected
  <2>1. Exposed /\ \A t \in Tasks : ~ Minds(t)
    BY <1>1, <1>2 DEF Exposed, Minds
  <2>2. (Waits => Waits') /\ (Astray => Astray')
    BY <1>1, LedgerKept
  <2>3. Covered => Covered'
    BY <1>1, <1>t, SameAccount, CoveredKept
  <2> QED BY <1>t, <2>1, <2>2, <2>3, ProtectedStep
<1> QED BY <1>3, <1>4

LEMMA InitGuards == Init => Guarded
<1> SUFFICES ASSUME Init PROVE Guarded
  OBVIOUS
<1>1. ~ Exposed
  BY DEF Init, Exposed
<1> QED BY <1>1, InitTypes DEF Guarded, Protected, Backed

LEMMA GuardedStep == Guarded /\ [Next]_vars => Guarded'
<1> SUFFICES ASSUME Guarded, [Next]_vars PROVE Guarded'
  OBVIOUS
<1>t. Types'
  BY TypesStep DEF Guarded
<1> SUFFICES Protected' /\ Backed'
  BY <1>t DEF Guarded
<1>1. CASE UNCHANGED vars
  <2>1. /\ UNCHANGED pos /\ UNCHANGED rest /\ UNCHANGED <<filled, applied>> /\ UNCHANGED book
        /\ UNCHANGED st /\ UNCHANGED call /\ UNCHANGED cause
    BY <1>1 DEF vars, exVars, bookVars
  <2>2. Protected'
    BY <2>1 DEF Guarded, Protected, Exposed, Covered, Waits, Astray, Minds
  <2>3. Backed'
    BY <2>1, BackedStep DEF Guarded, Exposed
  <2> QED BY <2>2, <2>3
<1>2. CASE Enter \/ FireTarget
  <2>1. ~ (pos' > 0)
    BY <1>2 DEF Enter, FireTarget
  <2> QED BY <2>1, FlatGuards
<1>3. CASE Fill \/ Expire
  BY <1>3, FillGuards, ExpireGuards
<1>4. ASSUME NEW tr \in rest, Fire(tr) PROVE Protected' /\ Backed'
  BY <1>4, FireGuards
<1>5. CASE StartClose \/ Submit
  BY <1>5, StartCloseGuards, SubmitGuards
<1>11. ASSUME NEW t \in FillTasks, ApplyFill(t) PROVE Protected' /\ Backed'
  BY <1>11, ApplyFillGuards
<1>6. ASSUME NEW level \in 1 .. MaxStop, Ratchet(level) PROVE Protected' /\ Backed'
  BY <1>6, RatchetGuards
<1>7. ASSUME NEW t \in Tasks, EnsureStart(t) \/ Forget(t) \/ StopAnswered(t)
      PROVE  Protected' /\ Backed'
  BY <1>7, EnsureStartGuards, ForgetGuards, StopAnsweredGuards
<1>8. ASSUME NEW t \in Tasks, NEW placed \in BOOLEAN, TargetAnswered(t, placed)
      PROVE  Protected' /\ Backed'
  BY <1>8, TargetAnsweredGuards
<1>9. CASE ReadAccount \/ ReadOrders \/ Agree \/ Delivered \/ OrphanLocal \/ Suspend \/ Restart
  BY <1>9, ReadGuards, DeliveredGuards, OrphanGuards, RestartGuards
<1>10. ASSUME NEW last \in snap.orders \cup {NoStop}, NEW target \in BOOLEAN,
              AdoptStray(last, target)
       PROVE  Protected' /\ Backed'
  BY <1>10, AdoptGuards
<1> QED
  BY <1>1, <1>2, <1>3, <1>4, <1>5, <1>6, <1>7, <1>8, <1>9, <1>10, <1>11, Zenon
  DEF Next, CallStep, Pass

\* Whatever the tick handler, the reconciliation pass, any number of fill callbacks, the
\* exchange and the restarts interleave, and for any number of lots, a position in rest has a stop for all of it unless one of the four causes came
\* up since the last stop was accepted (ensure_protection, cancel_protection,
\* _restore_protection_after_failed_close and the reconciliation pass).
THEOREM PositionsCovered == Spec => []StopCovers
<1>1. Guarded /\ [Next]_vars => Guarded'
  BY GuardedStep
<1>2. Guarded => StopCovers
  BY GuardedImplies
<1> QED BY InitGuards, <1>1, <1>2, PTL DEF Spec
=============================================================================
