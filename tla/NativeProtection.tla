--------------------------- MODULE NativeProtection ---------------------------
(***************************************************************************)
(* NativeProtectionManager (src/core/native_protection.py) for one symbol:   *)
(* the stop and take-profit triggers that rest on the exchange while a       *)
(* position is open, and the coroutines that place, replace and cancel them  *)
(* with no lock between them: the fill callbacks, each a task of its own of  *)
(* which several may be suspended at once, the tick handler that trails the  *)
(* stop and closes the position, and the reconciliation pass.                *)
(*                                                                          *)
(* call[t].at names what task t does next.  Sizes are lots and stop prices   *)
(* levels, a higher one closer to the market (long side).  The exchange's    *)
(* set holds the stops; of the target, which is placed after the stop and    *)
(* cancelled with it, only whether its id is known is kept (st.tp).  A new   *)
(* stop has an id that nothing refers to any more.                           *)
(*                                                                          *)
(* cause collects what may have left the open position without its stop      *)
(* since the last stop was accepted:                                         *)
(*   refused    a stop was not accepted                                      *)
(*   overtaken  an answer or a recorded id was used after the orders it      *)
(*              describes had changed, or left a size that no stop has       *)
(*   resized    the last stop, or the stops adopted, were for fewer lots     *)
(*              than the account held: also the stop of a fill callback that *)
(*              replaces the larger one of a later callback                  *)
(*   restart    a restart ended a call in the middle                         *)
(***************************************************************************)
EXTENDS Integers, FiniteSets

CONSTANTS
    Ids,            \* order ids of the exchange
    FillTasks,      \* the tasks of the fill callbacks
    MaxSize,        \* lots of one entry order
    MaxStop,        \* the highest stop level
    MaxEntries, MaxExits, MaxTrails, MaxRestarts,   \* bounds on what starts
    MaxErrors,      \* bound on the exchange calls that fail
    MaxBusy         \* bound on the tasks suspended at the same time

ASSUME BoundsAssumption ==
    /\ MaxSize \in Nat \ {0} /\ MaxStop \in Nat \ {0}
    /\ MaxEntries \in Nat /\ MaxExits \in Nat /\ MaxTrails \in Nat /\ MaxRestarts \in Nat
    /\ MaxErrors \in Nat /\ MaxBusy \in Nat
ASSUME IdsAssumption == 0 \notin Ids
ASSUME TasksAssumption == FillTasks \cap {"tick", "rec"} = {}

VARIABLES
    \* ---- exchange: open lots, resting triggers, lots the entry still waits for
    pos, rest, order,
    \* ---- entry record and book: lots filled, lots applied, book size, stop level
    filled, applied, book, stop,
    trail,          \* _trailing_data: the stop the last peak gave, 0 for none
    st,             \* NativeProtectionManager._by_symbol of the symbol
    call,           \* what each task is suspended at
    snap,           \* the account and the orders the pass has read
    cause,          \* what may have left the position without a stop
    left, errors    \* what may still start, calls that may still fail

exVars == <<pos, rest, order>>
bookVars == <<filled, applied, book, stop, trail>>
vars == <<exVars, bookVars, st, call, snap, cause, left, errors>>

None == 0
Tasks == FillTasks \cup {"tick", "rec"}
Causes == {"refused", "overtaken", "restart", "resized"}
Stop == [id : Ids, size : Nat, px : Nat]
Tracked == [sl : Ids \cup {None}, tp : BOOLEAN, size : Nat, px : Nat]
Call == [at : {"idle", "ensure", "cancelled", "stop", "target", "submit",
               "account", "orders", "compare"},
         op : {"none", "ensure", "close", "drop", "purge"},
         size : Nat, px : Nat, got : Ids \cup {None}]
Idle == [at |-> "idle", op |-> "none", size |-> 0, px |-> 0, got |-> None]
Nothing == [pos |-> 0, orders |-> {}]
EntryStop == 1      \* the level in the metadata of the entry's row
NoStop == [id |-> None, size |-> 0, px |-> 0]
Unknown == [sl |-> None, tp |-> FALSE, size |-> 0, px |-> 0]

TypeOK ==
    /\ pos \in Nat /\ order \in Nat
    /\ rest \subseteq Stop
    /\ filled \in Nat /\ applied \in Nat /\ book \in Nat
    /\ stop \in Nat /\ trail \in Nat
    /\ st \in Tracked
    /\ call \in [Tasks -> Call]
    /\ snap \in [pos : Nat, orders : SUBSET Stop]
    /\ cause \subseteq Causes
    /\ left \in [entries : Nat, exits : Nat, trails : Nat, restarts : Nat] /\ errors \in Nat

Init ==
    /\ pos = 0 /\ rest = {} /\ order = 0
    /\ filled = 0 /\ applied = 0 /\ book = 0 /\ stop = 0 /\ trail = 0
    /\ st = Unknown
    /\ call = [t \in Tasks |-> Idle]
    /\ snap = Nothing
    /\ cause = {}
    /\ left = [entries |-> MaxEntries, exits |-> MaxExits, trails |-> MaxTrails,
               restarts |-> MaxRestarts]
    /\ errors = MaxErrors

-----------------------------------------------------------------------------
(* Helpers.                                                                  *)

Live == {tr.id : tr \in rest}
Known == {st.sl} \ {None}
IdleTask(t) == call[t].at = "idle"
Starts(t) == IdleTask(t) /\ Cardinality({u \in Tasks : ~ IdleTask(u)}) < MaxBusy
Used == Live \cup {st.sl} \cup {tr.id : tr \in snap.orders}
        \cup {call[t].got : t \in Tasks}
FreshId == CHOOSE i \in Ids : i \notin Used

Fault == errors > 0 /\ errors' = errors - 1
Spend(f) == left[f] > 0 /\ left' = [left EXCEPT ![f] = left[f] - 1]
Goto(t, c) == call' = [call EXCEPT ![t] = c]
Ensure(size, px) == [at |-> "ensure", op |-> "ensure", size |-> size, px |-> px, got |-> None]
Cancelled(op) == [Idle EXCEPT !.at = "cancelled", !.op = op]

\* What the reconciler cancels, it takes for what a closed position left.
CutsOpen(ids) == pos > 0 /\ ids \cap Live # {}
Blame(overtaken) == cause' = IF overtaken THEN cause \cup {"overtaken"} ELSE cause

\* A record of a stop that rests, with a size that no resting stop has.
Overrates(s) == s.sl \in Live /\ s.tp /\ \A tr \in rest : tr.size < s.size

-----------------------------------------------------------------------------
(* The exchange.                                                             *)

Enter ==
    /\ Spend("entries")
    /\ pos = 0 /\ order = 0 /\ applied = filled /\ book = 0
    /\ IdleTask("tick")
    /\ order' = MaxSize
    /\ filled' = 0 /\ applied' = 0
    /\ stop' = EntryStop /\ trail' = 0
    /\ UNCHANGED <<pos, rest, book, st, call, snap, cause, errors>>

Fill ==
    /\ order > 0
    /\ pos' = pos + 1
    /\ order' = order - 1
    /\ filled' = filled + 1
    /\ Blame(pos = 0 /\ st.sl # None)
    /\ UNCHANGED <<rest, applied, book, stop, trail, st, call, snap, left, errors>>

\* The rest of the entry order is cancelled or expires.
Expire ==
    /\ order > 0
    /\ order' = 0
    /\ UNCHANGED <<pos, rest, bookVars, st, call, snap, cause, left, errors>>

\* A stop fires: it reduces the position and is gone.  Or the target does, for the
\* lots it was placed for.
Fire(tr) ==
    /\ pos > 0
    /\ pos' = IF tr.size >= pos THEN 0 ELSE pos - tr.size
    /\ rest' = rest \ {tr}
    /\ cause' = IF tr.size < pos THEN cause \cup {"resized"} ELSE cause
    /\ UNCHANGED <<order, bookVars, st, call, snap, left, errors>>

FireTarget ==
    /\ pos > 0 /\ st.tp
    /\ pos' = 0
    /\ rest' = rest
    /\ UNCHANGED <<order, bookVars, st, call, snap, cause, left, errors>>

-----------------------------------------------------------------------------
(* ensure_protection and cancel_protection.  A call takes effect when it is    *)
(* sent; its answer comes in a step of its own, and other tasks run between.  *)

\* _cancel_ids: an error is logged and the loop goes on with the next id.
SendCancels(ids) ==
    \E failed \in SUBSET ids :
        /\ Cardinality(failed) <= errors
        /\ errors' = errors - Cardinality(failed)
        /\ rest' = {tr \in rest : tr.id \notin ids \ failed}

\* place_trigger_order for the stop: accepted, accepted with the answer lost, or
\* refused.
SendStop(t) ==
    LET c == call[t]
        new == [id |-> FreshId, size |-> c.size, px |-> c.px]
        Sent(got) == Goto(t, [c EXCEPT !.at = "stop", !.got = got])
    IN
    /\ \E i \in Ids : i \notin Used
    /\ \/ /\ rest' = rest \cup {new}
          /\ cause' = IF c.size < pos THEN cause \cup {"resized"} ELSE {}
          /\ \/ Sent(new.id) /\ UNCHANGED errors
             \/ Sent(None) /\ Fault
       \/ /\ Sent(None) /\ Fault
          /\ cause' = cause \cup {"refused"}
          /\ UNCHANGED rest

\* Mutant of NeedsReplace: a fill that grows the position replaces nothing.
NeedsReplacePriceOnly(c) == st.sl = None \/ (c.px # 0 /\ st.px # 0 /\ c.px # st.px)

NeedsReplace(c) ==
    \/ st.size # c.size
    \/ c.px # 0 /\ st.px # 0 /\ c.px # st.px

BothKnown == st.sl # None /\ st.tp

EnsureStart(t) ==
    LET c == call[t] IN
    /\ c.at = "ensure"
    /\ \/ /\ ~ NeedsReplace(c) /\ BothKnown
          /\ Goto(t, Idle)
          /\ Blame(st.sl \notin Live)
          /\ UNCHANGED <<rest, errors>>
       \/ /\ ~ NeedsReplace(c) /\ ~ BothKnown
          /\ SendStop(t)
       \/ /\ NeedsReplace(c)
          /\ SendCancels(Known)
          /\ Goto(t, [c EXCEPT !.at = "cancelled"])
          /\ UNCHANGED cause
    /\ UNCHANGED <<pos, order, bookVars, st, snap, left>>

\* The cancels are answered: the manager forgets the ids, whatever the answers,
\* and goes on with what they were cancelled for.
Forget(t) ==
    LET c == call[t] IN
    /\ c.at = "cancelled"
    /\ \/ /\ c.op = "ensure"
          /\ st' = [st EXCEPT !.sl = None, !.tp = FALSE]
          /\ SendStop(t)
       \/ /\ c.op \in {"close", "drop", "purge"}
          /\ st' = [st EXCEPT !.sl = None, !.tp = FALSE, !.size = 0]
          /\ Goto(t, CASE c.op = "close" -> [c EXCEPT !.at = "submit"]
                       [] c.op = "drop" -> Idle
                       [] c.op = "purge" -> [c EXCEPT !.at = "compare"])
          /\ UNCHANGED <<rest, cause, errors>>
    /\ UNCHANGED <<pos, order, bookVars, snap, left>>

\* The stop is answered and the target sent.
StopAnswered(t) ==
    LET c == call[t]
        new == IF c.got = None THEN st ELSE [st EXCEPT !.sl = c.got, !.px = c.px]
    IN
    /\ c.at = "stop"
    /\ st' = new
    /\ Goto(t, [c EXCEPT !.at = "target", !.got = None])
    /\ Blame(c.got \notin Live \cup {None} \/ Overrates(new))
    /\ UNCHANGED <<exVars, bookVars, snap, left, errors>>

\* The target is answered, and the size recorded.
TargetAnswered(t, placed) ==
    LET c == call[t]
        new == [st EXCEPT !.tp = st.tp \/ placed, !.size = c.size]
    IN
    /\ c.at = "target"
    /\ IF placed THEN UNCHANGED errors ELSE Fault
    /\ st' = new
    /\ Goto(t, Idle)
    /\ Blame(Overrates(new))
    /\ UNCHANGED <<exVars, bookVars, snap, left>>

-----------------------------------------------------------------------------
(* What the tasks start.                                                     *)

\* A fill callback, in a task of its own: it applies the fills that no callback before
\* it applied, and goes on to protect the size it has read.
ApplyFill(t) ==
    /\ Starts(t)
    /\ applied < filled
    /\ book' = book + (filled - applied)
    /\ applied' = filled
    /\ Goto(t, Ensure(filled, EntryStop))
    /\ UNCHANGED <<exVars, filled, stop, trail, st, snap, cause, left, errors>>

\* A tick: the peak gives a stop level, the book takes it if it is higher and
\* the trigger follows the level of the peak.
Ratchet(level) ==
    /\ Starts("tick")
    /\ book > 0
    /\ Spend("trails")
    /\ level >= trail /\ level > 1
    /\ trail' = level
    /\ stop' = IF level > stop THEN level ELSE stop
    /\ Goto("tick", Ensure(book, level))
    /\ UNCHANGED <<exVars, filled, applied, book, st, snap, cause, errors>>

\* An exit: the trailing data is forgotten, the triggers are cancelled, then
\* the order is submitted.
StartClose ==
    /\ Starts("tick")
    /\ book > 0
    /\ Spend("exits")
    /\ SendCancels(Known)
    /\ trail' = 0
    /\ Goto("tick", [Cancelled("close") EXCEPT !.size = book, !.px = stop])
    /\ UNCHANGED <<pos, order, filled, applied, book, stop, st, snap, cause>>

\* Mutant of Submit: the account is reduced by the size that was captured.
SubmitUnclamped ==
    LET c == call["tick"] IN
    /\ c.at = "submit"
    /\ pos' = pos - c.size
    /\ book' = 0
    /\ Goto("tick", Idle)
    /\ UNCHANGED <<rest, order, filled, applied, stop, trail, st, snap, cause, left, errors>>

\* _restore_protection_after_failed_close: the position captured at the start is
\* protected.
Restore(c) ==
    /\ Goto("tick", Ensure(c.size, c.px))
    /\ cause' = IF c.size < pos' THEN cause \cup {"resized"} ELSE cause

\* The close fills, and its answer arrives or is lost; or it is refused.  Unless
\* the answer says it filled, the protection is restored.
Submit ==
    LET c == call["tick"] IN
    /\ c.at = "submit"
    /\ \/ /\ pos' = IF c.size >= pos THEN 0 ELSE pos - c.size
          /\ \/ /\ book' = 0
                /\ Goto("tick", Idle)
                /\ UNCHANGED <<cause, errors>>
             \/ /\ Fault
                /\ UNCHANGED book
                /\ Restore(c)
       \/ /\ Fault
          /\ UNCHANGED <<pos, book>>
          /\ Restore(c)
    /\ UNCHANGED <<rest, order, filled, applied, stop, trail, st, snap, left>>

-----------------------------------------------------------------------------
(* The reconciliation pass.                                                  *)

ReadAccount ==
    /\ Starts("rec")
    /\ snap' = [pos |-> pos, orders |-> {}]
    /\ Goto("rec", [Idle EXCEPT !.at = "account"])
    /\ UNCHANGED <<exVars, bookVars, st, cause, left, errors>>

ReadOrders ==
    /\ call["rec"].at = "account"
    /\ snap' = [snap EXCEPT !.orders = rest]
    /\ Goto("rec", [Idle EXCEPT !.at = "orders"])
    /\ UNCHANGED <<exVars, bookVars, st, cause, left, errors>>

MaxOf(S) == CHOOSE n \in S : \A m \in S : n >= m

\* sync_from_open_orders: the last stop of the answer is taken and, when there is
\* one, a target; a symbol without triggers keeps what it had.  Adoption records the
\* same triggers again, and the largest of their sizes and the one recorded.
Sync(last, target, sizes) ==
    /\ snap.orders # {} => last \in snap.orders
    /\ st' = IF snap.orders = {} THEN st
             ELSE [sl |-> last.id, px |-> last.px, tp |-> st.tp \/ target,
                   size |-> MaxOf(sizes \cup {tr.size : tr \in snap.orders})]

\* Mutant of Delivered: only the stop the manager knows is cancelled.
DeliveredKnownOnly ==
    /\ call["rec"].at = "orders"
    /\ IF snap.pos = 0 /\ st.sl # None
       THEN SendCancels(Known) /\ Goto("rec", Cancelled("purge"))
       ELSE Goto("rec", [Idle EXCEPT !.at = "compare"]) /\ UNCHANGED <<rest, errors>>
    /\ UNCHANGED <<pos, order, bookVars, st, snap, cause, left>>

\* The answers arrive: the triggers are recorded, and those of a flat account
\* are cancelled (purge_residual_triggers).
Delivered ==
    /\ call["rec"].at = "orders"
    /\ \E last \in snap.orders \cup {NoStop}, target \in BOOLEAN : Sync(last, target, {})
    /\ LET ids == {tr.id : tr \in snap.orders} IN
       IF snap.pos = 0 /\ ids # {}
       THEN /\ SendCancels(ids)
            /\ Goto("rec", Cancelled("purge"))
            /\ Blame(CutsOpen(ids) \/ ~ snap.orders \subseteq rest)
       ELSE /\ Goto("rec", [Idle EXCEPT !.at = "compare"])
            /\ Blame(~ snap.orders \subseteq rest)
            /\ UNCHANGED <<rest, errors>>
    /\ UNCHANGED <<pos, order, bookVars, snap, left>>

\* The account is flat and the book is not: the fill tape shows how it closed or
\* the book was a phantom, and what the manager knows is cancelled; or the tape
\* shows nothing and the position is suspended.
OrphanLocal ==
    /\ call["rec"].at = "compare"
    /\ book > 0 /\ snap.pos = 0
    /\ book' = 0
    /\ SendCancels(Known)
    /\ Blame(CutsOpen(Known))
    /\ Goto("rec", Cancelled("drop"))
    /\ snap' = Nothing
    /\ UNCHANGED <<pos, order, filled, applied, stop, trail, st, left>>

Suspend ==
    /\ call["rec"].at = "compare"
    /\ book > 0 /\ snap.pos = 0
    /\ book' = 0
    /\ Goto("rec", Idle)
    /\ snap' = Nothing
    /\ UNCHANGED <<exVars, filled, applied, stop, trail, st, cause, left, errors>>

\* The book is empty and the account is not: the position is adopted with the
\* triggers that were read, or protected when there were none.
AdoptStray(last, target) ==
    /\ call["rec"].at = "compare"
    /\ book = 0 /\ snap.pos > 0
    /\ book' = snap.pos
    /\ stop' = EntryStop
    /\ IF snap.orders # {}
       THEN /\ Sync(last, target, {st.size})
            /\ cause' = cause
                 \cup {c \in {"overtaken"} : ~ snap.orders \subseteq rest \/ Overrates(st')}
                 \cup {c \in {"resized"} : \A tr \in snap.orders : tr.size < snap.pos}
            /\ Goto("rec", Idle)
       ELSE /\ Goto("rec", Ensure(snap.pos, EntryStop))
            /\ UNCHANGED <<st, cause>>
    /\ snap' = Nothing
    /\ UNCHANGED <<exVars, filled, applied, trail, left, errors>>

Agree ==
    /\ call["rec"].at = "compare"
    /\ (book > 0) = (snap.pos > 0)
    /\ Goto("rec", Idle)
    /\ snap' = Nothing
    /\ UNCHANGED <<exVars, bookVars, st, cause, left, errors>>

\* A restart: the manager and the trailing data start empty, the book is the
\* snapshot's.  (A restart while an entry fills is OrderManager's.)
Restart ==
    /\ Spend("restarts")
    /\ order = 0 /\ applied = filled
    /\ st' = Unknown /\ trail' = 0
    /\ call' = [t \in Tasks |-> Idle]
    /\ snap' = Nothing
    /\ cause' = IF \A t \in Tasks : IdleTask(t) THEN cause ELSE cause \cup {"restart"}
    /\ UNCHANGED <<exVars, filled, applied, book, stop, errors>>

-----------------------------------------------------------------------------
CallStep(t) ==
    \/ EnsureStart(t) \/ Forget(t) \/ StopAnswered(t)
    \/ \E placed \in BOOLEAN : TargetAnswered(t, placed)

Pass ==
    \/ ReadAccount \/ ReadOrders \/ Delivered
    \/ OrphanLocal \/ Suspend
    \/ \E last \in snap.orders \cup {NoStop}, target \in BOOLEAN : AdoptStray(last, target)
    \/ Agree

Next ==
    \/ Enter \/ Fill \/ Expire \/ (\E tr \in rest : Fire(tr)) \/ FireTarget
    \/ (\E t \in FillTasks : ApplyFill(t))
    \/ \E level \in 1 .. MaxStop : Ratchet(level)
    \/ StartClose \/ Submit
    \/ \E t \in Tasks : CallStep(t)
    \/ Pass
    \/ Restart

Spec == Init /\ [][Next]_vars

\* The event loop runs every coroutine on, and the reconcile loop comes round
\* as long as the process lives.
FairSpec ==
    /\ Spec
    /\ WF_vars(Pass \/ CallStep("rec"))
    /\ \A t \in FillTasks : WF_vars(ApplyFill(t) \/ CallStep(t))
    /\ WF_vars(Submit \/ CallStep("tick"))

-----------------------------------------------------------------------------
(* Properties.                                                               *)

\* Nothing is in flight and the book has every fill.
Quiet == applied = filled /\ \A t \in Tasks : IdleTask(t)

Covered == \E tr \in rest : tr.size >= pos

\* A stop for the whole position rests on the exchange whenever nothing is in
\* flight and the book agrees with the account, unless one of the four causes
\* came up since the last stop was accepted: replacing, trailing and closing never
\* strip a position of its stop by the way the tasks interleave, however many fill
\* callbacks are among them.
StopCovers == (Quiet /\ pos > 0 /\ book = pos /\ cause = {}) => Covered

\* "The position must not remain naked on the exchange" after a close that failed
\* (_restore_protection_after_failed_close): every call about stops was accepted,
\* nothing restarted, the close was tried, and the position has a stop.
FailedCloseCovered ==
    (/\ Quiet /\ pos > 0 /\ book = pos
     /\ left.exits < MaxExits /\ cause \subseteq {"overtaken"}) => rest # {}

\* What rests after the position is gone is purged: stops whose cancel failed,
\* whose id was lost or that were placed while the position closed do not outlive
\* a flat account (purge_residual_triggers, cancel_protection).
ResidualsPurged == []<>(pos > 0 \/ rest = {})
=============================================================================
