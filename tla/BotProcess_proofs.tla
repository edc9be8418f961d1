-------------------------- MODULE BotProcess_proofs --------------------------
(***************************************************************************)
(* Mutual exclusion by the lock file, for every set of process numbers: as    *)
(* long as nobody has removed the lock file of a bot that holds it, a bot     *)
(* that holds the lock is the creator of the file that is there.              *)
(***************************************************************************)
EXTENDS BotProcess, TLAPS, FiniteSetTheorems

ProcType == proc \in [Pids -> [at : Places, seen : Pids \cup {None}]]
LockType == lock \in File \cup {None}

\* The wrapper has restarts left while it goes on, and goes on while it has a child.
SupType ==
    /\ sup \in Supervisor
    /\ ~ sup.over => sup.crashes < MaxRestarts
    /\ sup.child # None => ~ sup.over

RestType ==
    /\ log \in {"fresh", "stale"}
    /\ alerted \in BOOLEAN /\ watch \in {"idle", "saved"}
    /\ paged \in BOOLEAN /\ spent \in BOOLEAN /\ raced \in BOOLEAN
    /\ left \in 0 .. MaxEvents

Locked == ~ raced => \A p \in Pids : At(p) \in Holding => lock # None /\ lock.owner = p

IInv == ProcType /\ LockType /\ SupType /\ RestType /\ Locked

(* The supervisor is well formed after a process ends, whatever its exit code. *)
LEMMA EndedType ==
    ASSUME SupType, NEW p \in Pids, NEW code \in {0, 1},
           sup' = Ended(p, code)
    PROVE  SupType'
<1> USE BoundsAssumption, PidsAssumption
<1>1. CASE sup.child # p
  BY <1>1 DEF SupType, Ended
<1>2. CASE sup.child = p /\ sup.kind = "pm2"
  BY <1>2 DEF SupType, Ended, Supervisor
<1>3. CASE sup.child = p /\ sup.kind # "pm2"
  <2>1. p # None /\ ~ sup.over /\ sup.crashes < MaxRestarts
    BY <1>3 DEF SupType
  <2>2. CASE code = 0
    BY <1>3, <2>1, <2>2 DEF SupType, Ended, Counted, Supervisor
  <2>3. CASE code # 0
    <3>1. sup.crashes + 1 \in 0 .. MaxRestarts
      BY <2>1 DEF SupType, Supervisor
    <3>2. sup' = [sup EXCEPT !.child = None, !.crashes = sup.crashes + 1,
                             !.over = sup.crashes + 1 >= MaxRestarts]
      BY <1>3, <2>3 DEF Ended, Counted
    <3>3. sup.kind \in {"pm2", "wrapper"} /\ sup.over \in BOOLEAN
      BY DEF SupType, Supervisor
    <3>4. /\ sup'.kind = sup.kind /\ sup'.child = None
          /\ sup'.crashes = sup.crashes + 1
          /\ sup'.over = (sup.crashes + 1 >= MaxRestarts)
          /\ sup' = [kind |-> sup'.kind, child |-> sup'.child,
                     crashes |-> sup'.crashes, over |-> sup'.over]
      BY <3>2 DEF SupType, Supervisor
    <3>5. sup'.over \in BOOLEAN
      BY <3>4
    <3>6. sup' \in Supervisor
      BY <3>1, <3>3, <3>4, <3>5 DEF Supervisor
    <3>7. ~ (sup.crashes + 1 >= MaxRestarts) => sup.crashes + 1 < MaxRestarts
      BY <3>1
    <3>8. ~ sup'.over => sup'.crashes < MaxRestarts
      BY <3>4, <3>7, Zenon
    <3> QED BY <3>4, <3>6, <3>8 DEF SupType
  <2> QED BY <2>2, <2>3
<1> QED BY <1>1, <1>2, <1>3

(* A process that moves without reaching or leaving the lock keeps the types. *)
LEMMA GoType ==
    ASSUME ProcType, NEW p \in Pids, NEW place \in Places, Go(p, place)
    PROVE  ProcType' /\ \A q \in Pids : At(q)' = IF q = p THEN place ELSE At(q)
BY DEF ProcType, Go, At

LEMMA ExitType ==
    ASSUME ProcType, SupType, NEW p \in Pids, NEW code \in {0, 1}, Exit(p, code)
    PROVE  /\ ProcType' /\ SupType'
           /\ \A q \in Pids : At(q)' = IF q = p THEN "none" ELSE At(q)
<1>1. SupType'
  BY EndedType DEF Exit
<1> QED BY <1>1 DEF Exit, ProcType, NoProcess, At, Places

(* Nobody starts to hold the lock and the file stays as it is.                *)
LEMMA LockedKept ==
    ASSUME Locked, UNCHANGED <<lock, raced>>,
           \A q \in Pids : At(q)' \in Holding => At(q) \in Holding
    PROVE  Locked'
BY DEF Locked

LEMMA InitInv == Init => IInv
<1> SUFFICES ASSUME Init PROVE IInv
  OBVIOUS
<1> USE BoundsAssumption DEF Init
<1>1. ProcType /\ LockType
  BY DEF ProcType, LockType, NoProcess, Places
<1>2. SupType
  <2>1. /\ sup.kind \in {"pm2", "wrapper"} /\ sup.child = None /\ sup.crashes = 0
        /\ sup = [kind |-> sup.kind, child |-> sup.child,
                  crashes |-> sup.crashes, over |-> sup.over]
    OBVIOUS
  <2>2. sup.over = FALSE
    OBVIOUS
  <2>3. 0 \in 0 .. MaxRestarts /\ 0 < MaxRestarts
    OBVIOUS
  <2>4. sup \in Supervisor
    BY <2>1, <2>2, <2>3 DEF Supervisor
  <2> QED BY <2>1, <2>2, <2>3, <2>4 DEF SupType
<1>3. RestType
  <2>1. left \in 0 .. MaxEvents
    OBVIOUS
  <2> QED BY <2>1, Zenon DEF RestType
<1>4. Locked
  BY DEF Locked, At, NoProcess, Holding
<1> QED BY <1>1, <1>2, <1>3, <1>4 DEF IInv

(* What each part keeps when the variables it is about do not change.          *)
LEMMA SupKept == SupType /\ UNCHANGED sup => SupType'
BY DEF SupType

LEMMA LockKept == LockType /\ UNCHANGED lock => LockType'
BY DEF LockType

(* An event is taken from those that are left.                                *)
LEMMA EventType == RestType /\ Event => left' \in 0 .. MaxEvents
BY BoundsAssumption DEF RestType, Event

(* Time, the watchdog and the messages it sends touch neither lock nor bots.   *)
LEMMA WatcherStep ==
    ASSUME IInv, LogAges \/ Check \/ Notify \/ Lose
    PROVE  IInv'
<1> USE DEF IInv
<1>1. UNCHANGED <<proc, lock, sup, raced>>
  BY DEF LogAges, Check, Notify, Lose, files
<1>2. ProcType' /\ LockType' /\ SupType'
  BY <1>1 DEF ProcType, LockType, SupType
<1>3. Locked'
  BY <1>1 DEF Locked, At
<1>4. left' \in 0 .. MaxEvents
  BY EventType DEF LogAges, Check, Notify, Lose, RestType
<1>5. RestType'
  <2>1. CASE LogAges
    BY <1>4, <2>1, Zenon DEF LogAges, RestType, watcher
  <2>2. CASE Check
    BY <1>4, <2>2, Zenon DEF Check, RestType, files
  <2>3. CASE Notify
    BY <1>4, <2>3, Zenon DEF Notify, RestType, files
  <2>4. CASE Lose
    BY <1>4, <2>4, Zenon DEF Lose, RestType, files
  <2> QED BY <2>1, <2>2, <2>3, <2>4
<1> QED BY <1>2, <1>3, <1>5

(* A process starts, by its supervisor or by hand.                            *)
LEMMA LaunchStep ==
    ASSUME IInv, NEW p \in Pids, Start(p) \/ StartByHand(p)
    PROVE  IInv'
<1> USE DEF IInv
<1>1. Launch(p)
  BY DEF Start, StartByHand
<1>2. ProcType' /\ \A q \in Pids : At(q)' = IF q = p THEN "exists" ELSE At(q)
  BY <1>1, GoType DEF Launch, Places, Acquiring
<1>3. LockType'
  BY <1>1, LockKept DEF Launch
<1>4. SupType'
  <2>1. CASE Start(p)
    <3>1. sup' = [sup EXCEPT !.child = p] /\ ~ sup.over
      BY <2>1 DEF Start
    <3> QED BY <3>1 DEF SupType, Supervisor
  <2>2. CASE StartByHand(p)
    BY <2>2, SupKept DEF StartByHand
  <2> QED BY <2>1, <2>2
<1>5. RestType'
  <2>1. left' \in 0 .. MaxEvents
    BY EventType DEF Start, StartByHand, RestType
  <2> QED BY <1>1, <2>1, Zenon DEF Launch, RestType, watcher
<1>6. Locked'
  BY <1>1, <1>2, LockedKept DEF Launch, Holding
<1> QED BY <1>2, <1>3, <1>4, <1>5, <1>6

(* The steps before the lock file is created neither hold nor release it, and  *)
(* an unlink that frees the file of a bot that holds it is recorded.           *)
LEMMA LookStep ==
    ASSUME IInv, NEW p \in Pids, Exists(p) \/ Read(p)
    PROVE  IInv'
<1> USE DEF IInv
<1>1. UNCHANGED <<lock, log, sup, watcher, raced, left>>
  BY DEF Exists, Read, files
<1>2. LockType' /\ SupType' /\ RestType'
  BY <1>1, Zenon DEF LockType, SupType, RestType, watcher
<1>3. CASE Exists(p)
  <2>1. PICK place \in {"create", "read"} : Go(p, place)
    BY <1>3 DEF Exists
  <2>2. ProcType' /\ \A q \in Pids : At(q)' = IF q = p THEN place ELSE At(q)
    BY <2>1, GoType DEF Places, Acquiring
  <2>3. Locked'
    BY <1>1, <2>2, LockedKept DEF Holding
  <2> QED BY <1>2, <2>2, <2>3
<1>4. CASE Read(p)
  <2>1. PICK to \in [at : {"probe", "unlink"}, seen : Pids \cup {None}] :
            proc' = [proc EXCEPT ![p] = to]
    <3> DEFINE to == IF lock # None /\ lock.written
                     THEN [at |-> "probe", seen |-> lock.owner]
                     ELSE [at |-> "unlink", seen |-> None]
    <3>1. lock # None => lock.owner \in Pids
      BY DEF LockType, File
    <3>2. to \in [at : {"probe", "unlink"}, seen : Pids \cup {None}]
      BY <3>1
    <3>3. proc' = [proc EXCEPT ![p] = to]
      BY <1>4 DEF Read
    <3> QED BY <3>2, <3>3
  <2>2. ProcType' /\ \A q \in Pids : At(q)' \in Holding => At(q) \in Holding
    BY <2>1 DEF ProcType, Places, Acquiring, Holding, At
  <2>3. Locked'
    BY <1>1, <2>2, LockedKept
  <2> QED BY <1>2, <2>2, <2>3
<1> QED BY <1>3, <1>4

LEMMA ProbeStep ==
    ASSUME IInv, NEW p \in Pids, Probe(p)
    PROVE  IInv'
<1> USE DEF IInv
<1>1. UNCHANGED <<lock, log, watcher, raced, left>>
  BY DEF Probe, files
<1>2. LockType' /\ RestType'
  BY <1>1, Zenon DEF LockType, RestType, watcher
<1>3. PICK place \in {"none", "unlink"} :
        /\ ProcType' /\ SupType'
        /\ \A q \in Pids : At(q)' = IF q = p THEN place ELSE At(q)
  <2>1. CASE Exit(p, 1)
    BY <2>1, ExitType
  <2>2. CASE Go(p, "unlink") /\ UNCHANGED sup
    BY <2>2, GoType, SupKept DEF Places, Acquiring
  <2> QED BY <2>1, <2>2 DEF Probe
<1>4. Locked'
  BY <1>1, <1>3, LockedKept DEF Holding
<1> QED BY <1>2, <1>3, <1>4

LEMMA UnlinkStep ==
    ASSUME IInv, NEW p \in Pids, Unlink(p)
    PROVE  IInv'
<1> USE DEF IInv
<1>1. /\ ProcType'
      /\ \A q \in Pids : At(q)' = IF q = p THEN "create" ELSE At(q)
  BY GoType DEF Unlink, Places, Acquiring
<1>2. LockType' /\ SupType'
  BY SupKept DEF Unlink, LockType
<1>3. raced' \in BOOLEAN
  BY DEF Unlink, RestType
<1>4. RestType'
  BY <1>3, Zenon DEF Unlink, RestType, watcher
<1>5. Locked'
  <2> SUFFICES ASSUME ~ raced', NEW q \in Pids, At(q)' \in Holding PROVE FALSE
    BY DEF Locked
  <2>1. q # p /\ At(q) \in Holding
    BY <1>1 DEF Holding
  <2>2. ~ raced /\ ~ Removes(p)
    BY DEF Unlink
  <2>3. lock # None /\ lock.owner = q
    BY <2>1, <2>2 DEF Locked
  <2> QED BY <2>1, <2>2, <2>3 DEF Removes
<1> QED BY <1>1, <1>2, <1>4, <1>5

(* The file is created only where there is none: nobody holds the lock then.   *)
LEMMA CreateStep ==
    ASSUME IInv, NEW p \in Pids, Create(p)
    PROVE  IInv'
<1> USE DEF IInv
<1>1. UNCHANGED <<log, watcher, raced, left>>
  BY DEF Create
<1>2. RestType'
  BY <1>1, Zenon DEF RestType, watcher
<1>3. CASE lock # None
  <2>1. Exit(p, 1) /\ UNCHANGED lock
    BY <1>3 DEF Create
  <2>2. /\ ProcType' /\ SupType'
        /\ \A q \in Pids : At(q)' = IF q = p THEN "none" ELSE At(q)
    BY <2>1, ExitType
  <2>3. Locked'
    BY <1>1, <2>1, <2>2, LockedKept DEF Holding
  <2> QED BY <1>2, <2>1, <2>2, <2>3, LockKept
<1>4. CASE lock = None
  <2>1. /\ lock' = [owner |-> p, written |-> FALSE]
        /\ Go(p, "write") /\ UNCHANGED sup
    BY <1>4 DEF Create
  <2>2. /\ ProcType'
        /\ \A q \in Pids : At(q)' = IF q = p THEN "write" ELSE At(q)
    BY <2>1, GoType DEF Places, Holding
  <2>3. LockType' /\ lock' \in File /\ lock'.owner = p
    BY <2>1 DEF LockType, File
  <2>4. lock' # None
    BY <2>3, PidsAssumption DEF File
  <2>5. Locked'
    <3> SUFFICES ASSUME ~ raced', NEW q \in Pids, At(q)' \in Holding PROVE q = p
      BY <2>3, <2>4 DEF Locked
    <3>1. ~ raced
      BY <1>1
    <3>2. ASSUME q # p PROVE FALSE
      <4>1. At(q) \in Holding
        BY <2>2, <3>2
      <4> QED BY <1>4, <3>1, <4>1 DEF Locked
    <3> QED BY <3>2
  <2> QED BY <1>2, <2>1, <2>2, <2>3, <2>5, SupKept
<1> QED BY <1>3, <1>4

LEMMA WriteStep ==
    ASSUME IInv, NEW p \in Pids, Write(p)
    PROVE  IInv'
<1> USE DEF IInv
<1>1. UNCHANGED <<log, sup, watcher, raced, left>>
  BY DEF Write
<1>2. SupType' /\ RestType'
  BY <1>1, SupKept, Zenon DEF RestType, watcher
<1>3. /\ ProcType'
      /\ \A q \in Pids : At(q)' = IF q = p THEN "boot" ELSE At(q)
  BY GoType DEF Write, Places, Holding
<1>4. CASE lock # None /\ lock.owner = p
  <2>1. lock' = [lock EXCEPT !.written = TRUE]
    BY <1>4 DEF Write
  <2>2. lock' \in File /\ lock'.owner = lock.owner
    BY <1>4, <2>1 DEF LockType, File
  <2>3. LockType' /\ lock' # None
    BY <2>2, PidsAssumption DEF LockType, File
  <2>4. Locked'
    BY <1>1, <1>3, <1>4, <2>2, <2>3 DEF Locked, Holding
  <2> QED BY <1>2, <1>3, <2>3, <2>4
<1>5. CASE ~ (lock # None /\ lock.owner = p)
  <2>1. lock' = lock
    BY <1>5 DEF Write
  <2>2. At(p) \in Holding
    BY DEF Write, Holding
  <2>3. Locked'
    BY <1>1, <1>3, <2>1, <2>2, LockedKept
  <2> QED BY <1>2, <1>3, <2>1, <2>3, LockKept
<1> QED BY <1>4, <1>5

(* A bot that comes up, shuts down or hangs held the lock before.                          *)
LEMMA RunStep ==
    ASSUME IInv, NEW p \in Pids, Run(p) \/ Request(p) \/ Freeze(p)
    PROVE  IInv'
<1> USE DEF IInv
<1>1. UNCHANGED <<lock, sup, raced>> /\ At(p) \in Holding
  BY DEF Run, Request, Freeze, Trading, Holding, files
<1>2. LockType' /\ SupType'
  BY <1>1, LockKept, SupKept
<1>3. /\ ProcType'
      /\ \A q \in Pids : q # p => At(q)' = At(q)
  BY GoType DEF Run, Request, Freeze, Places, Holding
<1>4. Locked'
  BY <1>1, <1>3, LockedKept
<1>5. left' \in 0 .. MaxEvents
  BY EventType DEF Run, Request, Freeze, RestType
<1>6. RestType'
  <2>1. CASE Run(p)
    BY <1>5, <2>1, Zenon DEF Run, RestType
  <2>2. CASE Freeze(p)
    BY <1>5, <2>2, Zenon DEF Freeze, RestType, files, watcher
  <2>3. CASE Request(p)
    BY <1>5, <2>3, Zenon DEF Request, RestType, files, watcher
  <2> QED BY <2>1, <2>2, <2>3
<1> QED BY <1>2, <1>3, <1>4, <1>6

LEMMA StopStep ==
    ASSUME IInv, NEW p \in Pids, Stop(p)
    PROVE  IInv'
<1> USE DEF IInv
<1>1. /\ ProcType' /\ SupType'
      /\ \A q \in Pids : At(q)' = IF q = p THEN "none" ELSE At(q)
  BY ExitType DEF Stop
<1>2. LockType'
  BY DEF Stop, LockType
<1>3. RestType'
  <2>1. left' \in 0 .. MaxEvents
    BY DEF Stop, RestType
  <2>2. raced' \in BOOLEAN
    BY DEF Stop, RestType
  <2> QED BY <2>1, <2>2, Zenon DEF Stop, RestType, watcher
<1>4. Locked'
  <2> SUFFICES ASSUME ~ raced', NEW q \in Pids, At(q)' \in Holding PROVE FALSE
    BY DEF Locked
  <2>1. q # p /\ At(q) \in Holding
    BY <1>1 DEF Holding
  <2>2. ~ raced /\ ~ Removes(p)
    BY DEF Stop
  <2>3. lock # None /\ lock.owner = q
    BY <2>1, <2>2 DEF Locked
  <2> QED BY <2>1, <2>2, <2>3 DEF Removes
<1> QED BY <1>1, <1>2, <1>3, <1>4

(* The end of a bot, and a program that gets its number.                       *)
LEMMA EndStep ==
    ASSUME IInv, NEW p \in Pids, Crash(p) \/ Recycle(p)
    PROVE  IInv'
<1> USE DEF IInv
<1>1. UNCHANGED <<files, watcher, raced>>
  BY DEF Crash, Recycle
<1>2. LockType'
  BY <1>1, LockKept DEF files
<1>3. PICK place \in {"none"} \cup Programs :
        /\ ProcType' /\ SupType'
        /\ \A q \in Pids : At(q)' = IF q = p THEN place ELSE At(q)
  <2>1. CASE Crash(p)
    BY <2>1, ExitType DEF Crash
  <2>2. CASE Recycle(p)
    BY <2>2, GoType, SupKept DEF Recycle, Places
  <2> QED BY <2>1, <2>2
<1>4. Locked'
  BY <1>1, <1>3, LockedKept DEF Holding, Programs, files
<1>5. RestType'
  <2>1. left' \in 0 .. MaxEvents
    BY EventType DEF Crash, Recycle
  <2> QED BY <1>1, <2>1, Zenon DEF RestType, files, watcher
<1> QED BY <1>2, <1>3, <1>4, <1>5

LEMMA NextInv == IInv /\ [Next]_vars => IInv'
<1> SUFFICES ASSUME IInv, [Next]_vars PROVE IInv'
  OBVIOUS
<1>1. CASE UNCHANGED vars
  BY <1>1, Zenon DEF IInv, ProcType, LockType, SupType, RestType, Locked, At, vars, files,
    watcher
<1>2. ASSUME NEW p \in Pids, Acquire(p) PROVE IInv'
  BY <1>2, LookStep, ProbeStep, UnlinkStep, CreateStep, WriteStep, RunStep DEF Acquire
<1>3. CASE Next
  BY <1>2, <1>3, WatcherStep, LaunchStep, StopStep, EndStep, RunStep DEF Next
<1> QED BY <1>1, <1>3

LEMMA Invariant == Spec => []IInv
BY InitInv, NextInv, PTL DEF Spec

(* The processes, the file, the supervisor and the watchdog keep their types.  *)
THEOREM TypeCorrect == Spec => []TypeOK
<1>1. IInv => TypeOK
  BY DEF IInv, ProcType, LockType, SupType, RestType, TypeOK
<1> QED BY <1>1, Invariant, PTL

(* acquire_instance_lock: two bots trade at a time only after somebody removed *)
(* the lock file of one of them.                                              *)
THEOREM MutualExclusion == Spec => []AtMostOne
<1>1. IInv => AtMostOne
  <2> SUFFICES ASSUME IInv, ~ raced PROVE Cardinality(Trading) <= 1
    BY DEF AtMostOne
  <2>1. \A p \in Trading : p = lock.owner
    BY DEF IInv, Locked, Trading, Holding
  <2>2. Trading \subseteq {lock.owner}
    BY <2>1
  <2>3. IsFiniteSet({lock.owner}) /\ Cardinality({lock.owner}) = 1
    BY FS_Singleton
  <2>4. Cardinality(Trading) <= Cardinality({lock.owner})
    BY <2>2, <2>3, FS_Subset
  <2> QED BY <2>3, <2>4
<1> QED BY <1>1, Invariant, PTL
=============================================================================
