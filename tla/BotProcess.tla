----------------------------- MODULE BotProcess ------------------------------
(***************************************************************************)
(* The processes around one bot directory: main.py and the lock file that     *)
(* shall keep a second one out (src/utils/instance_lock.py), the supervisor   *)
(* that starts main.py again (pm2, ecosystem.config.js, or the wrapper         *)
(* run_with_recovery.py) and the watchdog run that cron starts                 *)
(* (check_bot_alive of research_watchdog_supervisor.py).                       *)
(*                                                                          *)
(* Every file system call of acquire_instance_lock is a step of its own: the  *)
(* lock file is a path, which an unlink frees whatever file is there.  A       *)
(* process can end between any two steps, and the system may give its number  *)
(* to another program or to the next bot.                                     *)
(***************************************************************************)
EXTENDS Integers, FiniteSets

CONSTANTS
    Pids,           \* process numbers
    None,           \* no process, no file
    MaxRestarts,    \* the wrapper's max_restarts
    MaxEvents       \* bound on what an operator, a fault or the system adds

ASSUME PidsAssumption ==
    IsFiniteSet(Pids) /\ None \notin Pids \cup [owner : Pids, written : BOOLEAN]
ASSUME BoundsAssumption == MaxRestarts \in Nat \ {0} /\ MaxEvents \in Nat

VARIABLES
    proc,           \* per process number: where main.py is, and the pid it has read
    lock,           \* bot.lock: its creator and whether the pid is written, or None
    sup,            \* the supervisor
    log,            \* bot.log: written in the last 15 minutes or not
    alerted,        \* alerted_since_ms of the bot_alive watchdog is set
    watch,          \* the watchdog run: idle, or saved and about to notify
    paged,          \* history: an alert was sent since a bot last came up
    spent,          \* history: the alert that is set is lost or of an earlier outage
    raced,          \* history: somebody removed the lock file of a bot that holds it
    left            \* events that may still happen

files == <<lock, log>>
watcher == <<alerted, watch, paged, spent>>
vars == <<proc, files, sup, watcher, raced, left>>

Acquiring == {"exists", "read", "probe", "unlink", "create"}
Holding == {"write", "boot", "run", "stop", "frozen"}
\* Another program has the number: of this user, or of one who must not be signalled.
Programs == {"foreign", "sealed"}
Places == {"none"} \cup Programs \cup Acquiring \cup Holding
File == [owner : Pids, written : BOOLEAN]
Supervisor == [kind : {"pm2", "wrapper"}, child : Pids \cup {None},
               crashes : 0 .. MaxRestarts, over : BOOLEAN]

TypeOK ==
    /\ proc \in [Pids -> [at : Places, seen : Pids \cup {None}]]
    /\ lock \in File \cup {None}
    /\ sup \in Supervisor
    /\ log \in {"fresh", "stale"}
    /\ alerted \in BOOLEAN /\ watch \in {"idle", "saved"}
    /\ paged \in BOOLEAN /\ spent \in BOOLEAN /\ raced \in BOOLEAN
    /\ left \in 0 .. MaxEvents

NoProcess == [at |-> "none", seen |-> None]

Init ==
    /\ proc = [p \in Pids |-> NoProcess]
    /\ lock = None /\ log = "stale"
    /\ sup \in [kind : {"pm2", "wrapper"}, child : {None}, crashes : {0}, over : {FALSE}]
    /\ alerted = FALSE /\ watch = "idle" /\ paged = FALSE /\ spent = FALSE
    /\ raced = FALSE
    /\ left = MaxEvents

At(p) == proc[p].at
\* _pid_alive: a signal that is refused reads as no process.
Alive(p) == At(p) \notin {"none", "sealed"}
Bots == {p \in Pids : At(p) \in Acquiring \cup Holding}
Trading == {p \in Pids : At(p) \in {"run", "stop"}}
Go(p, place) == proc' = [proc EXCEPT ![p].at = place]
Event == left > 0 /\ left' = left - 1

-----------------------------------------------------------------------------
(* The supervisor.                                                           *)

Launch(p) ==
    /\ At(p) = "none"
    /\ Go(p, "exists")
    /\ log' = "fresh"
    /\ UNCHANGED <<lock, watcher, raced>>

\* pm2 always starts the bot again, the wrapper while it has restarts left.
Start(p) ==
    /\ sup.child = None /\ ~ sup.over
    /\ sup' = [sup EXCEPT !.child = p]
    /\ Launch(p)
    /\ UNCHANGED left

StartByHand(p) == Event /\ Launch(p) /\ UNCHANGED sup

\* The end of a process as its supervisor sees it: to the wrapper exit code 0 is the
\* end, and any other one a crash, a refusal by the lock included.
CountedLate(code) ==
    LET n == sup.crashes + 1 IN
    IF code = 0 THEN [sup EXCEPT !.child = None, !.over = TRUE]
    ELSE [sup EXCEPT !.child = None, !.crashes = n, !.over = n > MaxRestarts]

Counted(code) ==
    LET n == sup.crashes + 1 IN
    IF code = 0 THEN [sup EXCEPT !.child = None, !.over = TRUE]
    ELSE [sup EXCEPT !.child = None, !.crashes = n, !.over = n >= MaxRestarts]

Ended(p, code) ==
    IF sup.child # p THEN sup
    ELSE IF sup.kind = "pm2" THEN [sup EXCEPT !.child = None]
    ELSE Counted(code)

Exit(p, code) ==
    /\ proc' = [proc EXCEPT ![p] = NoProcess]
    /\ sup' = Ended(p, code)

-----------------------------------------------------------------------------
(* acquire_instance_lock and release_instance_lock.                          *)

Exists(p) ==
    /\ At(p) = "exists"
    /\ Go(p, IF lock = None THEN "create" ELSE "read")
    /\ UNCHANGED <<files, sup, watcher, raced, left>>

\* A file that is gone or empty reads as no pid.
ReadHeld(p) ==
    /\ At(p) = "read"
    /\ IF lock # None /\ lock.written
       THEN proc' = [proc EXCEPT ![p] = [at |-> "probe", seen |-> lock.owner]] /\ UNCHANGED sup
       ELSE Exit(p, 1)
    /\ UNCHANGED <<files, watcher, raced, left>>

Read(p) ==
    /\ At(p) = "read"
    /\ proc' = [proc EXCEPT ![p] =
            IF lock # None /\ lock.written THEN [at |-> "probe", seen |-> lock.owner]
            ELSE [at |-> "unlink", seen |-> None]]
    /\ UNCHANGED <<files, sup, watcher, raced, left>>

Probe(p) ==
    /\ At(p) = "probe"
    /\ IF proc[p].seen # p /\ Alive(proc[p].seen) THEN Exit(p, 1)
       ELSE Go(p, "unlink") /\ UNCHANGED sup
    /\ UNCHANGED <<files, watcher, raced, left>>

\* Whatever file has the path now; ours is the file of a bot that holds it.
Removes(p) == lock # None /\ lock.owner # p /\ At(lock.owner) \in Holding

Unlink(p) ==
    /\ At(p) = "unlink"
    /\ lock' = None
    /\ raced' = (raced \/ Removes(p))
    /\ Go(p, "create")
    /\ UNCHANGED <<log, sup, watcher, left>>

\* O_CREAT and O_EXCL.
CreateShared(p) ==
    /\ At(p) = "create"
    /\ lock' = [owner |-> p, written |-> FALSE] /\ Go(p, "write")
    /\ UNCHANGED <<log, sup, watcher, raced, left>>

Create(p) ==
    /\ At(p) = "create"
    /\ IF lock # None THEN Exit(p, 1) /\ UNCHANGED lock
       ELSE lock' = [owner |-> p, written |-> FALSE] /\ Go(p, "write") /\ UNCHANGED sup
    /\ UNCHANGED <<log, watcher, raced, left>>

\* The pid goes to the file that was created, wherever its path is now.
Write(p) ==
    /\ At(p) = "write"
    /\ lock' = IF lock # None /\ lock.owner = p THEN [lock EXCEPT !.written = TRUE] ELSE lock
    /\ Go(p, "boot")
    /\ UNCHANGED <<log, sup, watcher, raced, left>>

\* The bot comes up after the preflight.
Run(p) ==
    /\ At(p) = "boot"
    /\ Go(p, "run")
    /\ log' = "fresh"
    /\ paged' = FALSE /\ spent' = alerted
    /\ UNCHANGED <<lock, sup, alerted, watch, raced, left>>

\* A shutdown is asked for: the engine, the feeds and the sockets are stopped first.
Request(p) ==
    /\ Event
    /\ At(p) = "run"
    /\ Go(p, "stop")
    /\ UNCHANGED <<files, sup, watcher, raced>>

\* The lock file is released last, whoever created the one that is there now.
Stop(p) ==
    /\ At(p) = "stop"
    /\ lock' = None
    /\ raced' = (raced \/ Removes(p))
    /\ Exit(p, 0)
    /\ UNCHANGED <<log, watcher, left>>

-----------------------------------------------------------------------------
(* Faults.                                                                   *)

\* Killed, or failed: before the lock (a bad configuration), at the preflight, later.
Crash(p) ==
    /\ Event
    /\ p \in Bots
    /\ Exit(p, 1)
    /\ UNCHANGED <<files, watcher, raced>>

Freeze(p) ==
    /\ Event
    /\ p \in Trading
    /\ Go(p, "frozen")
    /\ UNCHANGED <<files, sup, watcher, raced>>

\* Another program gets the number of a process that has left it in the lock file.
Recycle(p) ==
    /\ Event
    /\ At(p) = "none" /\ lock # None /\ lock.owner = p
    /\ \E q \in Pids \ {p} : At(q) \notin Programs
    /\ \E place \in Programs : Go(p, place)
    /\ UNCHANGED <<files, sup, watcher, raced>>

\* A bot that runs logs every few seconds, one that starts in less than 15 minutes.
LogAges ==
    /\ log = "fresh"
    /\ \A p \in Bots : At(p) = "frozen"
    /\ log' = "stale"
    /\ UNCHANGED <<proc, lock, sup, watcher, raced, left>>

-----------------------------------------------------------------------------
(* The watchdog.                                                             *)

\* check_bot_alive: the lock's process is dead, or alive while the log is silent.
LockPid == IF lock # None /\ lock.written THEN lock.owner ELSE None
Dead == LockPid # None /\ ~ Alive(LockPid)
Mute == LockPid # None /\ Alive(LockPid) /\ log = "stale"
DownIfMute == Mute

Down == Dead \/ Mute

\* The alert is saved first and sent next; without a reason or a lock it is re-armed.
Check ==
    /\ watch = "idle"
    /\ IF Down THEN /\ alerted' = TRUE
                    /\ watch' = IF alerted THEN "idle" ELSE "saved"
                    /\ UNCHANGED spent
       ELSE alerted' = FALSE /\ spent' = FALSE /\ UNCHANGED watch
    /\ UNCHANGED <<proc, files, sup, paged, raced, left>>

Notify ==
    /\ watch = "saved"
    /\ watch' = "idle" /\ paged' = TRUE
    /\ UNCHANGED <<proc, files, sup, alerted, spent, raced, left>>

\* The message fails, or the watchdog run ends before it is sent.
Lose ==
    /\ Event
    /\ watch = "saved"
    /\ watch' = "idle" /\ spent' = TRUE
    /\ UNCHANGED <<proc, files, sup, alerted, paged, raced>>

-----------------------------------------------------------------------------
Acquire(p) ==
    Exists(p) \/ Read(p) \/ Probe(p) \/ Unlink(p) \/ Create(p) \/ Write(p) \/ Run(p)

Next ==
    \/ \E p \in Pids :
        \/ Start(p) \/ StartByHand(p)
        \/ Acquire(p)
        \/ Request(p) \/ Stop(p) \/ Crash(p) \/ Freeze(p) \/ Recycle(p)
    \/ LogAges \/ Check \/ Notify \/ Lose

Spec == Init /\ [][Next]_vars

\* Processes run, a shutdown ends, the supervisor starts the bot, cron the watchdog, and time passes.
FairSpec ==
    /\ Spec
    /\ WF_vars(\E p \in Pids : Start(p))
    /\ \A p \in Pids : WF_vars(Acquire(p)) /\ WF_vars(Stop(p))
    /\ WF_vars(LogAges) /\ WF_vars(Check) /\ WF_vars(Notify)

-----------------------------------------------------------------------------
(* Properties.                                                               *)

\* Two bots trade at a time only after somebody removed the lock file of one of them.
AtMostOne == ~ raced => Cardinality(Trading) <= 1

\* In the end a bot trades, or the wrapper has given up, or a bot hangs, or the number
\* in the lock file belongs to another program that the bot can signal.
Blocked == sup.over \/ \E p \in Pids :
    At(p) = "frozen" \/ (At(p) = "foreign" /\ LockPid = p)
ComesBack == <>[](Trading # {} \/ Blocked)

\* An outage the lock file shows is over or is paged in the end, unless the alert that
\* is set has been lost or is of an earlier outage.
Outage == LockPid # None /\ (~ Alive(LockPid) \/ log = "stale")
Paged == Outage ~> (~ Outage \/ paged \/ spent)
=============================================================================
