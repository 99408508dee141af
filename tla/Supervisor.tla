----------------------------- MODULE Supervisor -----------------------------
(***************************************************************************)
(* The subprocess supervisors: xray/supervisor.rs, mdnsvpn/supervisor.rs,  *)
(* mtproxy/supervisor.rs and, per child, dns/supervisor.rs.  One slot      *)
(* STATE.proc says which child is tracked; admin handlers call             *)
(* ensure_running, stop and restart; every spawned child has a watchdog    *)
(* task that waits for its exit and respawns it after a backoff.           *)
(*                                                                         *)
(* The four files are one program with three ways of making a running      *)
(* child take a new configuration:                                         *)
(*   hup      xray, dnscrypt-proxy: SIGHUP, and the mutex held from the    *)
(*            test of proc through the spawn;                              *)
(*   respawn  mdnsvpn, tor: stop it and spawn another, the mutex taken for *)
(*            the test and again for the registration;                     *)
(*   notify   telemt: nothing, the child watches its file; the mutex as    *)
(*            for respawn.                                                 *)
(*                                                                         *)
(* A child here is an instance, with its own watchdog: reuse of a pid by   *)
(* the kernel is left out.  A handler runs to its end once it started.     *)
(* SIGTERM, its grace period and SIGKILL are one thing: the child exits.   *)
(***************************************************************************)
EXTENDS Naturals, FiniteSets

CONSTANTS
  Children,    \* instances of the child, each with a watchdog
  Workers,     \* tasks that run admin handlers
  Main,        \* the task that starts the program
  NoChild,
  Styles,      \* subset of {"hup", "respawn", "notify"}
  Ops,         \* the requests that arrive in this instance
  Cap,         \* restart attempts before giving up (10 in the code)
  MaxOps,      \* bound: requests
  MaxFails,    \* bound: spawns that fail
  MaxCrashed,  \* bound: watchdogs busy with a crash at a time
  Parallel     \* bound: the styles in which several handlers run at once

Tasks == Workers \union {Main} \union Children

ASSUME SupervisorAssumption ==
  /\ IsFiniteSet(Children) /\ IsFiniteSet(Workers)
  /\ Main \notin Workers /\ NoChild \notin Tasks
  /\ (Workers \union {Main}) \cap Children = {}
  /\ Styles \subseteq {"hup", "respawn", "notify"} /\ Styles # {}
  /\ Cap \in Nat /\ MaxOps \in Nat
  /\ MaxFails \in Nat /\ MaxCrashed \in Nat /\ Parallel \subseteq Styles

Version == 0..(MaxOps + 1)    \* of the settings rows; 0: nothing written or loaded

VARIABLES
  style,
  db,         \* the settings: whether the child is wanted, and their version
  tmp, conf,  \* the versions in <config>.partial and in the config file
  proc,       \* STATE.proc
  crash,      \* STATE.crash: restart_attempts, and whether last_error is set
  lock,       \* who holds STATE, or NoChild; the short sections are one step
  child,      \* per child: its life, the version it runs on, shutdown_requested
  task,       \* per task: where it is and its locals
  ops, fails, \* counters of the bounds
  unspawned   \* a spawn failed and none has succeeded since

vars == <<style, db, tmp, conf, proc, crash, lock, child, task, ops, fails, unspawned>>

disk   == <<tmp, conf>>
state  == <<proc, crash, lock>>
bounds == <<ops, fails, unspawned>>

\* free: no such process and no watchdog; up: running, loaded says on what;
\* loading: it has started, or had its SIGHUP, and will read the file;
\* exited: a zombie; reaped: its watchdog's wait() has returned.
Life == {"free", "loading", "up", "exited", "reaped"}
Free == [life |-> "free", loaded |-> 0, shutdown |-> FALSE]

Alive == {c \in Children : child[c].life \in {"loading", "up"}}

Labels == {"idle", "wait", "clear", "recheck", "count",
           "read", "write", "rename", "test", "spawn", "register", "take", "await"}

\* victim: the child stop_if_running waits for, or the one just spawned.
Idle == [at |-> "idle", seen |-> 0, victim |-> NoChild, then |-> "idle", healthy |-> FALSE]

At(t, label)   == task[t].at = label
Goto(t, label) == task' = [task EXCEPT ![t].at = label]

\* The end of a handler, or of a watchdog, whose child is then forgotten.
Finish(t) ==
  /\ task' = [task EXCEPT ![t] = Idle]
  /\ child' = IF t \in Children THEN [child EXCEPT ![t] = Free] ELSE child

LockFree == lock = NoChild

-----------------------------------------------------------------------------
\* main.rs: the database is open, nothing runs, startup calls ensure_running.
Init ==
  /\ style \in Styles
  /\ db = [wanted |-> TRUE, version |-> 1]
  /\ tmp = 0 /\ conf = 0
  /\ proc = NoChild /\ crash = [attempts |-> 0, error |-> FALSE] /\ lock = NoChild
  /\ child = [c \in Children |-> Free]
  /\ task = [t \in Tasks |-> IF t = Main THEN [Idle EXCEPT !.at = "read"] ELSE Idle]
  /\ ops = 0 /\ fails = 0 /\ unspawned = FALSE

(***************************************************************************)
(* The handlers of api/: commit, then ensure_running; or stop, then        *)
(* ensure_running.  Startup has ended before the first of them.            *)
(***************************************************************************)
Request(w, op) ==
  /\ At(Main, "idle") /\ op \in Ops /\ ops < MaxOps
  /\ At(w, "idle") /\ w = CHOOSE v \in Workers : At(v, "idle")   \* all are alike
  /\ style \in Parallel \/ \A v \in Workers : At(v, "idle")
  /\ ops' = ops + 1
  /\ UNCHANGED <<style, disk, state, child, fails, unspawned>>

Change(w) ==
  /\ Request(w, "change")
  /\ db' = [db EXCEPT !.version = @ + 1]
  /\ Goto(w, "read")

Toggle(w) ==
  /\ Request(w, IF db.wanted THEN "disable" ELSE "enable")
  /\ db' = [db EXCEPT !.wanted = ~@]
  /\ Goto(w, "read")

Restart(w) ==
  /\ Request(w, "restart")
  /\ task' = [task EXCEPT ![w] = [Idle EXCEPT !.at = "take", !.then = "read"]]
  /\ UNCHANGED db

ReadRows(t) ==
  /\ At(t, "read")
  /\ task' = [task EXCEPT ![t] =
       IF db.wanted THEN [Idle EXCEPT !.at = "write", !.seen = db.version]
                    ELSE [Idle EXCEPT !.at = "take"]]
  /\ UNCHANGED <<style, db, disk, state, child, bounds>>

WritePartial(t) ==
  /\ At(t, "write")
  /\ tmp' = task[t].seen
  /\ task' = [task EXCEPT ![t].at = "rename", ![t].seen = 0]
  /\ UNCHANGED <<style, db, conf, state, child, bounds>>

\* The name of the partial file is fixed: of two writers one renames the
\* other's text, and the second finds no file and fails.
Rename(t) ==
  /\ At(t, "rename")
  /\ tmp' = 0
  /\ IF tmp = 0 THEN Finish(t) /\ UNCHANGED conf
                ELSE conf' = tmp /\ Goto(t, "test") /\ UNCHANGED child
  /\ UNCHANGED <<style, db, state, bounds>>

\* Faulty variant: the reload without its signal.
Reload_NoSignal(t) ==
  /\ At(t, "test") /\ LockFree /\ style = "hup" /\ proc # NoChild
  /\ Finish(t)
  /\ UNCHANGED <<style, db, disk, state, bounds>>

\* hup: a signal to a tracked child, which a dead one answers with ESRCH.
Reload(t) ==
  /\ At(t, "test") /\ LockFree /\ style = "hup" /\ proc # NoChild
  /\ task' = [task EXCEPT ![t] = Idle]
  /\ child' = [c \in Children |->
       IF c = t THEN Free
       ELSE IF c = proc /\ c \in Alive THEN [child[c] EXCEPT !.life = "loading"]
       ELSE child[c]]
  /\ UNCHANGED <<style, db, disk, state, bounds>>

\* Faulty variant: the guard dropped after the test.
KeepLock_Drop(t) ==
  /\ At(t, "test") /\ LockFree /\ style = "hup" /\ proc = NoChild
  /\ Goto(t, "spawn")
  /\ UNCHANGED <<style, db, disk, state, child, bounds>>

\* hup: nothing is tracked; the guard is kept through the spawn.
KeepLock(t) ==
  /\ At(t, "test") /\ LockFree /\ style = "hup" /\ proc = NoChild
  /\ lock' = t
  /\ Goto(t, "spawn")
  /\ UNCHANGED <<style, db, disk, proc, crash, child, bounds>>

\* respawn and notify: the guard is dropped after the test.
TestProc(t) ==
  /\ At(t, "test") /\ LockFree /\ style # "hup"
  /\ CASE proc = NoChild -> Goto(t, "spawn") /\ UNCHANGED child
       [] proc # NoChild /\ style = "notify" -> Finish(t)
       [] proc # NoChild /\ style = "respawn" ->
            /\ task' = [task EXCEPT ![t].at = "take", ![t].then = "spawn"]
            /\ UNCHANGED child
  /\ UNCHANGED <<style, db, disk, state, bounds>>

\* Children not in use, whose exit nobody is waiting for any more.  They are
\* alike, so any one will do.
Fresh == {c \in Children : child[c].life = "free" /\ \A t \in Tasks : task[t].victim # c}

Spawn(t) ==
  /\ At(t, "spawn") /\ Fresh # {}
  /\ LET c == CHOOSE c \in Fresh : TRUE IN
       /\ child' = [child EXCEPT ![c] = [Free EXCEPT !.life = "loading"]]
       /\ task' = [task EXCEPT ![t].at = "register", ![t].victim = c]
  /\ UNCHANGED <<style, db, disk, state, bounds>>

SpawnFails(t) ==
  /\ At(t, "spawn") /\ fails < MaxFails
  /\ fails' = fails + 1
  /\ unspawned' = TRUE
  /\ lock' = NoChild
  /\ Finish(t)
  /\ UNCHANGED <<style, db, disk, proc, crash, ops>>

\* Faulty variant: every spawn is a clean slate.
Register_Reset(t) ==
  /\ At(t, "register") /\ lock \in {t, NoChild}
  /\ proc' = task[t].victim
  /\ crash' = [attempts |-> 0, error |-> FALSE]
  /\ lock' = NoChild
  /\ unspawned' = FALSE
  /\ task' = [task EXCEPT ![t] = Idle, ![task[t].victim].at = "wait"]
  /\ child' = IF t \in Children THEN [child EXCEPT ![t] = Free] ELSE child
  /\ UNCHANGED <<style, db, disk, ops, fails>>

\* proc is set whatever it was; a handler's spawn clears the crash counter,
\* a watchdog's clears the error only.
Register(t) ==
  /\ At(t, "register") /\ lock \in {t, NoChild}
  /\ proc' = task[t].victim
  /\ crash' = [attempts |-> IF t \in Children THEN crash.attempts ELSE 0, error |-> FALSE]
  /\ lock' = NoChild
  /\ unspawned' = FALSE
  /\ task' = [task EXCEPT ![t] = Idle, ![task[t].victim].at = "wait"]
  /\ child' = IF t \in Children THEN [child EXCEPT ![t] = Free] ELSE child
  /\ UNCHANGED <<style, db, disk, ops, fails>>

(***************************************************************************)
(* stop_if_running: the child is taken out of the slot, told to exit, and  *)
(* waited for.                                                             *)
(***************************************************************************)
TakeProc(t) ==
  /\ At(t, "take") /\ LockFree
  /\ proc' = NoChild
  /\ IF proc # NoChild
     THEN /\ child' = [child EXCEPT ![proc].shutdown = TRUE]
          /\ task' = [task EXCEPT ![t].at = "await", ![t].victim = proc]
     ELSE IF task[t].then = "idle" THEN Finish(t)
     ELSE Goto(t, task[t].then) /\ UNCHANGED child
  /\ UNCHANGED <<style, db, disk, crash, lock, bounds>>

\* kill(pid, 0) fails once the child has been reaped, by its watchdog.
SeeGone(t) ==
  /\ At(t, "await") /\ child[task[t].victim].life \in {"free", "reaped"}
  /\ IF task[t].then = "idle"
     THEN Finish(t)
     ELSE task' = [task EXCEPT ![t].at = task[t].then, ![t].victim = NoChild] /\ UNCHANGED child
  /\ UNCHANGED <<style, db, disk, state, bounds>>

(***************************************************************************)
(* The child                                                               *)
(***************************************************************************)
Load(c) ==
  /\ child[c].life = "loading"
  /\ child' = [child EXCEPT ![c].life = "up", ![c].loaded = conf]
  /\ UNCHANGED <<style, db, disk, state, task, bounds>>

\* telemt's notify watcher.
Notice(c) ==
  /\ style = "notify" /\ child[c].life = "up" /\ child[c].loaded # conf
  /\ child' = [child EXCEPT ![c].loaded = conf]
  /\ UNCHANGED <<style, db, disk, state, task, bounds>>

Exit(c) ==
  /\ c \in Alive
  /\ child' = [child EXCEPT ![c].life = "exited", ![c].loaded = 0]
  /\ UNCHANGED <<style, db, disk, state, task, bounds>>

Crashed == {c \in Children : child[c].life \in {"exited", "reaped"} /\ ~child[c].shutdown}

Die(c)      == child[c].shutdown /\ Exit(c)
Collapse(c) == ~child[c].shutdown /\ Cardinality(Crashed) < MaxCrashed /\ Exit(c)

(***************************************************************************)
(* The watchdog of child c                                                 *)
(***************************************************************************)
Reap(c) ==
  /\ At(c, "wait") /\ child[c].life = "exited"
  /\ child' = [child EXCEPT ![c].life = "reaped"]
  /\ Goto(c, "clear")
  /\ UNCHANGED <<style, db, disk, state, bounds>>

\* proc is taken whoever is in it, and the uptime judged is that one's.
ClearProc(c, healthy) ==
  /\ At(c, "clear") /\ LockFree
  /\ healthy => proc # NoChild
  /\ proc' = NoChild
  /\ IF child[c].shutdown
     THEN Finish(c)
     ELSE task' = [task EXCEPT ![c].at = "recheck", ![c].healthy = healthy] /\ UNCHANGED child
  /\ UNCHANGED <<style, db, disk, crash, lock, bounds>>

Recheck(c) ==
  /\ At(c, "recheck") /\ db.wanted
  /\ Goto(c, "count")
  /\ UNCHANGED <<style, db, disk, state, child, bounds>>

StandDown(c) ==
  /\ At(c, "recheck") /\ ~db.wanted /\ LockFree
  /\ crash' = [attempts |-> 0, error |-> FALSE]
  /\ Finish(c)
  /\ UNCHANGED <<style, db, disk, proc, lock, bounds>>

\* Faulty variant: giving up one attempt early.
Count_Early(c) ==
  /\ At(c, "count") /\ LockFree
  /\ LET n == (IF task[c].healthy THEN 0 ELSE crash.attempts) + 1 IN
       /\ crash' = [attempts |-> n, error |-> TRUE]
       /\ IF n >= Cap THEN Finish(c)
          ELSE task' = [task EXCEPT ![c] = [Idle EXCEPT !.at = "read"]] /\ UNCHANGED child
  /\ UNCHANGED <<style, db, disk, proc, lock, bounds>>

\* The backoff is the time before ReadRows(c).
Count(c) ==
  /\ At(c, "count") /\ LockFree
  /\ LET n == (IF task[c].healthy THEN 0 ELSE crash.attempts) + 1 IN
       /\ crash' = [attempts |-> n, error |-> TRUE]
       /\ IF n > Cap THEN Finish(c) ELSE task' = [task EXCEPT ![c] = [Idle EXCEPT !.at = "read"]] /\ UNCHANGED child
  /\ UNCHANGED <<style, db, disk, proc, lock, bounds>>

-----------------------------------------------------------------------------
Step(t) ==
  \/ ReadRows(t) \/ WritePartial(t) \/ Rename(t) \/ Reload(t) \/ KeepLock(t) \/ TestProc(t)
  \/ Spawn(t) \/ SpawnFails(t) \/ Register(t) \/ TakeProc(t) \/ SeeGone(t)

Watch(c) ==
  \/ Reap(c) \/ (\E healthy \in BOOLEAN : ClearProc(c, healthy))
  \/ Recheck(c) \/ StandDown(c) \/ Count(c)

Next ==
  \/ \E w \in Workers : Change(w) \/ Toggle(w) \/ Restart(w)
  \/ \E t \in Tasks : Step(t)
  \/ \E c \in Children : Watch(c) \/ Load(c) \/ Notice(c) \/ Die(c) \/ Collapse(c)

Spec == Init /\ [][Next]_vars

\* Tasks run, the mutex is first come first served (tokio), a child reads its
\* file and obeys SIGTERM or SIGKILL.  Requests, crashes and failures of a
\* spawn need not happen.
Fairness ==
  /\ \A t \in Tasks : WF_vars(Step(t))
  /\ \A c \in Children : WF_vars(Watch(c)) /\ WF_vars(Load(c) \/ Notice(c)) /\ WF_vars(Die(c))

FairSpec == Spec /\ Fairness

-----------------------------------------------------------------------------
(***************************************************************************)
(* Properties                                                              *)
(***************************************************************************)
\* The variables keep their shape; a running child has read a file that
\* ensure_running wrote, none is started before there is one.
TypeOK ==
  /\ style \in Styles
  /\ db \in [wanted : BOOLEAN, version : Version]
  /\ tmp \in Version /\ conf \in Version
  /\ proc \in Children \union {NoChild}
  /\ crash \in [attempts : Nat, error : BOOLEAN]
  /\ lock \in Tasks \union {NoChild}
  /\ child \in [Children -> [life : Life, loaded : Version, shutdown : BOOLEAN]]
  /\ \A c \in Children : child[c].life = "up" => child[c].loaded # 0
  /\ task \in [Tasks -> [at : Labels, seen : Version, victim : Children \union {NoChild},
                         then : {"idle", "read", "spawn"}, healthy : BOOLEAN]]
  /\ ops \in 0..MaxOps /\ fails \in 0..MaxFails /\ unspawned \in BOOLEAN

\* Nobody works on the child, and its watchdogs wait.
Quiet == \A t \in Tasks : task[t].at \in {"idle", "wait"}

\* The test of the slot and the registration are one critical section in
\* xray/supervisor.rs and for dnscrypt-proxy: two concurrent ensure_running
\* calls never leave a child behind by overwriting its entry.
NoOverwrite == [][style = "hup" /\ proc # NoChild => proc' \in {proc, NoChild}]_vars

\* A SIGHUP follows every change of the file: when everything is still, the
\* tracked child of a hup supervisor runs on the file that is on disk, however
\* the writes, renames and signals of several tasks were interleaved.
FileLoaded ==
  Quiet /\ style = "hup" /\ proc # NoChild /\ child[proc].life = "up" =>
    child[proc].loaded = conf

\* The watchdog's promise, "restarts with capped exponential backoff": while
\* the child is wanted, an outage ends in a child that runs, unless a spawn
\* failed or the attempts are used up, whatever entries the watchdogs of
\* stopped children have cleared meanwhile.
OutageEnds ==
  (db.wanted /\ Alive = {}) ~>
    (Alive # {} \/ crash.attempts > Cap \/ unspawned \/ ~db.wanted)

\* A child that always dies young is given up: watchdogs respawn for ever only
\* if children that lived past HEALTHY_UPTIME keep dying.
Respawn   == \E c \in Children : Spawn(c)
DiedOld   == \E c \in Children : ClearProc(c, TRUE)
GivesUp   == []<><<Respawn>>_vars => []<><<DiedOld>>_vars

\* ensure_running is to reconcile the process with the settings: when
\* everything is still and the child is not wanted, none runs.
DisabledIsDown == Quiet /\ ~db.wanted => Alive = {}

\* Every running child is the tracked one when everything is still.
AllTracked == Quiet => Alive \subseteq {proc}
=============================================================================
