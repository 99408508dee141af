-------------------------- MODULE SupervisorProofs --------------------------
(***************************************************************************)
(* That the lock of the hup supervisors (xray, dnscrypt-proxy) does what   *)
(* it is held for, for every number of children, handlers, requests,       *)
(* crashes and failed spawns: no entry is overwritten, and the tracked     *)
(* child ends up on the file that is on disk.                              *)
(***************************************************************************)
EXTENDS Supervisor, TLAPS

Entry == [life : Life, loaded : Nat, shutdown : BOOLEAN]
Local == [at : Labels, seen : Nat, victim : Children \union {NoChild},
          then : {"idle", "read", "spawn"}, healthy : BOOLEAN]

Shape ==
  /\ proc \in Children \union {NoChild}
  /\ child \in [Children -> Entry] /\ task \in [Tasks -> Local]
  /\ db \in [wanted : BOOLEAN, version : Nat] /\ tmp \in Nat /\ conf \in Nat

\* From the test of the slot to the registration the task has the lock, and
\* the slot is empty.
Exclusive ==
  \A t \in Tasks :
    /\ task[t].at \in {"spawn", "register"} => lock = t /\ proc = NoChild
    /\ task[t].then # "spawn"

\* A child in use has a watchdog that is at work, or will be once the child
\* is registered.
Watched ==
  /\ \A c \in Children : child[c].life = "free" => task[c].at = "idle"
  /\ \A t \in Tasks : task[t].at = "register" =>
       /\ task[t].victim \in Children
       /\ task[task[t].victim].at = "idle" /\ child[task[t].victim].life # "free"

\* The child in the slot, or about to be put there.
Claimed(c) == c = proc \/ \E t \in Tasks : task[t].at = "register" /\ task[t].victim = c

\* FileLoaded is not inductive: between a rename and its signal the tracked
\* child runs on the older file, and so may the one still to be registered.
Signalled ==
  \A c \in Children :
    child[c].life = "up" /\ Claimed(c) =>
      child[c].loaded = conf \/ \E t \in Tasks : task[t].at = "test"

HupInv == style = "hup" => Shape /\ Exclusive /\ Watched /\ Signalled

-----------------------------------------------------------------------------
\* Idle tasks and free children have their shape, and so have the updates.
LEMMA ShapeFacts ==
  /\ Idle \in Local /\ Free \in Entry
  /\ \A r \in Local, l \in Labels : [r EXCEPT !.at = l] \in Local
  /\ \A e \in Entry, l \in Life : [e EXCEPT !.life = l] \in Entry
BY DEF Idle, Free, Local, Entry, Labels, Life

LEMMA HupInit == Init => HupInv
<1> SUFFICES ASSUME Init, style = "hup" PROVE Shape /\ Exclusive /\ Watched /\ Signalled
  BY DEF HupInv
<1>1. Shape
  <2>1. [Idle EXCEPT !.at = "read"] \in Local
    BY ShapeFacts DEF Labels
  <2> QED
    BY <2>1, ShapeFacts DEF Init, Shape
<1>2. \A t \in Tasks : task[t].at \in {"idle", "read"} /\ task[t].then = "idle"
  BY DEF Init, Idle
<1>3. Exclusive
  BY <1>2 DEF Exclusive
<1>4. \A c \in Children : task[c].at = "idle" /\ child[c].life = "free"
  BY SupervisorAssumption DEF Init, Idle, Free, Tasks
<1>5. Watched
  BY <1>2, <1>4 DEF Watched
<1>6. Signalled
  BY <1>4 DEF Signalled
<1> QED
  BY <1>1, <1>3, <1>5, <1>6

\* A handler or a watchdog ends, or goes on.
LEMMA FinishShape ==
  ASSUME Shape, NEW t \in Tasks, Finish(t)
  PROVE  task' \in [Tasks -> Local] /\ child' \in [Children -> Entry]
BY ShapeFacts DEF Finish, Shape

LEMMA GotoShape ==
  ASSUME Shape, NEW t \in Tasks, NEW l \in Labels, Goto(t, l)
  PROVE  task' \in [Tasks -> Local]
BY ShapeFacts DEF Goto, Shape

\* A step of a hup supervisor keeps the shape of the variables.
LEMMA ShapeStep ==
  ASSUME Shape, style = "hup", Exclusive, Watched, Next PROVE Shape'
<1>1. ASSUME NEW w \in Workers, Change(w) \/ Toggle(w) \/ Restart(w) PROVE Shape'
  <2>1. w \in Tasks /\ db' \in [wanted : BOOLEAN, version : Nat] /\ UNCHANGED <<proc, child, tmp, conf>>
    <3>1. w \in Tasks /\ UNCHANGED <<proc, child, tmp, conf>>
      BY <1>1 DEF Change, Toggle, Restart, Request, disk, state, Tasks
    <3>2. /\ [db EXCEPT !.version = @ + 1] \in [wanted : BOOLEAN, version : Nat]
          /\ [db EXCEPT !.wanted = ~@] \in [wanted : BOOLEAN, version : Nat]
      <4>1. db \in [wanted : BOOLEAN, version : Nat]
        BY DEF Shape
      <4>2. (~db.wanted) \in BOOLEAN
        OBVIOUS
      <4>3. \A b \in BOOLEAN : [db EXCEPT !.wanted = b] \in [wanted : BOOLEAN, version : Nat]
        BY <4>1
      <4>4. [db EXCEPT !.version = @ + 1] \in [wanted : BOOLEAN, version : Nat]
        BY <4>1
      <4> QED
        BY <4>2, <4>3, <4>4, Zenon
    <3>3. \/ db' = db \/ db' = [db EXCEPT !.version = @ + 1] \/ db' = [db EXCEPT !.wanted = ~@]
      BY <1>1 DEF Change, Toggle, Restart
    <3> QED
      BY <3>1, <3>2, <3>3 DEF Shape
  <2>2. task' \in [Tasks -> Local]
    <3>1. CASE Restart(w)
      <4>1. [Idle EXCEPT !.at = "take", !.then = "read"] \in Local
        BY DEF Idle, Local, Labels
      <4> QED
        BY <2>1, <3>1, <4>1 DEF Restart, Shape
    <3> QED
      BY <1>1, <2>1, <3>1, GotoShape DEF Change, Toggle, Labels
  <2> QED
    BY <2>1, <2>2 DEF Shape
<1>2. ASSUME NEW t \in Tasks, ReadRows(t) PROVE Shape'
  <2>1. UNCHANGED <<db, proc, child, tmp, conf>>
    BY <1>2 DEF ReadRows, disk, state
  <2>2. /\ [Idle EXCEPT !.at = "write", !.seen = db.version] \in Local
        /\ [Idle EXCEPT !.at = "take"] \in Local
    BY DEF Shape, Idle, Local, Labels
  <2> QED
    BY <1>2, <2>1, <2>2 DEF ReadRows, Shape
<1>3. ASSUME NEW t \in Tasks, WritePartial(t) PROVE Shape'
  <2>1. UNCHANGED <<db, proc, child, conf>> /\ task[t] \in Local
    BY <1>3 DEF WritePartial, state, Shape
  <2>2. tmp' \in Nat
    BY <1>3, <2>1 DEF WritePartial, Local
  <2>3. task' = [task EXCEPT ![t] = [task[t] EXCEPT !.at = "rename", !.seen = 0]]
    BY <1>3 DEF WritePartial, Shape
  <2>4. [task[t] EXCEPT !.at = "rename", !.seen = 0] \in Local
    BY <2>1 DEF Local, Labels
  <2> QED
    BY <2>1, <2>2, <2>3, <2>4 DEF Shape
<1>4. ASSUME NEW t \in Tasks, Rename(t) PROVE Shape'
  <2>1. UNCHANGED <<db, proc>> /\ tmp' \in Nat /\ conf' \in Nat
    BY <1>4 DEF Rename, state, Shape
  <2>2. Finish(t) \/ (Goto(t, "test") /\ child' = child)
    BY <1>4 DEF Rename
  <2> QED
    BY <2>1, <2>2, FinishShape, GotoShape DEF Shape, Labels
<1>5. ASSUME NEW t \in Tasks, Reload(t) PROVE Shape'
  <2>1. UNCHANGED <<db, proc, tmp, conf>> /\ task' = [task EXCEPT ![t] = Idle]
    BY <1>5 DEF Reload, disk, state
  <2>2. \A c \in Children : child'[c] \in Entry
    <3> TAKE c \in Children
    <3>1. child[c] \in Entry /\ [child[c] EXCEPT !.life = "loading"] \in Entry
      BY ShapeFacts DEF Shape, Life
    <3> QED
      BY <1>5, <3>1, ShapeFacts DEF Reload
  <2>3. child' \in [Children -> Entry]
    BY <1>5, <2>2 DEF Reload
  <2> QED
    BY <2>1, <2>3, ShapeFacts DEF Shape
<1>6. ASSUME NEW t \in Tasks, KeepLock(t) PROVE Shape'
  BY <1>6, GotoShape DEF KeepLock, disk, bounds, Shape, Labels
<1>7. ASSUME NEW t \in Tasks, SpawnFails(t) PROVE Shape'
  BY <1>7, FinishShape DEF SpawnFails, disk, Shape
<1>8. ASSUME NEW t \in Tasks, SeeGone(t) PROVE Shape'
  <2>1. UNCHANGED <<db, proc, tmp, conf>>
    BY <1>8 DEF SeeGone, disk, state
  <2>2. task[t] \in Local
    BY DEF Shape
  <2>3. [task[t] EXCEPT !.at = task[t].then, !.victim = NoChild] \in Local
    BY <2>2 DEF Local, Labels
  <2>4. Finish(t) \/ (/\ task' = [task EXCEPT ![t] = [task[t] EXCEPT !.at = task[t].then,
                                                                     !.victim = NoChild]]
                      /\ child' = child)
    BY <1>8 DEF SeeGone, Shape
  <2> QED
    BY <2>1, <2>3, <2>4, FinishShape DEF Shape
<1>9. ASSUME NEW t \in Tasks, Spawn(t) PROVE Shape'
  <2>1. PICK c \in Fresh : /\ child' = [child EXCEPT ![c] = [Free EXCEPT !.life = "loading"]]
                           /\ task' = [task EXCEPT ![t].at = "register", ![t].victim = c]
    BY <1>9 DEF Spawn
  <2>2. c \in Children /\ [Free EXCEPT !.life = "loading"] \in Entry
    BY <2>1, ShapeFacts DEF Fresh, Life
  <2>3. task[t] \in Local
    BY DEF Shape
  <2>4. [task[t] EXCEPT !.at = "register", !.victim = c] \in Local
    BY <2>2, <2>3 DEF Local, Labels
  <2>5. task' = [task EXCEPT ![t] = [task[t] EXCEPT !.at = "register", !.victim = c]]
    BY <2>1 DEF Shape
  <2>6. UNCHANGED <<db, proc, tmp, conf>>
    BY <1>9 DEF Spawn, disk, state
  <2> QED
    BY <2>1, <2>2, <2>4, <2>5, <2>6 DEF Shape
<1>10. ASSUME NEW t \in Tasks, Register(t) PROVE Shape'
  <2> DEFINE v == task[t].victim
  <2>1. v \in Children /\ v \in Tasks
    BY <1>10 DEF Register, At, Watched, Tasks
  <2>2. UNCHANGED <<db, tmp, conf>> /\ proc' = v
    BY <1>10 DEF Register, disk
  <2>3. [task EXCEPT ![t] = Idle] \in [Tasks -> Local]
    BY ShapeFacts DEF Shape
  <2>4. task' \in [Tasks -> Local]
    BY <1>10, <2>1, <2>3, ShapeFacts DEF Register, Labels
  <2>5. child' \in [Children -> Entry]
    BY <1>10, ShapeFacts DEF Register, Shape
  <2> QED
    BY <2>1, <2>2, <2>4, <2>5 DEF Shape
<1>11. ASSUME NEW t \in Tasks, TakeProc(t) PROVE Shape'
  <2>1. UNCHANGED <<db, tmp, conf>> /\ proc' = NoChild
    BY <1>11 DEF TakeProc, disk
  <2>2. CASE proc # NoChild
    <3>1. proc \in Children /\ child[proc] \in Entry /\ task[t] \in Local
      BY <2>2 DEF Shape
    <3>2. /\ [child[proc] EXCEPT !.shutdown = TRUE] \in Entry
          /\ [task[t] EXCEPT !.at = "await", !.victim = proc] \in Local
      BY <3>1 DEF Entry, Local, Labels
    <3>3. /\ child' = [child EXCEPT ![proc] = [child[proc] EXCEPT !.shutdown = TRUE]]
          /\ task' = [task EXCEPT ![t] = [task[t] EXCEPT !.at = "await", !.victim = proc]]
      BY <1>11, <2>2 DEF TakeProc, Shape
    <3> QED
      BY <2>1, <3>1, <3>2, <3>3 DEF Shape
  <2>3. CASE proc = NoChild
    <3>1. task[t].then \in Labels
      BY DEF Shape, Local, Labels
    <3>2. Finish(t) \/ (Goto(t, task[t].then) /\ child' = child)
      BY <1>11, <2>3 DEF TakeProc
    <3> QED
      BY <2>1, <3>1, <3>2, FinishShape, GotoShape DEF Shape
  <2> QED
    BY <2>2, <2>3
<1>12. ASSUME NEW t \in Tasks, TestProc(t) PROVE FALSE
  BY <1>12 DEF TestProc
<1>13. ASSUME NEW c \in Children, Watch(c) PROVE Shape'
  <2>1. UNCHANGED <<db, tmp, conf>> /\ proc' \in {proc, NoChild} /\ c \in Tasks
    BY <1>13 DEF Watch, Reap, ClearProc, Recheck, StandDown, Count, disk, state, Tasks
  <2>2. CASE Reap(c)
    BY <2>1, <2>2, ShapeFacts, GotoShape DEF Reap, Shape, Labels, Life
  <2>3. ASSUME NEW healthy \in BOOLEAN, ClearProc(c, healthy) PROVE Shape'
    <3>1. task[c] \in Local
      BY <2>1 DEF Shape
    <3>2. [task[c] EXCEPT !.at = "recheck", !.healthy = healthy] \in Local
      BY <3>1 DEF Local, Labels
    <3>3. Finish(c) \/ (/\ task' = [task EXCEPT ![c] = [task[c] EXCEPT !.at = "recheck",
                                                                       !.healthy = healthy]]
                        /\ child' = child)
      BY <2>1, <2>3 DEF ClearProc, Shape
    <3> QED
      BY <2>1, <3>2, <3>3, FinishShape DEF Shape
  <2>4. CASE Recheck(c)
    BY <2>1, <2>4, GotoShape DEF Recheck, Shape, Labels
  <2>5. CASE StandDown(c)
    BY <2>1, <2>5, FinishShape DEF StandDown, Shape
  <2>6. CASE Count(c)
    <3>1. [Idle EXCEPT !.at = "read"] \in Local
      BY DEF Idle, Local, Labels
    <3>2. Finish(c) \/ (task' = [task EXCEPT ![c] = [Idle EXCEPT !.at = "read"]] /\ child' = child)
      BY <2>6 DEF Count
    <3> QED
      BY <2>1, <3>1, <3>2, FinishShape DEF Shape
  <2> QED
    BY <1>13, <2>2, <2>3, <2>4, <2>5, <2>6 DEF Watch
<1>14. ASSUME NEW c \in Children, Load(c) \/ Notice(c) \/ Die(c) \/ Collapse(c) PROVE Shape'
  <2>1. UNCHANGED <<db, proc, tmp, conf, task>>
    BY <1>14 DEF Load, Notice, Die, Collapse, Exit, disk, state
  <2>2. child[c] \in Entry
    BY DEF Shape
  <2>3. /\ [child[c] EXCEPT !.life = "up", !.loaded = conf] \in Entry
        /\ [child[c] EXCEPT !.life = "exited", !.loaded = 0] \in Entry
    BY <2>2 DEF Entry, Shape, Life
  <2>4. \/ child' = [child EXCEPT ![c] = [child[c] EXCEPT !.life = "up", !.loaded = conf]]
        \/ child' = [child EXCEPT ![c] = [child[c] EXCEPT !.life = "exited", !.loaded = 0]]
    BY <1>14 DEF Load, Notice, Die, Collapse, Exit, Shape
  <2> QED
    BY <2>1, <2>3, <2>4 DEF Shape
<1> QED
  BY <1>1, <1>2, <1>3, <1>4, <1>5, <1>6, <1>7, <1>8, <1>9, <1>10, <1>11, <1>12, <1>13, <1>14
  DEF Next, Step

-----------------------------------------------------------------------------
\* A step outside the critical section, of task t or of its child: nobody but
\* t moves, no signal is forgotten, and a new file is about to be signalled.
Outside(t) ==
  /\ \A u \in Tasks \ {t} : task'[u] = task[u]
  /\ \/ task'[t] = task[t]
     \/ /\ task[t].at # "idle" \/ t \notin Children
        /\ task[t].at \notin {"test", "register"}
        /\ task'[t].at \notin {"spawn", "register"} /\ task'[t].then # "spawn"
  /\ \A c \in Children :
       \/ child'[c].life = child[c].life /\ child'[c].loaded = child[c].loaded
       \/ c = t /\ child'[c].life = "free" /\ task'[c].at = "idle" /\ task[c].at # "idle"
       \/ /\ child[c].life # "free" /\ child'[c].life # "free"
          /\ child'[c].life = "up" => child'[c].loaded = conf'
  /\ lock' = lock \/ (lock = t /\ task'[t].at \notin {"spawn", "register"})
  /\ proc' \in {proc, NoChild}
  /\ conf' = conf \/ task'[t].at = "test"

\* Such a step disturbs nothing.
LEMMA OutsideKeeps ==
  ASSUME Shape, Exclusive, Watched, Signalled, NEW t \in Tasks, Outside(t)
  PROVE  Exclusive' /\ Watched' /\ Signalled'
<1>1. \A u \in Tasks : task'[u].at \in {"spawn", "register"} => task'[u] = task[u]
  BY DEF Outside
<1>2. Exclusive'
  <2> SUFFICES ASSUME NEW u \in Tasks
               PROVE  /\ task'[u].at \in {"spawn", "register"} => lock' = u /\ proc' = NoChild
                      /\ task'[u].then # "spawn"
    BY DEF Exclusive
  <2>1. task'[u].then # "spawn"
    BY DEF Outside, Exclusive
  <2>2. ASSUME task'[u].at \in {"spawn", "register"} PROVE lock' = u /\ proc' = NoChild
    BY <1>1, <2>2 DEF Outside, Exclusive
  <2> QED
    BY <2>1, <2>2
<1>3. ASSUME NEW c \in Children, child'[c].life = "free" PROVE task'[c].at = "idle"
  <2>1. c \in Tasks
    BY DEF Tasks
  <2>2. CASE c = t /\ task'[c].at = "idle"
    BY <2>2
  <2>3. CASE child[c].life = "free"
    BY <2>1, <2>3 DEF Outside, Watched
  <2> QED
    BY <1>3, <2>2, <2>3 DEF Outside
<1>4. ASSUME NEW u \in Tasks, task'[u].at = "register"
      PROVE  /\ task'[u].victim \in Children /\ task'[u] = task[u]
             /\ task'[task'[u].victim].at = "idle" /\ child'[task'[u].victim].life # "free"
  <2> DEFINE v == task[u].victim
  <2>1. task'[u] = task[u] /\ v \in Children /\ v \in Tasks
    BY <1>1, <1>4 DEF Watched, Tasks
  <2>2. task[v].at = "idle" /\ child[v].life # "free"
    BY <1>4, <2>1 DEF Watched
  <2>3. task'[v] = task[v]
    BY <2>1, <2>2 DEF Outside
  <2>4. child'[v].life # "free"
    BY <2>1, <2>2 DEF Outside
  <2> QED
    BY <2>1, <2>2, <2>3, <2>4
<1>5. Watched'
  BY <1>3, <1>4 DEF Watched
<1>6. Signalled'
  <2> SUFFICES ASSUME NEW c \in Children, child'[c].life = "up",
                      c = proc' \/ \E u \in Tasks : task'[u].at = "register" /\ task'[u].victim = c
               PROVE  child'[c].loaded = conf' \/ \E u \in Tasks : task'[u].at = "test"
    BY DEF Signalled, Claimed
  <2>1. c = proc \/ \E u \in Tasks : task[u].at = "register" /\ task[u].victim = c
    BY <1>4, SupervisorAssumption DEF Outside, Tasks
  <2>2. CASE conf' # conf
    BY <2>2 DEF Outside
  <2>3. CASE conf' = conf /\ child[c].life = "up" /\ child'[c].loaded = child[c].loaded
    <3>1. child[c].loaded = conf \/ \E u \in Tasks : task[u].at = "test"
      BY <2>1, <2>3 DEF Signalled, Claimed
    <3>2. ASSUME NEW u \in Tasks, task[u].at = "test" PROVE task'[u].at = "test"
      BY <3>2 DEF Outside
    <3> QED
      BY <2>3, <3>1, <3>2
  <2> QED
    BY <2>2, <2>3 DEF Outside
<1> QED
  BY <1>2, <1>5, <1>6

\* The end of a handler or watchdog, seen task by task and child by child.
LEMMA FinishOutside ==
  ASSUME Shape, NEW t \in Tasks, task[t].at # "idle", Finish(t)
  PROVE  /\ \A u \in Tasks \ {t} : task'[u] = task[u]
         /\ task'[t].at = "idle" /\ task'[t].then = "idle"
         /\ \A c \in Children :
              \/ child'[c] = child[c]
              \/ c = t /\ child'[c].life = "free" /\ task'[c].at = "idle" /\ task[c].at # "idle"
<1>1. /\ \A u \in Tasks \ {t} : task'[u] = task[u]
      /\ task'[t].at = "idle" /\ task'[t].then = "idle"
  BY DEF Finish, Idle, Shape
<1>2. ASSUME NEW c \in Children, c # t PROVE child'[c] = child[c]
  BY <1>2 DEF Finish, Shape
<1>3. CASE t \in Children
  <2>1. child'[t].life = "free"
    BY <1>3 DEF Finish, Free, Shape
  <2> QED
    BY <1>1, <1>2, <2>1
<1>4. CASE t \notin Children
  BY <1>1, <1>2, <1>4
<1> QED
  BY <1>3, <1>4

\* A step that takes task t elsewhere.
LEMMA MoveOutside ==
  ASSUME Shape, NEW t \in Tasks, NEW r, task' = [task EXCEPT ![t] = r]
  PROVE  (\A u \in Tasks \ {t} : task'[u] = task[u]) /\ task'[t] = r
BY DEF Shape

LEMMA GotoOutside ==
  ASSUME Shape, NEW t \in Tasks, NEW l, Goto(t, l)
  PROVE  /\ \A u \in Tasks \ {t} : task'[u] = task[u]
         /\ task'[t].at = l /\ task'[t].then = task[t].then
<1>1. task[t] \in Local
  BY DEF Shape
<1>2. task' = [task EXCEPT ![t] = [task[t] EXCEPT !.at = l]]
  BY DEF Goto, Shape
<1>3. [task[t] EXCEPT !.at = l].at = l /\ [task[t] EXCEPT !.at = l].then = task[t].then
  BY <1>1 DEF Local
<1> QED
  BY <1>2, <1>3, MoveOutside

\* A task of the supervisor outside the critical section.
LEMMA TaskOutside ==
  ASSUME Shape, Exclusive, style = "hup", NEW t \in Tasks,
         ReadRows(t) \/ WritePartial(t) \/ Rename(t) \/ TakeProc(t) \/ SeeGone(t) \/ SpawnFails(t)
  PROVE  Outside(t)
<1>0. task[t] \in Local /\ task[t].then # "spawn"
  BY DEF Shape, Exclusive
<1>1. CASE ReadRows(t)
  <2>1. /\ task[t].at = "read" /\ UNCHANGED <<child, lock, proc, conf>>
        /\ \E r \in {[Idle EXCEPT !.at = "write", !.seen = db.version], [Idle EXCEPT !.at = "take"]} :
             task' = [task EXCEPT ![t] = r]
    BY <1>1 DEF ReadRows, At, disk, state
  <2>2. PICK r : /\ task' = [task EXCEPT ![t] = r]
                 /\ r.at \in {"write", "take"} /\ r.then = "idle"
    BY <2>1 DEF Idle
  <2> QED
    BY <2>1, <2>2, MoveOutside DEF Outside
<1>2. CASE WritePartial(t)
  <2>1. /\ task[t].at = "write" /\ UNCHANGED <<child, lock, proc, conf>>
        /\ task' = [task EXCEPT ![t] = [task[t] EXCEPT !.at = "rename", !.seen = 0]]
    BY <1>2 DEF WritePartial, At, state, Shape
  <2>2. /\ [task[t] EXCEPT !.at = "rename", !.seen = 0].at = "rename"
        /\ [task[t] EXCEPT !.at = "rename", !.seen = 0].then = task[t].then
    BY <1>0 DEF Local
  <2> QED
    BY <1>0, <2>1, <2>2, MoveOutside DEF Outside
<1>3. CASE Rename(t)
  <2>1. task[t].at = "rename" /\ UNCHANGED <<lock, proc>>
    BY <1>3 DEF Rename, At, state
  <2>2. CASE Finish(t) /\ conf' = conf
    BY <2>1, <2>2, FinishOutside DEF Outside
  <2>3. CASE Goto(t, "test") /\ child' = child
    BY <1>0, <2>1, <2>3, GotoOutside DEF Outside
  <2> QED
    BY <1>3, <2>2, <2>3 DEF Rename
<1>4. CASE TakeProc(t)
  <2>1. task[t].at = "take" /\ UNCHANGED <<lock, conf>> /\ proc' = NoChild
    BY <1>4 DEF TakeProc, At, disk
  <2>2. CASE proc # NoChild
    <3>1. /\ task' = [task EXCEPT ![t] = [task[t] EXCEPT !.at = "await", !.victim = proc]]
          /\ child' = [child EXCEPT ![proc] = [child[proc] EXCEPT !.shutdown = TRUE]]
      BY <1>4, <2>2 DEF TakeProc, Shape
    <3>2. /\ [task[t] EXCEPT !.at = "await", !.victim = proc].at = "await"
          /\ [task[t] EXCEPT !.at = "await", !.victim = proc].then = task[t].then
      BY <1>0 DEF Local
    <3>3. \A c \in Children : child'[c].life = child[c].life /\ child'[c].loaded = child[c].loaded
      <4>1. proc \in Children /\ child[proc] \in Entry
        BY <2>2 DEF Shape
      <4>2. /\ [child[proc] EXCEPT !.shutdown = TRUE].life = child[proc].life
            /\ [child[proc] EXCEPT !.shutdown = TRUE].loaded = child[proc].loaded
        BY <4>1 DEF Entry
      <4> QED
        BY <3>1, <4>1, <4>2 DEF Shape
    <3> QED
      BY <1>0, <2>1, <3>1, <3>2, <3>3, MoveOutside DEF Outside
  <2>3. CASE proc = NoChild /\ Finish(t)
    BY <2>1, <2>3, FinishOutside DEF Outside
  <2>4. CASE proc = NoChild /\ Goto(t, task[t].then) /\ child' = child
    <3>1. task[t].then \in {"idle", "read"}
      BY <1>0 DEF Local
    <3> QED
      BY <1>0, <2>1, <2>4, <3>1, GotoOutside DEF Outside
  <2> QED
    BY <1>4, <2>2, <2>3, <2>4 DEF TakeProc
<1>5. CASE SeeGone(t)
  <2>1. task[t].at = "await" /\ UNCHANGED <<lock, conf, proc>>
    BY <1>5 DEF SeeGone, At, disk, state
  <2>2. CASE Finish(t)
    BY <2>1, <2>2, FinishOutside DEF Outside
  <2>3. CASE /\ task' = [task EXCEPT ![t] = [task[t] EXCEPT !.at = task[t].then,
                                                            !.victim = NoChild]]
             /\ child' = child
    <3>1. /\ [task[t] EXCEPT !.at = task[t].then, !.victim = NoChild].at \in {"idle", "read"}
          /\ [task[t] EXCEPT !.at = task[t].then, !.victim = NoChild].then # "spawn"
      BY <1>0 DEF Local
    <3> QED
      BY <2>1, <2>3, <3>1, MoveOutside DEF Outside
  <2> QED
    BY <1>5, <2>2, <2>3 DEF SeeGone, Shape
<1>6. CASE SpawnFails(t)
  <2>1. task[t].at = "spawn" /\ UNCHANGED <<conf, proc>> /\ Finish(t)
    BY <1>6 DEF SpawnFails, At, disk
  <2>2. lock = t
    BY <2>1 DEF Exclusive
  <2> QED
    BY <2>1, <2>2, FinishOutside DEF Outside
<1> QED
  BY <1>1, <1>2, <1>3, <1>4, <1>5, <1>6

\* A handler that begins.
LEMMA RequestOutside ==
  ASSUME Shape, Exclusive, NEW t \in Workers, Change(t) \/ Toggle(t) \/ Restart(t)
  PROVE  Outside(t)
<1>1. /\ t \in Tasks /\ t \notin Children /\ task[t].at = "idle" /\ task[t].then # "spawn"
      /\ UNCHANGED <<child, lock, proc, conf>>
  BY SupervisorAssumption
  DEF Change, Toggle, Restart, Request, At, disk, state, Tasks, Exclusive
<1>2. CASE Goto(t, "read")
  BY <1>1, <1>2, GotoOutside DEF Outside
<1>3. CASE task' = [task EXCEPT ![t] = [Idle EXCEPT !.at = "take", !.then = "read"]]
  <2>1. /\ [Idle EXCEPT !.at = "take", !.then = "read"].at = "take"
        /\ [Idle EXCEPT !.at = "take", !.then = "read"].then = "read"
    BY DEF Idle
  <2> QED
    BY <1>1, <1>3, <2>1, MoveOutside DEF Outside
<1> QED
  BY <1>2, <1>3 DEF Change, Toggle, Restart

\* A child and its watchdog.
LEMMA ChildOutside ==
  ASSUME Shape, Exclusive, style = "hup", NEW t \in Children,
         Watch(t) \/ Load(t) \/ Notice(t) \/ Die(t) \/ Collapse(t)
  PROVE  Outside(t)
<1>0. /\ t \in Tasks /\ task[t] \in Local /\ child[t] \in Entry /\ task[t].then # "spawn"
  BY DEF Shape, Exclusive, Tasks
<1>1. CASE Reap(t)
  <2>1. /\ task[t].at = "wait" /\ child[t].life = "exited" /\ Goto(t, "clear")
        /\ UNCHANGED <<lock, proc, conf>>
        /\ child' = [child EXCEPT ![t] = [child[t] EXCEPT !.life = "reaped"]]
    BY <1>1 DEF Reap, At, disk, state, Shape
  <2>2. \A c \in Children : child'[c] = child[c] \/ (c = t /\ child'[c].life = "reaped")
    BY <1>0, <2>1 DEF Shape, Entry
  <2> QED
    BY <1>0, <2>1, <2>2, GotoOutside DEF Outside
<1>2. ASSUME NEW healthy \in BOOLEAN, ClearProc(t, healthy) PROVE Outside(t)
  <2>1. task[t].at = "clear" /\ UNCHANGED <<lock, conf>> /\ proc' = NoChild
    BY <1>2 DEF ClearProc, At, disk
  <2>2. CASE Finish(t)
    BY <1>0, <2>1, <2>2, FinishOutside DEF Outside
  <2>3. CASE /\ task' = [task EXCEPT ![t] = [task[t] EXCEPT !.at = "recheck", !.healthy = healthy]]
             /\ child' = child
    <3>1. /\ [task[t] EXCEPT !.at = "recheck", !.healthy = healthy].at = "recheck"
          /\ [task[t] EXCEPT !.at = "recheck", !.healthy = healthy].then = task[t].then
      BY <1>0 DEF Local
    <3> QED
      BY <1>0, <2>1, <2>3, <3>1, MoveOutside DEF Outside
  <2> QED
    BY <1>2, <2>2, <2>3 DEF ClearProc, Shape
<1>3. CASE Recheck(t)
  <2>1. /\ task[t].at = "recheck" /\ UNCHANGED <<child, lock, conf, proc>>
        /\ Goto(t, "count")
    BY <1>3 DEF Recheck, At, disk, state
  <2> QED
    BY <1>0, <2>1, GotoOutside DEF Outside
<1>4. CASE StandDown(t)
  <2>1. task[t].at = "recheck" /\ UNCHANGED <<lock, conf, proc>> /\ Finish(t)
    BY <1>4 DEF StandDown, At, disk
  <2> QED
    BY <1>0, <2>1, FinishOutside DEF Outside
<1>5. CASE Count(t)
  <2>1. task[t].at = "count" /\ UNCHANGED <<lock, conf, proc>>
    BY <1>5 DEF Count, At, disk
  <2>2. CASE Finish(t)
    BY <1>0, <2>1, <2>2, FinishOutside DEF Outside
  <2>3. CASE task' = [task EXCEPT ![t] = [Idle EXCEPT !.at = "read"]] /\ child' = child
    <3>1. [Idle EXCEPT !.at = "read"].at = "read" /\ [Idle EXCEPT !.at = "read"].then = "idle"
      BY DEF Idle
    <3> QED
      BY <1>0, <2>1, <2>3, <3>1, MoveOutside DEF Outside
  <2> QED
    BY <1>5, <2>2, <2>3 DEF Count
<1>6. CASE Load(t) \/ Die(t) \/ Collapse(t)
  <2>1. child[t].life \in {"loading", "up"} /\ UNCHANGED <<task, lock, proc, conf>>
    BY <1>6 DEF Load, Die, Collapse, Exit, Alive, disk, state
  <2>2. \/ child' = [child EXCEPT ![t] = [child[t] EXCEPT !.life = "up", !.loaded = conf]]
        \/ child' = [child EXCEPT ![t] = [child[t] EXCEPT !.life = "exited", !.loaded = 0]]
    BY <1>6 DEF Load, Die, Collapse, Exit, Shape
  <2>3. \A c \in Children : \/ child'[c] = child[c]
                            \/ c = t /\ child'[c].life = "exited"
                            \/ c = t /\ child'[c].life = "up" /\ child'[c].loaded = conf
    BY <1>0, <2>2 DEF Shape, Entry
  <2> QED
    BY <2>1, <2>3 DEF Outside
<1>7. ~Notice(t)
  BY DEF Notice
<1> QED
  BY <1>1, <1>2, <1>3, <1>4, <1>5, <1>6, <1>7 DEF Watch

-----------------------------------------------------------------------------
(***************************************************************************)
(* The critical section.                                                   *)
(***************************************************************************)
LEMMA NobodyInside ==
  ASSUME Exclusive, LockFree
  PROVE  \A t \in Tasks : task[t].at \notin {"spawn", "register"}
BY SupervisorAssumption DEF Exclusive, LockFree

\* The signal makes the tracked child read the file again, and nobody is
\* registering another.
LEMMA ReloadKeeps ==
  ASSUME Shape, Exclusive, Watched, NEW t \in Tasks, Reload(t)
  PROVE  Exclusive' /\ Watched' /\ Signalled'
<1>1. /\ task[t].at = "test" /\ LockFree /\ UNCHANGED <<lock, proc, conf>>
      /\ task' = [task EXCEPT ![t] = Idle]
  BY DEF Reload, At, disk, state
<1>2. /\ \A u \in Tasks \ {t} : task'[u] = task[u]
      /\ task'[t].at = "idle" /\ task'[t].then = "idle"
  <2>1. Idle.at = "idle" /\ Idle.then = "idle"
    BY DEF Idle
  <2> QED
    BY <1>1, <2>1, MoveOutside
<1>3. \A u \in Tasks : task'[u].at \notin {"spawn", "register"}
  BY <1>1, <1>2, NobodyInside
<1>4. Exclusive'
  BY <1>2, <1>3 DEF Exclusive
<1>5. \A c \in Children : c # t /\ child'[c].life = "free" => child[c].life = "free"
  <2> SUFFICES ASSUME NEW c \in Children, c # t, child'[c].life = "free"
               PROVE  child[c].life = "free"
    OBVIOUS
  <2>1. child[c] \in Entry /\ [child[c] EXCEPT !.life = "loading"].life # "free"
    BY DEF Shape, Entry
  <2> QED
    BY <2>1 DEF Reload
<1>6. Watched'
  BY <1>2, <1>3, <1>5 DEF Watched, Tasks
<1>7. Signalled'
  <2> SUFFICES ASSUME NEW c \in Children, child'[c].life = "up", c = proc PROVE FALSE
    BY <1>1, <1>3 DEF Signalled, Claimed
  <2>1. child[c] \in Entry /\ [child[c] EXCEPT !.life = "loading"].life = "loading"
    BY DEF Shape, Entry
  <2> QED
    BY <2>1 DEF Reload, Alive, Free
<1> QED
  BY <1>4, <1>6, <1>7

\* The lock is free, so nobody else is inside; the slot is empty, so no signal
\* is owed.
LEMMA KeepLockKeeps ==
  ASSUME Shape, Exclusive, Watched, NEW t \in Tasks, KeepLock(t)
  PROVE  Exclusive' /\ Watched' /\ Signalled'
<1>1. /\ task[t].at = "test" /\ LockFree /\ lock' = t /\ proc = NoChild
      /\ UNCHANGED <<proc, conf, child>> /\ Goto(t, "spawn")
  BY DEF KeepLock, At, disk
<1>2. /\ \A u \in Tasks \ {t} : task'[u] = task[u]
      /\ task'[t].at = "spawn" /\ task'[t].then = task[t].then
  BY <1>1, GotoOutside
<1>3. \A u \in Tasks \ {t} : task'[u].at \notin {"spawn", "register"}
  BY <1>1, <1>2, NobodyInside
<1>4. Exclusive'
  BY <1>1, <1>2, <1>3 DEF Exclusive
<1>5. Watched'
  BY <1>1, <1>2, <1>3 DEF Watched, Tasks
<1>6. Signalled'
  BY <1>1, <1>2, <1>3, SupervisorAssumption DEF Signalled, Claimed, Tasks
<1> QED
  BY <1>4, <1>5, <1>6

\* The child chosen is one nobody uses, so its watchdog is idle.
LEMMA SpawnKeeps ==
  ASSUME Shape, Exclusive, Watched, Signalled, NEW t \in Tasks, Spawn(t)
  PROVE  Exclusive' /\ Watched' /\ Signalled'
<1>1. PICK c \in Fresh : /\ child' = [child EXCEPT ![c] = [Free EXCEPT !.life = "loading"]]
                         /\ task' = [task EXCEPT ![t].at = "register", ![t].victim = c]
  BY DEF Spawn
<1>2. task[t].at = "spawn" /\ UNCHANGED <<lock, proc, conf>>
  BY DEF Spawn, At, disk, state
<1>3. /\ c \in Children /\ c \in Tasks /\ child[c].life = "free" /\ task[c].at = "idle"
      /\ child'[c].life = "loading" /\ \A d \in Children \ {c} : child'[d] = child[d]
  BY <1>1 DEF Fresh, Watched, Shape, Free, Tasks
<1>4. task[t] \in Local /\ lock = t /\ proc = NoChild /\ task[t].then # "spawn"
  BY <1>2 DEF Shape, Exclusive
<1>5. /\ \A u \in Tasks \ {t} : task'[u] = task[u]
      /\ task'[t].at = "register" /\ task'[t].then = task[t].then /\ task'[t].victim = c
  <2>1. task' = [task EXCEPT ![t] = [task[t] EXCEPT !.at = "register", !.victim = c]]
    BY <1>1 DEF Shape
  <2>2. /\ [task[t] EXCEPT !.at = "register", !.victim = c].at = "register"
        /\ [task[t] EXCEPT !.at = "register", !.victim = c].then = task[t].then
        /\ [task[t] EXCEPT !.at = "register", !.victim = c].victim = c
    BY <1>4 DEF Local
  <2> QED
    BY <2>1, <2>2, MoveOutside
<1>6. \A u \in Tasks \ {t} : task'[u].at \notin {"spawn", "register"}
  BY <1>4, <1>5 DEF Exclusive
<1>7. Exclusive'
  BY <1>2, <1>4, <1>5, <1>6 DEF Exclusive
<1>8. Watched'
  BY <1>2, <1>3, <1>5, <1>6 DEF Watched, Tasks
<1>9. Signalled'
  <2> SUFFICES ASSUME NEW d \in Children, child'[d].life = "up",
                      d = proc \/ \E u \in Tasks : task'[u].at = "register" /\ task'[u].victim = d
               PROVE  FALSE
    BY <1>2 DEF Signalled, Claimed
  <2>1. d = c
    BY <1>4, <1>5, <1>6, SupervisorAssumption DEF Tasks
  <2> QED
    BY <1>3, <2>1
<1> QED
  BY <1>7, <1>8, <1>9

\* The registered child becomes the tracked one; a signal it is owed stays owed.
LEMMA RegisterKeeps ==
  ASSUME Shape, Exclusive, Watched, Signalled, NEW t \in Tasks, Register(t)
  PROVE  Exclusive' /\ Watched' /\ Signalled' /\ proc = NoChild
<1> DEFINE v == task[t].victim
<1>1. /\ task[t].at = "register" /\ proc' = v /\ lock' = NoChild /\ UNCHANGED conf
      /\ task' = [task EXCEPT ![t] = Idle, ![v].at = "wait"]
      /\ child' = IF t \in Children THEN [child EXCEPT ![t] = Free] ELSE child
  BY DEF Register, At, disk
<1>2. /\ v \in Children /\ v \in Tasks /\ task[v].at = "idle" /\ child[v].life # "free" /\ v # t
      /\ lock = t /\ proc = NoChild
  BY <1>1 DEF Watched, Exclusive, Tasks
<1>3. /\ \A u \in Tasks \ {t, v} : task'[u] = task[u]
      /\ task'[t].at = "idle" /\ task'[t].then = "idle"
      /\ task'[v].at = "wait" /\ task'[v].then = task[v].then
  <2>1. task[v] \in Local
    BY <1>2 DEF Shape
  <2>2. task' = [task EXCEPT ![t] = Idle, ![v] = [task[v] EXCEPT !.at = "wait"]]
    BY <1>1, <1>2 DEF Shape
  <2>3. /\ [task[v] EXCEPT !.at = "wait"].at = "wait"
        /\ [task[v] EXCEPT !.at = "wait"].then = task[v].then
    BY <2>1 DEF Local
  <2> QED
    BY <1>2, <2>2, <2>3 DEF Shape, Idle
<1>4. \A u \in Tasks : task'[u].at \notin {"spawn", "register"}
  BY <1>2, <1>3 DEF Exclusive
<1>5. Exclusive'
  BY <1>2, <1>3, <1>4 DEF Exclusive
<1>6. \A c \in Children : IF c = t THEN child'[c].life = "free" ELSE child'[c] = child[c]
  BY <1>1 DEF Shape, Free
<1>7. Watched'
  BY <1>2, <1>3, <1>4, <1>6 DEF Watched, Tasks
<1>8. Signalled'
  <2> SUFFICES ASSUME NEW c \in Children, child'[c].life = "up", c = v
               PROVE  child'[c].loaded = conf \/ \E u \in Tasks : task'[u].at = "test"
    BY <1>1, <1>4 DEF Signalled, Claimed
  <2>1. child[c].loaded = conf \/ \E u \in Tasks : task[u].at = "test"
    BY <1>1, <1>2, <1>6 DEF Signalled, Claimed
  <2>2. ASSUME NEW u \in Tasks, task[u].at = "test" PROVE task'[u].at = "test"
    BY <1>1, <1>2, <1>3, <2>2
  <2> QED
    BY <1>2, <1>6, <2>1, <2>2
<1> QED
  BY <1>2, <1>5, <1>7, <1>8

-----------------------------------------------------------------------------
\* Each action, by where it stands to the critical section.
LEMMA NextSplit ==
  ASSUME Shape, Exclusive, style = "hup", Next
  PROVE  \E t \in Tasks : Outside(t) \/ Reload(t) \/ KeepLock(t) \/ Spawn(t) \/ Register(t)
<1>1. ASSUME NEW t \in Tasks, Step(t)
      PROVE  Outside(t) \/ Reload(t) \/ KeepLock(t) \/ Spawn(t) \/ Register(t)
  <2>1. ~TestProc(t)
    BY DEF TestProc
  <2> QED
    BY <1>1, <2>1, TaskOutside DEF Step
<1>2. ASSUME NEW t \in Workers, Change(t) \/ Toggle(t) \/ Restart(t) PROVE Outside(t) /\ t \in Tasks
  BY <1>2, RequestOutside DEF Tasks
<1>3. ASSUME NEW t \in Children, Watch(t) \/ Load(t) \/ Notice(t) \/ Die(t) \/ Collapse(t)
      PROVE  Outside(t) /\ t \in Tasks
  BY <1>3, ChildOutside DEF Tasks
<1> QED
  BY <1>1, <1>2, <1>3 DEF Next

LEMMA HupStep == HupInv /\ [Next]_vars => HupInv'
<1> SUFFICES ASSUME HupInv, [Next]_vars PROVE HupInv'
  OBVIOUS
<1>1. CASE UNCHANGED vars
  BY <1>1
  DEF vars, HupInv, Shape, Exclusive, Watched, Signalled, Claimed
<1>2. CASE Next
  <2>1. style' = style
    BY <1>2
    DEF Next, Step, Watch, Change, Toggle, Restart, Request, ReadRows, WritePartial, Rename,
        Reload, KeepLock, TestProc, Spawn, SpawnFails, Register, TakeProc, SeeGone, Reap,
        ClearProc, Recheck, StandDown, Count, Load, Notice, Die, Collapse, Exit
  <2> SUFFICES ASSUME style = "hup" PROVE Shape' /\ Exclusive' /\ Watched' /\ Signalled'
    BY <2>1 DEF HupInv
  <2>2. Shape /\ Exclusive /\ Watched /\ Signalled
    BY DEF HupInv
  <2>3. Shape'
    BY <1>2, <2>2, ShapeStep
  <2> QED
    BY <1>2, <2>2, <2>3, NextSplit, OutsideKeeps, ReloadKeeps, KeepLockKeeps, SpawnKeeps,
       RegisterKeeps
<1> QED
  BY <1>1, <1>2

\* For every number of children, handlers, requests, crashes and failed
\* spawns: when everything is still, the tracked child of a hup supervisor
\* runs on the file that is on disk (xray/supervisor.rs, ensure_running).
THEOREM FileLoadedEver == Spec => []FileLoaded
<1>1. HupInv => FileLoaded
  BY DEF HupInv, Signalled, Claimed, FileLoaded, Quiet, Shape
<1> QED
  BY <1>1, HupInit, HupStep, PTL DEF Spec

\* In the same instances: two ensure_running calls of a hup supervisor never
\* overwrite each other's entry, whatever watchdogs and stops clear meanwhile.
THEOREM NoOverwriteEver == Spec => NoOverwrite
<1>1. HupInv /\ [Next]_vars => [style = "hup" /\ proc # NoChild => proc' \in {proc, NoChild}]_vars
  <2> SUFFICES ASSUME HupInv, Next, style = "hup", proc # NoChild
               PROVE  proc' \in {proc, NoChild}
    OBVIOUS
  <2>1. Shape /\ Exclusive /\ Watched /\ Signalled
    BY DEF HupInv
  <2>2. PICK t \in Tasks : Outside(t) \/ Reload(t) \/ KeepLock(t) \/ Spawn(t) \/ Register(t)
    BY <2>1, NextSplit
  <2>3. ~Register(t)
    BY <2>1, RegisterKeeps
  <2> QED
    BY <2>2, <2>3 DEF Outside, Reload, KeepLock, Spawn, state
<1> QED
  BY <1>1, HupInit, HupStep, PTL DEF Spec, NoOverwrite
=============================================================================
