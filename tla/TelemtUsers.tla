---------------------------- MODULE TelemtUsers ----------------------------
(***************************************************************************)
(* The users of the MTProxy daemon telemt: rows in mtproxy_users_table,    *)
(* pushed to telemt's own store over its loopback API by the admin         *)
(* handlers (api/mtproxy.rs) and by a background task that each            *)
(* ensure_running starts (mtproxy/supervisor.rs), through an HTTP client   *)
(* with a deadline (mtproxy/client.rs).                                    *)
(*                                                                         *)
(* telemt itself is external: a call has its effect or not, whatever the   *)
(* caller is told; a fresh telemt knows no user.                           *)
(***************************************************************************)
EXTENDS Naturals, FiniteSets

CONSTANTS
  Users,         \* user names
  Tags,          \* ad tags; NoTag is NULL, and "" what an update writes for it
  NoTag,
  Admins,        \* admin requests in flight at once
  Reconcilers,         \* bound: reconciling tasks at once
  Inbounds,      \* rows of mtproxy_inbound_table an update may leave
  MaxUserSecrets \* bound: secrets drawn

VARIABLES
  mtproxy,   \* the row of mtproxy_inbound_table
  rows,      \* mtproxy_users_table: secret and tag of each user
  telemt,    \* "down", "starting" or "up"
  store,     \* telemt's users
  calls,     \* admin requests between their write and their call
  tasks,     \* the reconciling tasks
  lastSecret,
  owed,      \* history: users whose last push failed, or met another task
  unsure     \* history: users whose last secret may not be telemt's

telemtVars ==
  <<mtproxy, rows, telemt, store, calls, tasks, lastSecret, owed, unsure>>

NoCall == [op |-> "none"]
Gone   == [at |-> "none"]

(***************************************************************************)
(* The inbound.                                                            *)
(***************************************************************************)
\* update_inbound: a port that is no number passes.
InboundAccepted(in) == in.port # "out of range" /\ in.tag # "odd" /\ in.domain # "odd"

\* The row can be read: its port is a number.
Readable(in) == in.port # "text"

\* should_remain_disabled
Refused(in) ==
  \/ ~ in.enabled
  \/ in.modes = {}
  \/ "tls" \in in.modes /\ in.domain = ""

\* config::validate, and so generate.
Renders(in) == ~ Refused([in EXCEPT !.enabled = TRUE]) /\ InboundAccepted(in)

(***************************************************************************)
(* Calls.                                                                  *)
(***************************************************************************)
\* What the store holds of a tag: NULL and "" are no tag.
Normal(tag) == IF tag = "" THEN NoTag ELSE tag

With(s, u, row) == [v \in DOMAIN s \union {u} |-> IF v = u THEN row ELSE s[v]]
Without(s, u)   == [v \in DOMAIN s \ {u} |-> s[v]]

Created(s, u, secret, tag) == With(s, u, [secret |-> secret, tag |-> Normal(tag)])

\* The store after a call, when the call is carried out.
After(s, c) ==
  CASE c.op = "create" -> IF c.user \in DOMAIN s THEN s ELSE Created(s, c.user, c.secret, c.tag)
    [] c.op = "rotate" -> IF c.user \in DOMAIN s THEN [s EXCEPT ![c.user].secret = c.secret] ELSE s
    [] c.op = "tag"    -> IF c.user \in DOMAIN s THEN [s EXCEPT ![c.user].tag = Normal(c.tag)] ELSE s
    [] c.op = "delete" -> Without(s, c.user)

\* telemt answers 2xx; 409 for a user it has, 404 for one it has not, which
\* delete_user takes for success.
Granted(s, c) ==
  CASE c.op = "create" -> c.user \notin DOMAIN s
    [] c.op = "delete" -> TRUE
    [] OTHER           -> c.user \in DOMAIN s

-----------------------------------------------------------------------------
TelemtTypeOK ==
  /\ mtproxy \in Inbounds /\ telemt \in {"down", "starting", "up"}
  /\ DOMAIN rows \subseteq Users /\ DOMAIN store \subseteq Users
  /\ \A t \in Reconcilers : tasks[t].at \in {"none", "wait", "list", "push"}
  /\ owed \subseteq Users /\ unsure \subseteq Users
  /\ lastSecret \in 0 .. MaxUserSecrets

TelemtInit ==
  /\ mtproxy \in Inbounds /\ ~ mtproxy.enabled
  /\ rows = <<>> /\ telemt = "down" /\ store = <<>>
  /\ calls = [a \in Admins |-> NoCall]
  /\ tasks = [t \in Reconcilers |-> Gone]
  /\ lastSecret = 0 /\ owed = {} /\ unsure = {}

\* The tasks that hold a snapshot.
Holding == {t \in Reconcilers : tasks[t].at \in {"list", "push"}}

\* A user changes under the tasks that hold a snapshot.
Disturb(u) ==
  tasks' = [t \in Reconcilers |-> IF t \in Holding THEN [tasks[t] EXCEPT !.met = @ \union {u}]
                            ELSE tasks[t]]

(***************************************************************************)
(* The admin requests: the row first, then one call.                       *)
(***************************************************************************)
Write(a, call, newRows) ==
  /\ calls[a] = NoCall
  /\ rows' = newRows
  /\ calls' = [calls EXCEPT ![a] = call]
  /\ Disturb(call.user)
  /\ UNCHANGED <<mtproxy, telemt, store, owed, unsure>>

CreateUser(a, u, tag) ==
  /\ u \notin DOMAIN rows /\ lastSecret < MaxUserSecrets
  /\ lastSecret' = lastSecret + 1
  /\ Write(a, [op |-> "create", user |-> u, secret |-> lastSecret + 1, tag |-> tag],
           With(rows, u, [secret |-> lastSecret + 1, tag |-> tag]))

RotateSecret(a, u) ==
  /\ u \in DOMAIN rows /\ lastSecret < MaxUserSecrets
  /\ lastSecret' = lastSecret + 1
  /\ Write(a, [op |-> "rotate", user |-> u, secret |-> lastSecret + 1],
           [rows EXCEPT ![u].secret = lastSecret + 1])

\* update_user: a tag, or "" for none.
UpdateUser(a, u, tag) ==
  /\ u \in DOMAIN rows
  /\ Write(a, [op |-> "tag", user |-> u, tag |-> tag], [rows EXCEPT ![u].tag = tag])
  /\ UNCHANGED lastSecret

DeleteUser(a, u) ==
  /\ u \in DOMAIN rows
  /\ Write(a, [op |-> "delete", user |-> u], Without(rows, u))
  /\ UNCHANGED lastSecret

\* The users in doubt once a call has ended: it failed, or it ran while a task
\* held a snapshot.
Doubts(c, ok) ==
  /\ owed' = IF ~ ok \/ Holding # {} THEN owed \union {c.user} ELSE owed
  /\ unsure' = IF c.op \notin {"create", "rotate"} THEN unsure
               ELSE IF ok THEN unsure \ {c.user} ELSE unsure \union {c.user}

\* The call goes through, is refused or cannot connect, or its outcome is lost
\* (a time-out, or the handler is dropped with its client).
Push(a) ==
  LET c == calls[a]
  IN /\ c # NoCall
     /\ \/ /\ telemt = "up" /\ Granted(store, c)
           /\ store' = After(store, c) /\ Doubts(c, TRUE)
        \/ /\ store' \in {store} \union (IF telemt = "up" THEN {After(store, c)} ELSE {})
           /\ Doubts(c, FALSE)
     /\ calls' = [calls EXCEPT ![a] = NoCall]
     /\ Disturb(c.user)
     /\ UNCHANGED <<mtproxy, rows, telemt, lastSecret>>

(***************************************************************************)
(* telemt, and ensure_running.                                             *)
(***************************************************************************)
StartTask(t) == tasks' = [tasks EXCEPT ![t] = [at |-> "wait"]]

\* A task to start; they are alike.
Idle == {t \in Reconcilers : tasks[t] = Gone}
NewTask == IF Idle = {} THEN {} ELSE {CHOOSE t \in Idle : TRUE}

\* A telemt with an empty store, and a task to fill it; the snapshots of the
\* tasks before it are worth nothing.
Spawn ==
  \E t \in NewTask :
    /\ telemt' = "starting" /\ store' = <<>>
    /\ owed' = Users /\ unsure' = {}
    /\ tasks' = [s \in Reconcilers |-> IF s = t THEN [at |-> "wait"]
                                      ELSE IF s \in Holding THEN [tasks[s] EXCEPT !.met = Users]
                                      ELSE tasks[s]]

\* ensure_running after the row was read: stop, leave a running telemt to
\* reload the file, or spawn.
EnsureRunning(in) ==
  \/ /\ Readable(in) /\ Refused(in)
     /\ telemt' = "down" /\ store' = <<>>
     /\ UNCHANGED <<tasks, owed, unsure>>
  \/ /\ Readable(in) /\ ~ Refused(in) /\ Renders(in)
     /\ \/ telemt = "down" /\ Spawn
        \/ /\ telemt # "down" /\ \E t \in NewTask : StartTask(t)
           /\ UNCHANGED <<telemt, store, owed, unsure>>
  \* it cannot be read, or the spawn fails
  \/ /\ ~ Readable(in) \/ (telemt = "down" /\ ~ Refused(in))
     /\ UNCHANGED <<telemt, store, tasks, owed, unsure>>

UpdateInbound(in) ==
  /\ InboundAccepted(in)
  /\ mtproxy' = in
  /\ EnsureRunning(in)
  /\ UNCHANGED <<rows, calls, lastSecret>>

\* telemt dies, or is stopped to be restarted.
Dies ==
  /\ telemt # "down"
  /\ telemt' = "down" /\ store' = <<>>
  /\ UNCHANGED <<mtproxy, rows, calls, tasks, lastSecret, owed, unsure>>

\* The watchdog, or the admin's restart, starts another.
Respawn ==
  /\ telemt = "down"
  /\ Readable(mtproxy) /\ ~ Refused(mtproxy) /\ Renders(mtproxy)
  /\ Spawn
  /\ UNCHANGED <<mtproxy, rows, calls, lastSecret>>

\* telemt's API listens.
Alive ==
  /\ telemt = "starting"
  /\ telemt' = "up"
  /\ UNCHANGED <<mtproxy, rows, store, calls, tasks, lastSecret, owed, unsure>>

(***************************************************************************)
(* reconcile_users_now.                                                    *)
(***************************************************************************)
\* wait_until_alive, then the rows are listed.
Awake(t) ==
  /\ tasks[t].at = "wait" /\ telemt = "up"
  /\ tasks' = [tasks EXCEPT ![t] =
       [at |-> "list", want |-> rows,
        met |-> IF Holding = {} THEN {calls[a].user : a \in {b \in Admins : calls[b] # NoCall}}
                ELSE Users]]
  /\ UNCHANGED <<mtproxy, rows, telemt, store, calls, lastSecret, owed, unsure>>

\* 30 seconds without an answer, or the users cannot be listed: the task ends
\* there.
TaskFails(t) ==
  /\ tasks[t].at \in {"wait", "list"}
  /\ tasks' = [tasks EXCEPT ![t] = Gone]
  /\ owed' = Users
  /\ UNCHANGED <<mtproxy, rows, telemt, store, calls, lastSecret, unsure>>

\* telemt's users are listed; the names to go through are the rows', then those
\* telemt has beyond them.
ListUsers(t) ==
  /\ tasks[t].at = "list" /\ telemt = "up"
  /\ tasks' = [tasks EXCEPT ![t] =
       [at |-> "push", want |-> @.want, met |-> @.met, seen |-> store,
        todo |-> DOMAIN @.want \union DOMAIN store]]
  /\ UNCHANGED <<mtproxy, rows, telemt, store, calls, lastSecret, owed, unsure>>

\* Faulty variant: users telemt has and the database has not are left.
CallFor_NoReap(k, u) ==
  IF u \notin DOMAIN k.want THEN NoCall
  ELSE IF u \notin DOMAIN k.seen
  THEN [op |-> "create", user |-> u, secret |-> k.want[u].secret, tag |-> k.want[u].tag]
  ELSE IF k.seen[u].tag # k.want[u].tag
  THEN [op |-> "tag", user |-> u, tag |-> k.want[u].tag] ELSE NoCall

\* Faulty variant: the secret of the create is not the row's.
CallFor_OldSecret(k, u) ==
  IF u \notin DOMAIN k.want THEN [op |-> "delete", user |-> u]
  ELSE IF u \notin DOMAIN k.seen
  THEN [op |-> "create", user |-> u, secret |-> 0, tag |-> k.want[u].tag]
  ELSE IF k.seen[u].tag # k.want[u].tag
  THEN [op |-> "tag", user |-> u, tag |-> k.want[u].tag] ELSE NoCall

\* The call a name is due: an orphan is deleted, a missing user created, a tag
\* that differs patched.  "" differs from no tag.
CallFor(k, u) ==
  IF u \notin DOMAIN k.want THEN [op |-> "delete", user |-> u]
  ELSE IF u \notin DOMAIN k.seen
  THEN [op |-> "create", user |-> u, secret |-> k.want[u].secret, tag |-> k.want[u].tag]
  ELSE IF k.seen[u].tag # k.want[u].tag
  THEN [op |-> "tag", user |-> u, tag |-> k.want[u].tag] ELSE NoCall

\* A push of another task changes the user under the other holders.
Pushed(t, u, met) ==
  tasks' = [s \in Reconcilers |->
    IF s = t THEN [tasks[t] EXCEPT !.todo = @ \ {u}, !.met = met]
    ELSE IF s \in Holding THEN [tasks[s] EXCEPT !.met = @ \union {u}] ELSE tasks[s]]

\* A create carries the secret of the task's snapshot, stale when the user
\* changed since.
Stale(k, c) ==
  IF c.op = "create" /\ c.user \in k.met THEN unsure \union {c.user} ELSE unsure

\* One name: a call that fails is logged and the next name is taken.
Reconcile(t, u) ==
  LET k == tasks[t]
      c == CallFor(k, u)
  IN /\ k.at = "push" /\ u \in k.todo
     /\ u \in DOMAIN k.want \/ k.todo \cap DOMAIN k.want = {}
     /\ IF c = NoCall
        THEN Pushed(t, u, k.met) /\ UNCHANGED <<store, owed, unsure>>
        ELSE \/ /\ telemt = "up" /\ Granted(store, c)
                /\ store' = After(store, c)
                /\ Pushed(t, u, k.met)
                /\ unsure' = Stale(k, c)
                /\ UNCHANGED owed
             \/ /\ store' \in {store} \union (IF telemt = "up" THEN {After(store, c)} ELSE {})
                /\ Pushed(t, u, k.met \union {u})
                /\ unsure' = Stale(k, c)
                /\ UNCHANGED owed
     /\ UNCHANGED <<mtproxy, rows, telemt, calls, lastSecret>>

\* The task is through: nothing is owed to the users it met nobody about.
TaskEnds(t) ==
  /\ tasks[t].at = "push" /\ tasks[t].todo = {}
  /\ owed' = tasks[t].met
  /\ tasks' = [tasks EXCEPT ![t] = Gone]
  /\ UNCHANGED <<mtproxy, rows, telemt, store, calls, lastSecret, unsure>>
-----------------------------------------------------------------------------
TaskStep(t) ==
  Awake(t) \/ TaskFails(t) \/ ListUsers(t) \/ (\E u \in Users : Reconcile(t, u)) \/ TaskEnds(t)

TelemtNext ==
  \/ \E a \in Admins, u \in Users :
       \/ \E tag \in Tags \union {NoTag} : CreateUser(a, u, tag)
       \/ RotateSecret(a, u)
       \/ \E tag \in Tags \union {""} : UpdateUser(a, u, tag)
       \/ DeleteUser(a, u)
  \/ \E a \in Admins : Push(a)
  \/ \E in \in Inbounds : UpdateInbound(in)
  \/ \E t \in Reconcilers : TaskStep(t)
  \/ Respawn
  \/ Dies \/ Alive

TelemtSpec == TelemtInit /\ [][TelemtNext]_telemtVars

(***************************************************************************)
(* Properties.                                                             *)
(***************************************************************************)
Quiet == telemt = "up" /\ Holding = {} /\ \A a \in Admins : calls[a] = NoCall

\* One reconcile that meets no other request and no failed call makes telemt's
\* users those of the database, orphans deleted, and successful calls keep
\* them so ("idempotent ... awg-easy-rs the durable source of truth",
\* mtproxy/supervisor.rs:401, 510); telemt's restarts start over.
RosterMatches ==
  Quiet =>
    \A u \in Users \ owed :
      /\ u \in DOMAIN rows <=> u \in DOMAIN store
      /\ u \in DOMAIN rows => store[u].tag = Normal(rows[u].tag)

\* The secret telemt accepts is the one the database hands out, unless the last
\* call that carried it failed or a reconcile created the user from rows that
\* had changed since: no later reconcile compares it (supervisor.rs:474-479).
SecretsMatch ==
  Quiet =>
    \A u \in (DOMAIN rows \cap DOMAIN store) \ unsure : store[u].secret = rows[u].secret
=============================================================================
