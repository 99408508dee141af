------------------------------- MODULE Roster -------------------------------
(***************************************************************************)
(* The AmneziaWG client roster and its way to the kernel: the rows of      *)
(* clients_table, the address block of the interface row, the file         *)
(* awg0.conf and the peers the kernel admits; the client handlers of       *)
(* api/clients.rs, the interface handlers of api/admin.rs, the expiry job  *)
(* and the startup of wg/mod.rs as concurrent tasks.                       *)
(*                                                                         *)
(* Every db:: helper takes the connection's mutex for one statement or one *)
(* transaction, so a task's atomic steps are its database calls and its    *)
(* file and subprocess calls.  Adjacent reads are one step where only the  *)
(* later one is used later.                                                *)
(***************************************************************************)
EXTENDS IpPool, FiniteSets

CONSTANTS
  MaxClients,   \* bound: client ids ever handed out by AUTOINCREMENT
  Users,        \* accounts of role 0
  Admin,        \* an account of role >= 1
  Quota,        \* MAX_CLIENTS_PER_USER
  Workers,      \* tasks that run request handlers
  Cron,         \* the task that runs cron_job every 60 s
  Main,         \* the task that runs startup()
  Cidrs,        \* the blocks an admin may set
  Expiries,     \* the expires_at values the creates carry
  Changes,      \* the updates requested in this instance
  Ops,          \* the requests that arrive in this instance
  FaultKinds,   \* {"save", "crash"}: what may go wrong in this instance
  MaxFaults,    \* bound: failed saves and crashes
  MaxSaves,     \* bound: tasks inside save_config or awg-quick at a time
  Absent,       \* no row under this id
  Keep          \* a column the update leaves alone

Actors == Users \union {Admin}
Tasks == Workers \union {Cron, Main}
ClientId == 1 .. MaxClients

\* What expires_at holds: nothing, an RFC 3339 instant ahead or behind, or
\* the datetime-local form that is_valid_expiry also accepts.
Expiry == {"none", "ahead", "behind", "local_ahead", "local_behind"}

Row == [ip : Addr, enabled : BOOLEAN, expiry : Expiry, owner : Actors]

Change == [ip : Addr \union {Keep}, enabled : BOOLEAN \union {Keep},
           expiry : Expiry \union {Keep}]

NoChange == [ip |-> Keep, enabled |-> Keep, expiry |-> Keep]

ASSUME RosterAssumption ==
  /\ MaxClients \in Nat /\ Quota \in Nat \ {0}
  /\ MaxSaves \in Nat \ {0} /\ MaxFaults \in Nat
  /\ IsFiniteSet(Workers) /\ IsFiniteSet(Users)
  /\ Cron # Main /\ Cron \notin Workers /\ Main \notin Workers
  /\ Admin \notin Users
  /\ Cidrs \subseteq Cidr /\ Cidrs # {}
  /\ Expiries \subseteq Expiry /\ Changes \subseteq Change \ {NoChange}
  /\ Absent \notin Row
  /\ Keep \notin Addr /\ Keep \notin BOOLEAN /\ Keep \notin Expiry

Requests == {"create", "update", "enable", "disable", "delete", "cidr",
             "iface", "restart"}

Job == [op : Requests \union {"none", "cron", "boot", "bringup"},
        id : ClientId \union {0},
        owner : Actors,
        cidr : Cidr,
        change : Change,
        todo : SUBSET ClientId,      \* rows of the snapshot still to visit
        given : SUBSET Addr]         \* addresses change_cidr handed out

PC == {"idle", "create.iface", "create.alloc", "update.commit",
       "delete.commit", "cidr.list", "cidr.assign", "cron.disable",
       "save.render", "save.open", "save.write", "save.strip", "save.sync",
       "link.down", "link.read", "link.set"}

Block == [pos : Nat, id : ClientId, ip : Addr]   \* a [Peer] block of a file
Peer  == [id : ClientId, ip : Addr]              \* a peer of the kernel

VARIABLES
  iface,     \* interfaces_table.ipv4_cidr
  roster,    \* clients_table
  nextId,    \* the AUTOINCREMENT counter
  conf,      \* the [Peer] blocks of awg0.conf
  linkUp,    \* the interface exists
  kernel,    \* its peers
  pc, job,   \* where each task is, and its local variables
  body,      \* the configuration text a saving task holds
  faults,    \* failures so far
  revoked    \* ids whose delete_client has answered 200

vars == <<iface, roster, nextId, conf, linkUp, kernel, pc, job, body, faults,
          revoked>>

db    == <<iface, roster, nextId>>
files == <<conf, linkUp, kernel, body>>
ghosts == <<faults, revoked>>

-----------------------------------------------------------------------------
NoJob == [op |-> "none", id |-> 0, owner |-> Admin,
          cidr |-> CHOOSE c \in Cidrs : TRUE, change |-> NoChange,
          todo |-> {}, given |-> {}]

Ids(r)        == {i \in ClientId : r[i] # Absent}
EnabledIds(r) == {i \in Ids(r) : r[i].enabled}
UsedAddrs(r)  == {r[i].ip : i \in Ids(r)}
OwnedBy(r, u) == {i \in Ids(r) : r[i].owner = u}

Smallest(S) == CHOOSE i \in S : \A j \in S : i <= j

\* The peer blocks save_config renders: enabled clients in id order.
RankIn(S, i) == Cardinality({j \in S : j <= i})

\* Faulty variant: the check of client.enabled is dropped.
Blocks_All(r) ==
  {[pos |-> RankIn(Ids(r), i), id |-> i, ip |-> r[i].ip] : i \in Ids(r)}

Blocks(r) ==
  {[pos |-> RankIn(EnabledIds(r), i), id |-> i, ip |-> r[i].ip] :
     i \in EnabledIds(r)}

\* A write at offset 0 over what another writer left past its end.
Overlay(new, old) == new \union {b \in old : b.pos > Cardinality(new)}

\* What awg-quick strip and awg syncconf make of a file.
PeersOf(blocks) == {[id |-> b.id, ip |-> b.ip] : b \in blocks}

KernelIds == {p.id : p \in kernel}

\* Between the render and the end of syncconf, or of awg-quick up.
Publishing(t) ==
  pc[t] \in {"save.open", "save.write", "save.strip", "save.sync",
            "link.read", "link.set"}

MayPublish == Cardinality({t \in Tasks : Publishing(t)}) < MaxSaves

\* Requests are served and the expiry job runs once startup has returned.
Serving == pc[Main] = "idle"

Arrives(op, t) == Serving /\ t \in Workers /\ pc[t] = "idle" /\ op \in Ops

At(t, label)   == pc[t] = label
Goto(t, label) == pc' = [pc EXCEPT ![t] = label]

\* The handler answers: its locals are gone.
Answer(t) ==
  /\ Goto(t, "idle")
  /\ job' = [job EXCEPT ![t] = NoJob]

\* startup ignores the outcome of its save, restarts the interface and syncs
\* once more.
SaveReturns(t) ==
  IF job[t].op = "boot"
  THEN Goto(t, "link.down") /\ job' = [job EXCEPT ![t].op = "bringup"]
  ELSE Answer(t)

-----------------------------------------------------------------------------
Init ==
  /\ iface \in Cidrs
  /\ roster = [i \in ClientId |-> Absent] /\ nextId = 1
  /\ conf = {} /\ linkUp = TRUE /\ kernel = {}
  /\ pc = [t \in Tasks |-> "idle"] /\ job = [t \in Tasks |-> NoJob]
  /\ body = [t \in Tasks |-> {}]
  /\ faults = 0 /\ revoked = {}

(***************************************************************************)
(* create_client: count, then read the interface row, then allocate and    *)
(* insert in one transaction.                                              *)
(***************************************************************************)
\* Faulty variant: the count may reach the quota and one more.
CreateCheckQuota_OffByOne(t, u) ==
  /\ Arrives("create", t)
  /\ Cardinality(OwnedBy(roster, u)) <= Quota
  /\ Goto(t, "create.iface")
  /\ job' = [job EXCEPT ![t] = [NoJob EXCEPT !.op = "create", !.owner = u]]
  /\ UNCHANGED <<db, files, ghosts>>

CreateCheckQuota(t, u) ==
  /\ Arrives("create", t)
  /\ Cardinality(OwnedBy(roster, u)) < Quota
  /\ Goto(t, "create.iface")
  /\ job' = [job EXCEPT ![t] = [NoJob EXCEPT !.op = "create", !.owner = u]]
  /\ UNCHANGED <<db, files, ghosts>>

\* The admin is exempt from the quota.
CreateReadIface(t) ==
  /\ \/ At(t, "create.iface")
     \/ Arrives("create", t)
  /\ Goto(t, "create.alloc")
  /\ job' = [job EXCEPT ![t] = [@ EXCEPT !.op = "create", !.cidr = iface]]
  /\ UNCHANGED <<db, files, ghosts>>

\* Faulty variant: the handler answers before it saves.
CreateAlloc_NoSave(t, e) ==
  LET ip == NextIpv4(job[t].cidr, UsedAddrs(roster)) IN
  /\ At(t, "create.alloc") /\ nextId \in ClientId
  /\ ip # NoAddr
  /\ roster' = [roster EXCEPT ![nextId] =
                 [ip |-> ip, enabled |-> TRUE, expiry |-> e, owner |-> job[t].owner]]
  /\ nextId' = nextId + 1
  /\ Answer(t)
  /\ UNCHANGED <<iface, files, ghosts>>

CreateAlloc(t, e) ==
  LET ip == NextIpv4(job[t].cidr, UsedAddrs(roster)) IN
  /\ At(t, "create.alloc") /\ nextId \in ClientId
  /\ ip # NoAddr
  /\ roster' = [roster EXCEPT ![nextId] =
                 [ip |-> ip, enabled |-> TRUE, expiry |-> e, owner |-> job[t].owner]]
  /\ nextId' = nextId + 1
  /\ Goto(t, "save.render")
  /\ UNCHANGED <<iface, job, files, ghosts>>

\* No address left (or, in this instance, no id): the handler answers 500.
CreateExhausted(t) ==
  /\ At(t, "create.alloc")
  /\ \/ NextIpv4(job[t].cidr, UsedAddrs(roster)) = NoAddr
     \/ nextId \notin ClientId
  /\ Answer(t)
  /\ UNCHANGED <<db, files, ghosts>>

(***************************************************************************)
(* update_client, enable_client, disable_client: the row is read for its   *)
(* owner and a new address is tested against the interface row; the write  *)
(* follows.  An admin may send any of them for any row, the owner all but  *)
(* a new address: the requester makes no difference to what may arrive.    *)
(***************************************************************************)
Begin(t, op, id, change, label) ==
  /\ Goto(t, label)
  /\ job' = [job EXCEPT ![t] = [NoJob EXCEPT !.op = op, !.id = id, !.change = change]]
  /\ UNCHANGED <<db, files, ghosts>>

UpdateCheck(t) ==
  /\ Arrives("update", t)
  /\ \E id \in Ids(roster), change \in Changes :
       /\ change.ip # Keep => InCidr(change.ip, iface)
       /\ Begin(t, "update", id, change, "update.commit")

ToggleCheck(t, on) ==
  LET op == IF on THEN "enable" ELSE "disable" IN
  /\ Arrives(op, t)
  /\ \E id \in Ids(roster) :
       Begin(t, op, id, [NoChange EXCEPT !.enabled = on], "update.commit")

Changed(row, change) ==
  [row EXCEPT !.ip      = IF change.ip = Keep THEN @ ELSE change.ip,
              !.enabled = IF change.enabled = Keep THEN @ ELSE change.enabled,
              !.expiry  = IF change.expiry = Keep THEN @ ELSE change.expiry]

\* UPDATE ... WHERE id = ?; a row deleted meanwhile is no error.
WithChange(r, id, change) ==
  IF r[id] = Absent THEN r ELSE [r EXCEPT ![id] = Changed(@, change)]

\* Faulty variant: the column has no UNIQUE index.
Conflicts_Never(r, id, ip) == FALSE

\* clients_table.ipv4_address is UNIQUE.
Conflicts(r, id, ip) ==
  /\ r[id] # Absent
  /\ \E j \in Ids(r) \ {id} : r[j].ip = ip

UpdateCommit(t) ==
  LET id == job[t].id  change == job[t].change IN
  /\ At(t, "update.commit")
  /\ IF Conflicts(roster, id, change.ip)
     THEN Answer(t) /\ UNCHANGED roster
     ELSE /\ roster' = WithChange(roster, id, change)
          /\ Goto(t, "save.render") /\ UNCHANGED job
  /\ UNCHANGED <<iface, nextId, files, ghosts>>

(***************************************************************************)
(* delete_client                                                           *)
(***************************************************************************)
DeleteCheck(t) ==
  /\ Arrives("delete", t)
  /\ \E id \in Ids(roster) : Begin(t, "delete", id, NoChange, "delete.commit")

DeleteCommit(t) ==
  /\ At(t, "delete.commit")
  /\ IF roster[job[t].id] = Absent
     THEN Answer(t) /\ UNCHANGED roster
     ELSE /\ roster' = [roster EXCEPT ![job[t].id] = Absent]
          /\ Goto(t, "save.render") /\ UNCHANGED job
  /\ UNCHANGED <<iface, nextId, files, ghosts>>

(***************************************************************************)
(* change_cidr: the new block, the list of clients, then one client after  *)
(* the other in id order.                                                  *)
(***************************************************************************)
ChangeCidrBegin(t, c) ==
  /\ Arrives("cidr", t)
  /\ iface' = c
  /\ job' = [job EXCEPT ![t] = [NoJob EXCEPT !.op = "cidr", !.cidr = c]]
  /\ Goto(t, "cidr.list")
  /\ UNCHANGED <<roster, nextId, files, ghosts>>

ChangeCidrList(t) ==
  /\ At(t, "cidr.list")
  /\ job' = [job EXCEPT ![t].todo = Ids(roster)]
  /\ Goto(t, IF Ids(roster) = {} THEN "save.render" ELSE "cidr.assign")
  /\ UNCHANGED <<db, files, ghosts>>

ChangeCidrAssign(t) ==
  LET id == Smallest(job[t].todo)
      ip == NextIpv4(job[t].cidr, job[t].given) IN
  /\ At(t, "cidr.assign")
  /\ IF ip = NoAddr \/ Conflicts(roster, id, ip)
     THEN Answer(t) /\ UNCHANGED roster
     ELSE /\ roster' = WithChange(roster, id, [NoChange EXCEPT !.ip = ip])
          /\ job' = [job EXCEPT ![t].todo = @ \ {id}, ![t].given = @ \union {ip}]
          /\ Goto(t, IF job[t].todo = {id} THEN "save.render" ELSE "cidr.assign")
  /\ UNCHANGED <<iface, nextId, files, ghosts>>

\* update_interface: the columns are written as they come, then saved.
SetInterfaceCidr(t, c) ==
  /\ Arrives("iface", t)
  /\ iface' = c
  /\ job' = [job EXCEPT ![t].op = "iface"]
  /\ Goto(t, "save.render")
  /\ UNCHANGED <<roster, nextId, files, ghosts>>

(***************************************************************************)
(* cron_job: the snapshot and the clock are read once; each row found      *)
(* expired is then disabled by a statement of its own.                     *)
(***************************************************************************)
Overdue(row) == row.enabled /\ row.expiry = "behind"

\* parse_rfc3339 does not read the datetime-local form: such a row is passed.
CronScan ==
  LET late == {i \in Ids(roster) : Overdue(roster[i])} IN
  /\ Serving /\ At(Cron, "idle")
  /\ late # {}
  /\ job' = [job EXCEPT ![Cron] = [NoJob EXCEPT !.op = "cron", !.todo = late]]
  /\ Goto(Cron, "cron.disable")
  /\ UNCHANGED <<db, files, ghosts>>

\* Faulty variant: needs_save is never set.
CronDisable_NoSave ==
  LET id == Smallest(job[Cron].todo) IN
  /\ At(Cron, "cron.disable")
  /\ roster' = WithChange(roster, id, [NoChange EXCEPT !.enabled = FALSE])
  /\ IF job[Cron].todo = {id}
     THEN Answer(Cron)
     ELSE /\ job' = [job EXCEPT ![Cron].todo = @ \ {id}]
          /\ Goto(Cron, "cron.disable")
  /\ UNCHANGED <<iface, nextId, files, ghosts>>

CronDisable ==
  LET id == Smallest(job[Cron].todo) IN
  /\ At(Cron, "cron.disable")
  /\ roster' = WithChange(roster, id, [NoChange EXCEPT !.enabled = FALSE])
  /\ job' = [job EXCEPT ![Cron].todo = @ \ {id}]
  /\ Goto(Cron, IF job[Cron].todo = {id} THEN "save.render" ELSE "cron.disable")
  /\ UNCHANGED <<iface, nextId, files, ghosts>>

(***************************************************************************)
(* save_config: read the rows and render, truncate the file, write it,     *)
(* read it back through awg-quick strip, hand the result to awg syncconf.  *)
(***************************************************************************)
Render(t) ==
  /\ At(t, "save.render") /\ MayPublish
  /\ body' = [body EXCEPT ![t] = Blocks(roster)]
  /\ Goto(t, "save.open")
  /\ UNCHANGED <<db, conf, linkUp, kernel, job, ghosts>>

\* Faulty variant: the file is opened without truncation.
OpenTrunc_Keep(t) ==
  /\ At(t, "save.open")
  /\ Goto(t, "save.write")
  /\ UNCHANGED <<db, conf, linkUp, kernel, job, body, ghosts>>

OpenTrunc(t) ==
  /\ At(t, "save.open")
  /\ conf' = {}
  /\ Goto(t, "save.write")
  /\ UNCHANGED <<db, linkUp, kernel, job, body, ghosts>>

WriteConf(t) ==
  /\ At(t, "save.write")
  /\ conf' = Overlay(body[t], conf)
  /\ Goto(t, "save.strip")
  /\ UNCHANGED <<db, linkUp, kernel, job, body, ghosts>>

Strip(t) ==
  /\ At(t, "save.strip")
  /\ body' = [body EXCEPT ![t] = conf]
  /\ Goto(t, "save.sync")
  /\ UNCHANGED <<db, conf, linkUp, kernel, job, ghosts>>

\* delete_client answers 200 only after this step.
SyncConf(t) ==
  /\ At(t, "save.sync")
  /\ linkUp
  /\ kernel' = PeersOf(body[t])
  /\ revoked' = IF job[t].op = "delete" THEN revoked \union {job[t].id} ELSE revoked
  /\ body' = [body EXCEPT ![t] = {}]
  /\ SaveReturns(t)
  /\ UNCHANGED <<db, conf, linkUp, faults>>

\* No interface to sync to: save_config fails, the handler answers 500.
SyncNoLink(t) ==
  /\ At(t, "save.sync")
  /\ ~linkUp
  /\ body' = [body EXCEPT ![t] = {}]
  /\ SaveReturns(t)
  /\ UNCHANGED <<db, conf, linkUp, kernel, ghosts>>

\* A full disk, a failing subprocess: save_config returns early.
SaveFails(t) ==
  /\ "save" \in FaultKinds /\ faults < MaxFaults
  /\ pc[t] \in {"save.open", "save.write", "save.strip", "save.sync"}
  /\ faults' = faults + 1
  /\ body' = [body EXCEPT ![t] = {}]
  /\ SaveReturns(t)
  /\ UNCHANGED <<db, conf, linkUp, kernel, revoked>>

(***************************************************************************)
(* restart (restart_interface, and the end of startup): awg-quick down,    *)
(* then awg-quick up, which reads the file before it sets the peers.       *)
(***************************************************************************)
RestartArrives(t) ==
  /\ Arrives("restart", t)
  /\ job' = [job EXCEPT ![t].op = "restart"]
  /\ Goto(t, "link.down")
  /\ UNCHANGED <<db, files, ghosts>>

LinkDown(t) ==
  /\ At(t, "link.down") /\ MayPublish
  /\ linkUp' = FALSE /\ kernel' = {}
  /\ Goto(t, "link.read")
  /\ UNCHANGED <<db, conf, body, job, ghosts>>

\* awg-quick up fails if the interface exists already.
LinkRead(t) ==
  /\ At(t, "link.read")
  /\ IF linkUp
     THEN Answer(t) /\ UNCHANGED <<linkUp, body>>
     ELSE /\ linkUp' = TRUE
          /\ body' = [body EXCEPT ![t] = conf]
          /\ Goto(t, "link.set") /\ UNCHANGED job
  /\ UNCHANGED <<db, conf, kernel, ghosts>>

LinkSet(t) ==
  /\ At(t, "link.set")
  /\ kernel' = IF linkUp THEN PeersOf(body[t]) ELSE kernel
  /\ body' = [body EXCEPT ![t] = {}]
  /\ IF job[t].op = "bringup" THEN Goto(t, "save.strip") /\ UNCHANGED job
                              ELSE Answer(t)
  /\ UNCHANGED <<db, conf, linkUp, ghosts>>

(***************************************************************************)
(* The process dies and startup runs again.  The database is durable; the  *)
(* interface outlives the process or not, the file is as it was left.      *)
(***************************************************************************)
Crash ==
  /\ "crash" \in FaultKinds /\ faults < MaxFaults
  /\ faults' = faults + 1
  /\ pc' = [t \in Tasks |-> IF t = Main THEN "save.render" ELSE "idle"]
  /\ job' = [t \in Tasks |-> IF t = Main THEN [NoJob EXCEPT !.op = "boot"] ELSE NoJob]
  /\ body' = [t \in Tasks |-> {}]
  /\ \/ UNCHANGED <<linkUp, kernel>>
     \/ linkUp' = FALSE /\ kernel' = {}
  /\ UNCHANGED <<db, conf, revoked>>

TimePasses(id) ==
  /\ id \in Ids(roster) /\ roster[id].expiry \in {"ahead", "local_ahead"}
  /\ roster' = [roster EXCEPT ![id].expiry =
                  IF @ = "ahead" THEN "behind" ELSE "local_behind"]
  /\ UNCHANGED <<iface, nextId, files, pc, job, ghosts>>

-----------------------------------------------------------------------------
Request(t) ==
  \/ \E u \in Users : CreateCheckQuota(t, u)
  \/ CreateReadIface(t)
  \/ UpdateCheck(t)
  \/ \E on \in BOOLEAN : ToggleCheck(t, on)
  \/ DeleteCheck(t)
  \/ \E c \in Cidrs : ChangeCidrBegin(t, c) \/ SetInterfaceCidr(t, c)
  \/ RestartArrives(t)

Proceed(t) ==
  \/ \E e \in Expiries \union {"none"} : CreateAlloc(t, e)
  \/ CreateExhausted(t)
  \/ UpdateCommit(t) \/ DeleteCommit(t)
  \/ ChangeCidrList(t) \/ ChangeCidrAssign(t)

Publish(t) ==
  \/ OpenTrunc(t) \/ WriteConf(t) \/ Strip(t) \/ SyncConf(t) \/ SyncNoLink(t)
  \/ LinkRead(t) \/ LinkSet(t)

Next ==
  \/ \E t \in Workers : Request(t) \/ Proceed(t)
  \/ CronScan \/ CronDisable
  \/ \E t \in Tasks : Render(t) \/ LinkDown(t) \/ Publish(t) \/ SaveFails(t)
  \/ Crash
  \/ \E id \in ClientId : TimePasses(id)

Spec == Init /\ [][Next]_vars
\* A task inside a handler runs on; the mutexes and the subprocesses return.
\* Requests, failures, crashes and the clock have no fairness.  A task at
\* save.render waits for the others of this instance only.
Fairness ==
  /\ \A t \in Tasks :
       /\ WF_vars(Proceed(t)) /\ WF_vars(Publish(t))
       /\ SF_vars(Render(t)) /\ SF_vars(LinkDown(t))
  /\ WF_vars(CronScan) /\ WF_vars(CronDisable)

FairSpec == Spec /\ Fairness

-----------------------------------------------------------------------------
\* Every variable keeps the shape its column, file or local has.
TypeOK ==
  /\ iface \in Cidr
  /\ roster \in [ClientId -> Row \union {Absent}]
  /\ nextId \in Nat \ {0}
  /\ conf \subseteq Block /\ kernel \subseteq Peer /\ linkUp \in BOOLEAN
  /\ pc \in [Tasks -> PC] /\ job \in [Tasks -> Job]
  /\ body \in [Tasks -> SUBSET Block]
  /\ faults \in Nat /\ revoked \subseteq ClientId \union {0}

Wanted == {[id |-> i, ip |-> roster[i].ip] : i \in EnabledIds(roster)}

Owed == \E t \in Tasks : pc[t] \in {"cron.disable", "save.render"}

\* "Save AmneziaWG config to disk and sync to running interface"
\* (wg/mod.rs:94): whenever the kernel's peers are not the enabled rows of
\* the roster, some task still has to render or is on its way to syncconf.
AccessCovered ==
  kernel # Wanted => Owed \/ \E t \in Tasks : Publishing(t)

\* The peers on their way to the kernel, as ConfigPublisher sees them.
Snapshot ==
  IF \E t \in Tasks : pc[t] \in {"save.strip", "link.read"} THEN PeersOf(conf)
  ELSE IF \E t \in Tasks : Publishing(t)
       THEN PeersOf(body[CHOOSE t \in Tasks : Publishing(t)])
       ELSE Absent

Publisher == INSTANCE ConfigPublisher WITH
  NoSnapshot <- Absent, wanted <- Wanted, owed <- Owed,
  taken <- Snapshot, live <- kernel

\* One save or restart at a time and no failure: the handlers, the expiry job
\* and the file between them implement the promise of ConfigPublisher.
PublisherSpec == Publisher!Spec

\* Once delete_client has answered 200 the client has no peer in the kernel,
\* nor in the file the next awg-quick up reads, whatever fails, crashes or
\* restarts later.
RevokedStaysOut ==
  \A i \in revoked : i \notin KernelIds /\ i \notin {b.id : b \in conf}

\* Two peers of the kernel never claim one address: the later one would take
\* the traffic of the earlier one.
KernelAddressesUnique ==
  \A p, q \in kernel : p.ip = q.ip => p = q

\* create_client's count and insert are separate calls: an account exceeds
\* MAX_CLIENTS_PER_USER by no more than the handlers that run at a time.
QuotaBound ==
  \A u \in Users :
    Cardinality(OwnedBy(roster, u)) <= Quota - 1 + Cardinality(Workers)

\* "Maximum AmneziaWG clients a non-admin user may create" (clients.rs:27).
QuotaKept == \A u \in Users : Cardinality(OwnedBy(roster, u)) <= Quota

\* "Reassign all client IPs" (admin.rs:740): when change_cidr turns to its
\* save every client has a host address of the new block, not the server's.
CidrMoved ==
  \A t \in Workers, i \in Ids(roster) :
    At(t, "save.render") /\ job[t].op = "cidr" =>
      roster[i].ip \in HostsV4(iface) \ {ServerAddr(iface)}

\* "expire clients" (wg/mod.rs:215): the job disables no client whose
\* expiry, as the row has it at that moment, is not behind.
CronOnlyDisablesExpired ==
  [][CronDisable =>
       LET id == Smallest(job[Cron].todo) IN
       roster[id] # Absent /\ roster[id].enabled => Overdue(roster[id])]_vars

\* An address test that "blocks privilege escalation via IP self-assignment
\* to gateways" (clients.rs:516): no client has the server's address.
NoClientHasServerAddr == \A i \in Ids(roster) : roster[i].ip # ServerAddr(iface)

WorkersIdle == \A t \in Workers : At(t, "idle")

Expired(i) == i \in Ids(roster) /\ roster[i].expiry = "behind"

ExpiredLocal(i) == i \in Ids(roster) /\ roster[i].expiry = "local_behind"

\* "Background cron expires clients/one-time-links every 60 s" (README:42):
\* once requests cease, a client whose expiry is behind leaves the kernel, unless
\* it was renewed.
ExpiryEnforced ==
  <>[]WorkersIdle => \A i \in ClientId :
                       (Expired(i) ~> ~Expired(i) \/ i \notin KernelIds)

\* The same of the datetime-local form, which is_valid_expiry accepts.
LocalExpiryEnforced ==
  <>[]WorkersIdle => \A i \in ClientId :
                       (ExpiredLocal(i) ~> ~ExpiredLocal(i) \/ i \notin KernelIds)
=============================================================================
