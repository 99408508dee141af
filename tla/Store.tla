------------------------------- MODULE Store -------------------------------
(***************************************************************************)
(* The life of the database: opened from a file of this or an older release *)
(* (or restored into RAM from a snapshot), brought to the current schema    *)
(* statement by statement, seeded, set up by INIT_* or by the wizard,       *)
(* snapshotted, and stopped or killed at any point.  db.rs and what main.rs *)
(* does with it, with api/setup.rs and init_setup.rs.                       *)
(*                                                                         *)
(* A database is abstracted to what can be missing after an upgrade: its    *)
(* tables, the columns that some migration adds, the singleton rows; the    *)
(* setup data; "ver", the number of writes it has seen; and "edited", a     *)
(* history: an admin has set one of the two ports alone since a setup wrote *)
(* them.  Columns that every release had are not distinguished.  Each       *)
(* statement commits alone.                                                 *)
(***************************************************************************)
EXTENDS Integers, Sequences, FiniteSets, SequencesExt

CONSTANTS
  Modes,        \* subset of {"disk", "ram"}: IN_MEMORY unset or set
  Inits,        \* subset of {"off", "good", "bad"}: INIT_ENABLED, with a valid
                \* list or one that is refused
  Reqs,         \* requests of the wizard
  Predates,     \* sets of services an earlier release may have lacked
  Applied,      \* numbers of migrations it may have applied
  Ports,        \* ports submitted to the wizard
  Edits,        \* ports an admin submits later, for one of the two rows alone
  MaxCrashes, MaxWrites, MaxSnapshots   \* bounds

VARIABLES
  mode,      \* fixed at the start
  init,      \* fixed at the start: the INIT_* environment
  phase,     \* down, boot, init, serving, draining, exited
  file,      \* the durable file: a database, NoFile, or Corrupt
  db,        \* the open database; in disk mode the same as file
  boot,      \* the statement to run next, and what boot decided
  req,       \* wizard requests
  periodic,  \* the snapshot task: idle, copying, or the image it holds
  final,     \* the last snapshot, of main
  used,      \* crashes, snapshots
  floor      \* history: the version the last completed periodic snapshot holds

vars == <<mode, init, phase, file, db, boot, req, periodic, final, used, floor>>

NoFile == [kind |-> "none"]
Corrupt == [kind |-> "corrupt"]

------------------------------------------------------------------------------
(* The schema                                                                *)

BaseTables == <<"interfaces", "clients", "users", "user_configs", "hooks", "general",
                "one_time_links">>

ServiceTables == <<"dns_bundle", "xray_inbound", "xray_clients", "proxy_settings",
                   "mtproxy_inbound", "mtproxy_users", "mdnsvpn_inbound", "mdnsvpn_clients">>

Tables == ToSet(BaseTables) \cup ToSet(ServiceTables)

\* Tables of exactly one row.
Singletons == {"interfaces", "user_configs", "hooks", "general", "dns_bundle", "xray_inbound",
               "proxy_settings", "mtproxy_inbound", "mdnsvpn_inbound"}

\* The columns added after a table's first release, in migration order.
Migrations ==
  <<<<"clients", "advanced_security">>, <<"users", "totp_last_step">>,
    <<"interfaces", "additional_config">>, <<"clients", "additional_config">>,
    <<"user_configs", "default_additional_config">>,
    <<"interfaces", "dns_lockdown">>, <<"interfaces", "dns_lockdown_target">>,
    <<"interfaces", "dns_block_external">>,
    <<"xray_inbound", "transport">>, <<"xray_inbound", "xhttp_path">>,
    <<"proxy_settings", "max_sessions">>, <<"proxy_settings", "session_ttl">>>>

\* What the current DDL gives a table it creates.
Columns(t) ==
  LET added == {<<"clients", "advanced_security">>, <<"clients", "additional_config">>,
                <<"users", "totp_last_step">>,
                <<"interfaces", "additional_config">>, <<"interfaces", "dns_lockdown">>,
                <<"interfaces", "dns_lockdown_target">>, <<"interfaces", "dns_block_external">>,
                <<"user_configs", "default_additional_config">>,
                <<"xray_inbound", "transport">>, <<"xray_inbound", "xhttp_path">>,
                <<"proxy_settings", "max_sessions">>, <<"proxy_settings", "session_ttl">>}
  IN {c \in added : c[1] = t}

\* Read without a fallback by a from_row constructor or a query: the others of
\* the list above are tolerated when missing.
RequiredToRead ==
  {<<"users", "totp_last_step">>,
   <<"xray_inbound", "transport">>, <<"xray_inbound", "xhttp_path">>,
   <<"proxy_settings", "max_sessions">>, <<"proxy_settings", "session_ttl">>}

\* Named by a VALID_*_COLUMNS list, an INSERT or an UPDATE.
RequiredToWrite ==
  {<<"clients", "advanced_security">>, <<"clients", "additional_config">>,
   <<"users", "totp_last_step">>,
   <<"interfaces", "additional_config">>, <<"interfaces", "dns_lockdown">>,
   <<"interfaces", "dns_lockdown_target">>, <<"interfaces", "dns_block_external">>,
   <<"user_configs", "default_additional_config">>,
   <<"xray_inbound", "transport">>, <<"xray_inbound", "xhttp_path">>,
   <<"proxy_settings", "max_sessions">>, <<"proxy_settings", "session_ttl">>}

Backfilled_NoDns == \* Faulty variant: a table of a later release is forgotten.
  <<"xray_inbound", "mtproxy_inbound", "mdnsvpn_inbound">>

\* ensure_singleton_rows.
Backfilled == <<"xray_inbound", "dns_bundle", "mtproxy_inbound", "mdnsvpn_inbound">>

\* seed_if_empty, in its order.
Seeds == <<"interfaces", "general", "hooks", "user_configs", "xray_inbound",
           "proxy_settings", "mtproxy_inbound", "mdnsvpn_inbound">>

NoData == [kind |-> "db", tables |-> {}, cols |-> {}, rows |-> {}, legacy |-> FALSE,
           users |-> 0, step |-> 1, uport |-> 0, iport |-> 0, edited |-> FALSE, ver |-> 0]

\* The tables that came with a service.
Later == [proxy |-> {"proxy_settings"},
          mtproxy |-> {"mtproxy_inbound", "mtproxy_users"},
          mdnsvpn |-> {"mdnsvpn_inbound", "mdnsvpn_clients"},
          xray |-> {"xray_inbound", "xray_clients"},
          dns |-> {"dns_bundle"}]

\* What a release left that lacked some services and had applied k migrations:
\* its wizard not begun, or finished, and the interface's port edited since.
OldFile(missing, k, setup) ==
  LET tables == Tables \ UNION {Later[g] : g \in missing}
  IN [kind |-> "db", tables |-> tables,
      cols |-> {c \in {Migrations[i] : i \in 1 .. k} : c[1] \in tables},
      rows |-> Singletons \cap tables, legacy |-> (k = 0),
      users |-> IF setup = "fresh" THEN 0 ELSE 1, step |-> IF setup = "fresh" THEN 1 ELSE 0,
      uport |-> 0, iport |-> IF setup = "edited" THEN CHOOSE p \in Edits : TRUE ELSE 0,
      edited |-> (setup = "edited"), ver |-> 0]

OldFiles ==
  {OldFile(m, k, setup) : m \in Predates, k \in Applied, setup \in {"fresh", "done", "edited"}}

Idle == [at |-> "idle", port |-> 0]

\* A snapshot task: idle, copying, holding an image, or done (of main's).
NoImage == [at |-> "idle", image |-> NoData]
Task(at, d) == [at |-> at, image |-> d]

------------------------------------------------------------------------------
(* Boot: init_db as a program of statements                                  *)

Statements(do, seq) == [i \in 1 .. Len(seq) |-> [do |-> do, on |-> seq[i]]]

Program ==
  Statements("create", BaseTables) \o Statements("create", ServiceTables)
    \o Statements("alter", Migrations)
    \o <<[do |-> "hooks", on |-> "hooks"]>>
    \o Statements("insert", Backfilled)
    \o <<[do |-> "decide", on |-> "general"]>>
    \o Statements("seed", Seeds)

Insert(d, t) == [d EXCEPT !.rows = @ \cup {t}]

\* CREATE TABLE IF NOT EXISTS; ALTER behind column_exists; the hooks that still
\* say iptables; INSERT OR IGNORE.
Effect(st, d) ==
  CASE st.do = "create" -> IF st.on \in d.tables THEN d
                           ELSE [d EXCEPT !.tables = @ \cup {st.on}, !.cols = @ \cup Columns(st.on)]
    [] st.do = "alter" -> [d EXCEPT !.cols = @ \cup {st.on}]
    [] st.do = "hooks" -> [d EXCEPT !.legacy = FALSE]
    [] st.do = "insert" -> Insert(d, st.on)
    [] st.do = "seed" -> IF boot.seeding THEN Insert(d, st.on) ELSE d
    [] OTHER -> d

Init ==
  /\ mode \in Modes
  /\ init \in Inits
  /\ file \in OldFiles \cup {NoFile} \cup (IF mode = "ram" THEN {Corrupt} ELSE {})
  /\ phase = "down"
  /\ db = NoData
  /\ boot = [pc |-> 1, restored |-> FALSE, seeding |-> FALSE, step |-> "user"]
  /\ req = [r \in Reqs |-> Idle]
  /\ periodic = NoImage
  /\ final = NoImage
  /\ used = [crashes |-> 0, snapshots |-> 0]
  /\ floor = 0

\* A database on disk is its file.
Commit(d) ==
  /\ db' = d
  /\ file' = IF mode = "disk" THEN d ELSE file

\* An UPDATE of a singleton that is not there changes nothing and succeeds.
Set(d, t, field, v) ==
  [(IF t \in d.rows THEN [d EXCEPT ![field] = v] ELSE d) EXCEPT !.ver = @ + 1]

\* update_host_port, of a setup: the interface's port is written next.
UpdateHostPort(d, p) == [Set(d, "user_configs", "uport", p) EXCEPT !.edited = FALSE]

\* The file is opened; a snapshot that is absent, empty or fails its check
\* leaves an empty database.  (So does one that passes and then fails to load,
\* which is left out: it would lose what the file holds.)
Open ==
  /\ phase = "down"
  /\ LET found == file.kind = "db"
     IN /\ db' = IF found THEN file ELSE NoData
        /\ boot' = [pc |-> 1, restored |-> mode = "ram" /\ found, seeding |-> FALSE, step |-> "user"]
  /\ phase' = "boot"
  /\ UNCHANGED <<mode, init, file, req, periodic, final, used, floor>>

\* One statement; seed_if_empty decides once, and is not called on a restored
\* database.
Boot ==
  /\ phase = "boot"
  /\ boot.pc <= Len(Program)
  /\ LET st == Program[boot.pc]
     IN /\ Commit(Effect(st, db))
        /\ boot' = [boot EXCEPT !.pc = @ + 1,
                      !.seeding = IF st.do = "decide" THEN "general" \notin db.rows /\ ~boot.restored
                                  ELSE @]
  /\ UNCHANGED <<mode, init, phase, req, periodic, final, used, floor>>

Opened ==
  /\ phase = "boot"
  /\ boot.pc > Len(Program)
  /\ phase' = "init"
  /\ UNCHANGED <<mode, init, file, db, boot, req, periodic, final, used, floor>>

------------------------------------------------------------------------------
(* run_init_setup: each write commits alone and an error abandons the rest   *)

InitSetup(at, next, d) ==
  /\ phase = "init" /\ boot.step = at
  /\ Commit(d)
  /\ boot' = [boot EXCEPT !.step = next]
  /\ UNCHANGED <<mode, init, phase, req, periodic, final, used, floor>>

InitPort == CHOOSE p \in Ports : TRUE

InitUser ==
  /\ init # "off" /\ db.users = 0
  /\ InitSetup("user", "host", [db EXCEPT !.users = 1, !.ver = @ + 1])

InitHost == InitSetup("host", "iface", UpdateHostPort(db, InitPort))

InitIface == InitSetup("iface", "lists", Set(db, "interfaces", "iport", InitPort))

\* INIT_DNS and INIT_ALLOWED_IPS, checked as they are stored.
InitLists ==
  /\ init = "good"
  /\ InitSetup("lists", "done", [db EXCEPT !.ver = @ + 1])

InitDone == InitSetup("done", "end", Set(db, "general", "step", 0))

\* INIT_ENABLED is off, a user exists, all was done, or an entry was refused.
Serve ==
  /\ phase = "init"
  /\ \/ boot.step = "user" /\ (init = "off" \/ db.users > 0)
     \/ boot.step = "lists" /\ init = "bad"
     \/ boot.step = "end"
  /\ phase' = "serving"
  /\ UNCHANGED <<mode, init, file, db, boot, req, periodic, final, used, floor>>

------------------------------------------------------------------------------
(* The setup wizard and other writes                                         *)

Ask(r, what) ==
  /\ phase = "serving"
  /\ req[r] = Idle
  /\ db.ver < MaxWrites
  /\ "general" \in db.rows
  /\ req' = [req EXCEPT ![r] = what]
  /\ UNCHANGED <<mode, init, phase, file, db, boot, periodic, final, used, floor>>

Handle(r, at, next, d) ==
  /\ phase \in {"serving", "draining"}
  /\ req[r].at = at
  /\ Commit(d)
  /\ req' = [req EXCEPT ![r] = IF next = "idle" THEN Idle ELSE [@ EXCEPT !.at = next]]
  /\ UNCHANGED <<mode, init, phase, boot, periodic, final, used, floor>>

\* POST /api/setup/2: the step is read, then the user created, then the step
\* advanced.
Setup2(r) ==
  /\ db.step \in {1, 2} \/ (db.step = 0 /\ db.users = 0)
  /\ Ask(r, [at |-> "user", port |-> 0])

CreateUser(r) == Handle(r, "user", "advance", [db EXCEPT !.users = @ + 1, !.ver = @ + 1])

Advance(r) == Handle(r, "advance", "idle", Set(db, "general", "step", 3))

\* POST /api/setup/4: host and port, the interface's port, then step 0.
Setup4(r) ==
  /\ db.step = 3
  /\ \E p \in Ports : Ask(r, [at |-> "host", port |-> p])

SetHost(r) ==
  Handle(r, "host", "iface", UpdateHostPort(db, req[r].port))

SetIface_Last(r) == \* Faulty variant: the wizard is closed before its last write.
  Handle(r, "iface", "complete", Set(db, "general", "step", 0))

SetIface(r) ==
  Handle(r, "iface", "complete", Set(db, "interfaces", "iport", req[r].port))

Complete(r) == Handle(r, "complete", "idle", Set(db, "general", "step", 0))

OtherWrite(d) ==
  /\ phase = "serving"
  /\ db.ver < MaxWrites
  /\ Commit(d)
  /\ UNCHANGED <<mode, init, phase, boot, req, periodic, final, used, floor>>

\* POST /api/admin/userconfig and /api/admin/interface: an admin sets the port
\* clients are told, or the one the interface listens on, and not the other.
\* (Bound: the first such edit after a setup.)
EditPort(p) ==
  /\ db.users > 0 /\ ~db.edited
  /\ \/ OtherWrite([Set(db, "user_configs", "uport", p) EXCEPT !.edited = TRUE])
     \/ OtherWrite([Set(db, "interfaces", "iport", p) EXCEPT !.edited = TRUE])

\* Any other committed write: of neither port.
Write == OtherWrite([db EXCEPT !.ver = @ + 1])

------------------------------------------------------------------------------
(* Snapshots: db::snapshot_to, by the periodic task and by main              *)

Running == phase \in {"serving", "draining", "final"}

Tick_InPlace == \* Faulty variant: the copy is written over the previous snapshot.
  /\ mode = "ram" /\ Running
  /\ periodic.at = "idle"
  /\ used.snapshots < MaxSnapshots
  /\ used' = [used EXCEPT !.snapshots = @ + 1]
  /\ periodic' = Task("copying", NoData)
  /\ file' = Corrupt
  /\ UNCHANGED <<mode, init, phase, db, boot, req, final, floor>>

\* A tick of the interval: the private directory is made, on a blocking thread.
Tick ==
  /\ mode = "ram" /\ Running
  /\ periodic.at = "idle"
  /\ used.snapshots < MaxSnapshots
  /\ used' = [used EXCEPT !.snapshots = @ + 1]
  /\ periodic' = Task("copying", NoData)
  /\ UNCHANGED <<mode, init, phase, file, db, boot, req, final, floor>>

\* The online backup, under the connection's lock.
Copy ==
  /\ periodic.at = "copying"
  /\ periodic' \in {Task("image", db), NoImage}   \* NoImage: the copy or the chmod failed
  /\ UNCHANGED <<mode, init, phase, file, db, boot, req, final, used, floor>>

\* The image is renamed over the snapshot.
Promote ==
  /\ periodic.at = "image"
  /\ file' = periodic.image
  /\ floor' = periodic.image.ver
  /\ periodic' = NoImage
  /\ UNCHANGED <<mode, init, phase, db, boot, req, final, used>>

PromoteFails ==
  /\ periodic.at = "image"
  /\ periodic' = NoImage
  /\ UNCHANGED <<mode, init, phase, file, db, boot, req, final, used, floor>>

\* SIGTERM: requests in flight are drained, then main takes the last snapshot.
Stop ==
  /\ phase = "serving"
  /\ phase' = "draining"
  /\ UNCHANGED <<mode, init, file, db, boot, req, periodic, final, used, floor>>

Drained ==
  /\ phase = "draining"
  /\ \A r \in Reqs : req[r] = Idle
  /\ phase' = IF mode = "ram" THEN "final" ELSE "exited"
  /\ final' = IF mode = "ram" THEN Task("copying", NoData) ELSE NoImage
  /\ UNCHANGED <<mode, init, file, db, boot, req, periodic, used, floor>>

FinalCopy ==
  /\ final.at = "copying"
  /\ \/ final' = Task("image", db) /\ phase' = phase
     \/ final' = NoImage /\ phase' = "exited"
  /\ UNCHANGED <<mode, init, file, db, boot, req, periodic, used, floor>>

FinalPromote ==
  /\ final.at = "image"
  /\ phase' = "exited"
  /\ \/ file' = final.image /\ final' = Task("done", NoData)
     \/ file' = file /\ final' = NoImage
  /\ UNCHANGED <<mode, init, db, boot, req, periodic, used, floor>>

\* main has returned; the runtime still waits for a blocking thread.
Gone ==
  /\ phase = "exited"
  /\ periodic.at = "idle"
  /\ phase' = "down"
  /\ final' = NoImage
  /\ db' = NoData
  /\ UNCHANGED <<mode, init, file, boot, req, periodic, used, floor>>

\* A kill anywhere: what is in memory is lost.
Crash ==
  /\ phase # "down"
  /\ used.crashes < MaxCrashes
  /\ used' = [used EXCEPT !.crashes = @ + 1]
  /\ phase' = "down"
  /\ req' = [r \in Reqs |-> Idle]
  /\ periodic' = NoImage
  /\ final' = NoImage
  /\ db' = NoData
  /\ UNCHANGED <<mode, init, file, boot, floor>>

Wizard(r) ==
  \/ Setup2(r) \/ CreateUser(r) \/ Advance(r)
  \/ Setup4(r) \/ SetHost(r) \/ SetIface(r) \/ Complete(r)

Next ==
  \/ Open \/ Boot \/ Opened
  \/ InitUser \/ InitHost \/ InitIface \/ InitLists \/ InitDone \/ Serve
  \/ \E r \in Reqs : Wizard(r)
  \/ Write \/ \E p \in Edits : EditPort(p)
  \/ Tick \/ Copy \/ Promote \/ PromoteFails
  \/ Stop \/ Drained \/ FinalCopy \/ FinalPromote \/ Gone
  \/ Crash

Spec == Init /\ [][Next]_vars

------------------------------------------------------------------------------
(* Properties *)

(* An upgrade is complete (create_tables, apply_migrations): whatever older  *)
(* release left the file, and wherever earlier boots of this one were        *)
(* killed, a server that answers has every table, every column its reads and *)
(* writes name, a row in each service table of a later release, and no       *)
(* iptables hook.                                                            *)
UpgradeComplete ==
  Running =>
    /\ Tables \subseteq db.tables
    /\ RequiredToRead \cup RequiredToWrite \subseteq db.cols
    /\ {"xray_inbound", "dns_bundle", "mtproxy_inbound", "mdnsvpn_inbound"} \subseteq db.rows
    /\ ~db.legacy

(* A crash in RAM mode loses only the tail (snapshot_to: "a crash            *)
(* mid-snapshot can never truncate the previous good snapshot"): a server    *)
(* that answers holds at least the writes of the last periodic snapshot that *)
(* completed, whichever snapshot failed or was killed since.  A restore that *)
(* fails on a good file is not among the failures (see Open).                *)
LosesOnlyTail == Running /\ mode = "ram" => db.ver >= floor

(* A finished setup is consistent (setup_step4_post, provision_initial_setup): *)
(* when the wizard is closed, and until an admin sets one of the two ports     *)
(* alone, clients are told the port the interface listens on, whichever writes *)
(* a crash or a snapshot separated.  (A row that a kill in the seeding left    *)
(* out is SingletonsPresent's.)                                                *)
SetupConsistent ==
  db.step = 0 /\ ~db.edited /\ {"user_configs", "interfaces"} \subseteq db.rows
    => db.uport = db.iport

(* "Idempotently ensure every singleton table has its default row", db.rs:1640. *)
SingletonsPresent == Running => Singletons \subseteq db.rows

(* "so a clean stop never loses the work done since the last periodic        *)
(* snapshot", main.rs:275.                                                   *)
CleanStopKeepsAll == phase = "exited" /\ final.at = "done" => file.ver >= db.ver

(* "Setup already completed (admin user already exists)", setup.rs:70.       *)
SetupStaysDone == [][db.step = 0 /\ db.users > 0 /\ phase = "serving" /\ phase' = "serving" => db'.step = 0]_vars
=============================================================================
