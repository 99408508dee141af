# awg-easy-rs in TLA+

A model of the control logic of awg-easy-rs: who may use the tunnel and how that
decision travels from the database to the kernel and to nftables; how the
bundled services are configured, started and kept alive; how the DPI-imitation
proxy answers, relays and shares a port with AmneziaWG; and how the database,
the login and the setup survive crashes and each other. The modules are
translated from the Rust source; paths below are relative to the repository.
`PROJECT.json` maps each definition to the lines it stands for.

Run a model with `tlc -config <cfg> <module>`, check a proof with
`tlapm <module>`; `PROJECT.json` lists which configuration goes with which
module.

## 1. The system

One process, a tokio runtime. State lives in these places:

| State | Kept by | Changed by |
|---|---|---|
| SQLite tables behind one `Mutex<Connection>` (`src/db.rs`), in RAM mode with a snapshot file | `db::*`, one statement or transaction per lock | every handler, `cron_job`, the snapshot task |
| `awg0.conf` | `wg::save_config` (truncate, write) | every client or interface handler, `cron_job`, startup |
| the kernel's peers and AmneziaWG's port | `awg syncconf`, `awg-quick up/down` | `wg::save_config`, `wg::restart`, startup |
| the nftables table `inet awg-easy-rs` | `firewall.rs` and the PostUp/PostDown hooks | client, interface and proxy handlers, restarts, startup |
| the supervisors' `STATE` (one mutex each), config files and children | `xray/`, `dns/`, `mdnsvpn/`, `mtproxy/supervisor.rs` | handlers, watchdog tasks |
| telemt's own users | telemt, over its loopback API | the MTProxy handlers, reconciling tasks |
| the proxy's task, its session table and dialogs | `proxy/*.rs` | packets, timers, `apply_and_reconcile` |
| sessions and attempt windows | `AppState`, two statics of `api/session.rs` | logins, the cron job |

### Components

| Component | Operations | What is hard | What makes it correct |
|---|---|---|---|
| Address allocation (`db.rs` `next_ipv4/6`) | allocate the first free host | /31, /32, host bits, the last block, a full pool | first fit, never the server's, exhausted only when full |
| Client roster (`api/clients.rs`, `api/admin.rs`) | create, update, enable, disable, delete, change_cidr, update_interface | reads and writes are separate calls; quota, block and address may be stale | quota bound, unique addresses |
| Config publishing (`wg/mod.rs`, `wg/cli.rs`) | save_config, restart, startup, expiry job | no lock across read, write and sync; failures after the commit; crashes between steps | the kernel ends up with the enabled rows; a revoked client stays out |
| One-time links (`api/routes.rs`) | generate, look up, serve, drop | look up and delete are separate; delete is by client id | bounded uses, no orphan |
| Firewall (`firewall.rs`) | rebuild_rules, DNS lockdown, proxy lockdown, hooks | several nft calls, non-idempotent `add rule`, hooks delete the table under it | default-deny, grants hold, DNS goes to its target, no half-applied rule set |
| Subprocess supervisors | ensure_running, stop, restart, watchdog | rows read before the lock, watchdogs of old children, backoff against admin action | no overwritten entry, file loaded, outages end, the cap is reached |
| Proxy supervisor (`proxy/supervisor.rs`, `api/proxy.rs`) | the settings and interface handlers, apply_and_reconcile, ensure_running, boot | every await of ensure_running; one UDP port and two owners; hung tasks, dropped handlers | one undisturbed request makes rows, task and AmneziaWG agree; the firewall is as the last lockdown or PostDown left it |
| Proxy datapath (`proxy/proxy.rs`, `session.rs`, `metrics.rs`) | packet, session, relay, sweep, DNS forward, shutdown | four maps locked one by one, re-created sessions, relays ending under their successors | the counter is exact, a session has a relay, a shutdown ends everything |
| Responders (`proxy/responder.rs`, `handle_sip_probe`) | SIP dialog, deferred answers; stateless answers | awaits between a look at the dialog and its update | a dialog moves forward, an answer is for its call, every call is answered |
| Transform, parameters (`proxy/transform.rs`, `wg/params.rs`, `proxy/config.rs`) | padding, classification, generation, three validators | sizes at the edges | what is written parses; what is generated is accepted everywhere |
| Database (`db.rs`, `main.rs`) | open, upgrade, seed, snapshot, restore | kills between any two statements, a late rename, old releases' files | the upgrade is complete, a crash loses only the tail |
| Setup (`api/setup.rs`, `init_setup.rs`) | the wizard's steps, the INIT_* setup | each write commits alone | until an admin edits one port alone, clients are told the port the interface listens on |
| Sessions, login, TOTP (`api/session.rs`) | login, enrolment, password, logout, prune | rows read in one lock and used after it | no replay of a code, bounded memory, expired sessions are swept |
| Xray, MasterDnsVPN, resolver bundle (`api/`, `xray/`, `mdnsvpn/`, `dns/`) | the admin requests, rendering, reconcile, links and bundles | a failed or abandoned reconcile; regenerated secrets; two children of one row | what the child serves is what the rows and the shares handed out say |
| telemt users (`api/mtproxy.rs`, `mtproxy/supervisor.rs`) | create, rotate, update, delete, reconcile | concurrent reconcilers, lost answers, a store that restarts empty | telemt's users and secrets are the database's |

Not modelled: QR codes and the client files, metrics, process plumbing, the
frontend and the packaging; see section 7.

### How they interact

    admin request -> db (commit) -> save_config -> awg0.conf -> syncconf -> kernel
                                 -> rebuild_rules (if firewall_enabled) -> nft
                                 -> ensure_running -> config file -> child
    cron (60 s)   -> db (disable expired) -> save_config; prune sessions
    startup       -> open and upgrade the db, INIT_* setup, save_config, apply lockdown,
                     awg-quick up (PostUp) -> rebuild -> supervisors
    proxy settings-> save_config, apply lockdown, wg::restart (PostDown, PostUp) -> proxy task
    child exits   -> its watchdog -> backoff -> ensure_running
    telemt starts -> reconciling task -> telemt's API
    datagram      -> proxy loop -> session, relay -> AmneziaWG on the backend port
                                -> responder -> answer, deferred answers
    SIGTERM       -> drain -> last snapshot -> exit

## 2. Modules

| Module | Models | State in the model and in the code |
|---|---|---|
| `IpPool` | `cidr_contains`, `server_ip`, `next_ipv4`, `next_ipv6` as operators | none; the set of addresses in use is an argument |
| `AwgParams` | the generator of the obfuscation parameters, the validators of `wg/params.rs`, of the API and of the proxy, the conversion of the row | none |
| `Datagrams` | classification of AmneziaWG packets, the DNS, STUN and SIP paddings, detection of probes and the lengths and echoes of the answers | none |
| `MCIpPool`, `MCAlgorithms` | a pool that allocates, moves and releases; samples of parameters, packets, paddings and probes; the reference definitions | `cidr`, `used`; `sample` |
| `Roster` | the client and interface handlers, `cron_job`, `save_config`, `restart`, `startup` | `roster`, `iface`, `nextId`: the tables; `conf`: awg0.conf; `kernel`, `linkUp`: the interface; `pc`, `job`, `body`: the locals of each task between two database, file or subprocess calls |
| `ConfigPublisher` | the abstract promise of publishing: a change is owed a snapshot, a snapshot is taken and then served | `wanted`, `owed`, `taken`, `live` |
| `MCRoster` | instances: blocks, updates, symmetry | |
| `OneTimeLink` | generate, look up, drop, render, serve, delete, expire | `clients`, `links`: the tables; per thread the link it looked up; `served` counts answers |
| `Firewall`, `MCFirewall` | every nft call of `rebuild_rules` and of the hooks, the handlers that lead to them, startup | `fwd`, `clients`, `filter`, `nat`, `lockdown`: the chains; `copy`, `list`: the row and listing a task holds |
| `Supervisor` | the four subprocess supervisors as one program in three styles | `proc`, `crash`, `lock`: STATE; `tmp`, `conf`: the files; `child`, `task`: children and the tasks on them |
| `ProxyLifecycle` | the proxy's settings, `apply_and_reconcile`, `ensure_running`, the proxy task, boot, AmneziaWG's port, the lockdown | `settings`, `iface`: rows; `conf`, `wg`, `lock`: file, kernel, firewall; `wiped`: PostDown has deleted the lockdown since; `live`: STATE; `proxy`: the tasks ever bound; `req`: the locals of each request |
| `ProxySession` | the receive loop, relays, the sweep, DNS forwards, shutdown | `sessions`, `count`: SessionTable; `metrics`, `protocol`, `echo`, `handles`: the maps; `relay`, `rx`, `sweep`: the tasks |
| `SipDialog` | `handle_sip_probe`, the dialog, the deferred ring and answer, teardown | `dialog`, `handle`: the maps' entries; `rx`, `task`: the loop and the deferred tasks; `sent`: history |
| `Login` | login with its limiters and the second factor, enrolment, password, logout, timeout, pruning, restarts | `user`, `timeout`: rows; `sessions`, `attempts`, `totp`: the maps; `req`: what each request has read |
| `Store` | the database's life: open, DDL, migrations, backfill, seeds, INIT_* setup, wizard, snapshots, stop, kill | `file`, `db`: what is durable and what is open; `boot`: the statement to run next; `req`, `periodic`, `final`: wizard requests, snapshot tasks |
| `Xray`, `Mdnsvpn`, `DnsBundle` | the admin requests of a service, its rendered configuration, the reconcile, its shares | the row, the files, what the child runs with; `links`, `bundles`: shares handed out |
| `TelemtUsers` | the user handlers, the calls to telemt, reconciling tasks | `rows`, `store`: the two stores; `calls`, `tasks`: who is between a read and a call |
| `MCParts` | one of `Store`, `OneTimeLink`, `Firewall`, chosen at the start | |
| `MCServices` | one of the four services, chosen at the start | |
| `RosterProofs` | theorems about `IpPool` and `Roster`, and that `Roster` implements `ConfigPublisher` | |
| `PartsProofs` | theorems about `Store`, `OneTimeLink` and `Firewall`, as `MCParts` puts them together | |
| `ServicesProofs` | theorems about the four services, as `MCServices` puts them together | |
| `WireProofs` | theorems about the algorithms of `MCAlgorithms` (`MCIpPool`, `AwgParams`, `Datagrams`) and about `SipDialog` | |
| `SupervisorProofs`, `ProxyLifecycleProofs`, `ProxySessionProofs`, `LoginProofs` | theorems about the module of that name | |

`Roster` extends `IpPool` and instantiates `ConfigPublisher` with a refinement
mapping: `wanted` are the enabled rows, `live` the kernel's peers, `taken` what
is between rendering and syncconf, `owed` whether a task still has to render.

`MCParts` and `MCServices` put models that share no state side by side in one
instance: the first state chooses which one takes steps, the others stay at one
initial state. Every property there holds of every behaviour, and each speaks of
one part only. `ProxyLifecycle` is itself the composition of the proxy's
supervisor with the part of `wg` and `firewall` it drives.

One step of a model is one database call, file call, subprocess call, await or
critical section. Adjacent reads are one step where only the later one is used.
Names follow the code; operators called `X_Something`, commented "Faulty
variant", are the same definition with a plausible bug. Nothing else uses them:
they show that the property listed with them can fail.

## 3. Runs

Passing:

| Run | Configuration | Shows |
|---|---|---|
| `algorithms` | 4-bit addresses, blocks of 1 to 16 with and without host bits, up to 4 in use; parameters, packets, paddings and probes at the edges of every size rule | `FirstFit`: `next_ipv4/6` return what the loops return; `ImitationStaysOn`: generated and accepted parameters parse; `HandshakesToldApart`; `Framed`; `AnswersFit` |
| `roster_serial` | 2 client ids, 1 worker with the job and startup, no faults | `AccessCovered`, refinement of `ConfigPublisher`, `ExpiryEnforced` |
| `roster_faults` | 3 ids, 2 workers, two blocks, every client handler but the toggles, one failed save or crash | `RevokedStaysOut`, `KernelAddressesUnique`, `QuotaBound` |
| `supervisor` | 3 styles, 4 children, 2 requests, 1 failed spawn, cap 1 | `FileLoaded`, `NoOverwrite`, `OutageEnds`, `GivesUp` |
| `proxy_lifecycle` | 2 handlers and boot, 3 ports, 2 public and 2 backend settings, 3 requests, 3 proxies, 1 crash | `Reconciled`, `Confined`, `RequestsAnswered` |
| `proxy_session` | 2 clients, a table of 1, 2 relays, 1 forward | `CountExact`, `RelayServes`, `ShutdownCompletes` |
| `sip` | 2 Call-IDs, 3 calls, 3 deferred tasks, a teardown, the shutdown | `StageForward`, `AnswersOwnCall`, `CallSettles` |
| `login` | 2 requests at a time, 3 in all, 3 names, 2 secrets, 3 time steps, 1 restart | `NoReplay`, `ExpiredSwept` |
| `parts` | `Store`: files of 4 kinds of release at 4 migrations, 2 crashes, 2 snapshots, an admin's edit of one port after a setup; `OneTimeLink`: 2 clients, 2 threads, 2 tokens; `Firewall`: 2 clients, 2 workers and startup, every row | `UpgradeComplete`, `LosesOnlyTail`, `SetupConsistent`; `UsesBounded`, `NoOrphanLink`; `DefaultDeny`, `GrantsHold`, `DnsRedirected`, `NeverHalfApplied` |
| `services` | one handler per service with failures and dropped handlers, MasterDnsVPN with and without encryption, 2 reconciling tasks of telemt, 1 peer, client or user | `LinksMatchInbound`, `BundlesMatchServer`, `TorNotBypassed`, `RosterMatches`, `SecretsMatch` |

Refuted, each a finding in `PROJECT.json` that quotes the sentence it
contradicts:

| Run | What TLC shows |
|---|---|
| `proxy_reclaim` | disabling the proxy restarts AmneziaWG on the public port while the proxy still holds it; the interface stays down |
| `store_upgrade` | a database older than the proxy never gets the `proxy_settings` row |

The modules state further claims of the documentation and properties one might
expect that the code does not have. They are no listed runs; to see a
counterexample check the configuration named, or put the property into it (for
`X` of `Store`, `OneTimeLink` or `Mdnsvpn`, after defining `X == S!X` or
`X == L!X` in `MCParts`, or `X == M!X` in `MCServices`):

| Property | Configuration | Why it fails |
|---|---|---|
| `AccessCovered`, two saves at once ("atomic", `wg/mod.rs:94`) | `MCRosterOverlap` | the older rendering is synced last and stays (`wg/mod.rs:142`) |
| `ExpiryEnforced` after a failed save (`README:42`) | `MCRosterLostSave` | the job saves only when it has disabled something; no later run repeats a lost one (`wg/mod.rs:237`) |
| `QuotaKept` (`clients.rs:27`) | `MCRosterFaults` | count and insert are two calls; `QuotaBound` is what holds |
| `CidrMoved` with two workers | `MCRosterCidr` (passes with one) | a create carries the old block past `change_cidr` |
| `NoClientHasServerAddr` | `MCRosterFaults` with `Changes` that move to address 1 | an update tests membership of the block only |
| `CronOnlyDisablesExpired` | `MCRosterSerial` | the job disables from a snapshot; a renewal in between is ignored |
| `LocalExpiryEnforced` | `MCRosterSerial` with `Expiries = {"local_ahead"}` | the job reads RFC 3339 only |
| `NetworkAddressSkippedV6` (`db.rs:2674`) | `MCAlgorithms` | the address as written is skipped, not the network's |
| `PayloadIntact` (`transform.rs:15`) | `MCAlgorithmsPayload` | a packet whose first fitting kind is another's is overwritten past its own padding |
| `OneTimeUse`, `LinkLasts`, `ExpiredPurged` (`routes.rs:135`, `README:42`) | `MCParts` (for the last, with `OneTimeLink`'s fairness) | lookup and delete are separate, the delete is by client; no job purges links |
| `FlowsReturn` (`db.rs:1448-1449`) | `MCFirewallReplies` | the answer to an accepted packet is dropped by the oifname jump into `wg-clients` |
| `FirewallStays` (`README:40`) | `MCFirewallProxy` | after a change of the proxy settings the per-client rules are gone (`proxy/supervisor.rs:515`) |
| `LockdownIndependent` | `MCFirewallReplies` with `Ops = {"iface", "restart"}` | a restart with `firewall_enabled` off is followed by no rebuild |
| `BackendConfined` (`proxy/supervisor.rs:498-504`) | `MCFirewallProxy` | the restart inside `apply_and_reconcile` deletes the lockdown chain it has just made, and nothing but the next boot makes it again; `Confined` says what is left |
| `DisabledIsDown` (`xray/supervisor.rs:96-98`) | `SupervisorDisabled` | a call that read "enabled" spawns after another call's stop |
| `AllTracked` | `SupervisorDisabled` with `Ops = {"change", "restart"}` | the old child's watchdog clears the new child's entry |
| `OrphanEnds` (`proxy.rs:1304`) | `ProxySessionOrphan` | the relay of a session counted out during its start waits for a backend that never answers |
| `AnswersInvite` (`responder.rs:725`) | `SipDialogCseq` | an update of the dialog stores the CSeq of whatever came last |
| `OneFinalAnswer` (`proxy.rs:1048`) | `SipDialogCseq` | a CANCEL between the answer's send and its recording is answered too |
| `SingleUse` (`session.rs:242`) | `LoginSingleUse` | two overlapping logins both read the watermark first |
| `CleanStopKeepsAll` (`main.rs:275`) | `MCParts`, as `S!CleanStopKeepsAll` | the periodic snapshot's older image may be renamed after the last one |
| `SetupConsistent` with two requests | `MCPartsOverlap` | of two overlapping step-4 posts each may write one of the two ports |
| `RotationRevokes` (`api/mdnsvpn.rs:499-501`, `525`) | `MCServices`, as `M!RotationRevokes` | with `DATA_ENCRYPTION_METHOD = 0` no bundle is told apart by its key, and a rotation revokes nobody; `BundlesMatchServer` is what holds |
| `SetupStaysDone` (`setup.rs:70`) | `MCPartsOverlap`, as `S!SetupStaysDone` | overlapping step-2 posts: the slower one's step comes after the end of the wizard |

### Read in the code while modelling

These are consequences of the translated definitions, too small for a property
of their own or outside what the models distinguish.

- *Proxy supervisor.* A bind error leaves `last_error` empty, so the status says
  disabled where `main.rs:128` promises "Crashed". A change of `max_sessions` or
  `session_ttl` alone is not applied: `hash_config` omits them. `save_config`'s
  sync moves AmneziaWG to the backend port before the lockdown that
  `supervisor.rs:498-507` wants first. Two concurrent `ensure_running` may leave
  the older configuration (`supervisor.rs:301`) until the next request.
  `update_interface` does not reconcile the proxy. The lockdown that the restart's
  PostDown deletes is made again at the next boot only (`main.rs:130`), or by a
  request that finds the interface down.
- *Login.* A setup request that needed no password can replace a factor that
  was verified meanwhile (`session.rs:485`); an enrolment may verify a secret that
  was replaced while it ran; after a removal the empty secret can be enrolled. An
  attempt refused for its address stays counted against the name (`193`). A
  password change keeps the sessions. In RAM mode a crash takes the TOTP
  watermark back to the last snapshot.
- *Setup.* `POST /api/admin/userconfig` (`admin.rs:486`) and
  `POST /api/admin/interface` (`admin.rs:616`) each set one of the two ports that a
  setup made equal; nothing compares them, so after such an edit clients may be
  told a port nobody listens on (`EditPort`; the field may be meant for a
  forwarded port).
- *Database.* A kill in the middle of the seeding leaves the rows after it
  missing for good; an `INIT_*` setup that gave up is not resumed; a restore that
  fails on a good file leaves an empty database, whose first snapshot replaces the
  file (`db.rs:1858-1863`): `Open` leaves this failure out, and `LosesOnlyTail`
  with it.
- *Parameters.* Two blank headers switch the whole transform off, against
  `proxy/supervisor.rs:229-236`; the API accepts windows with the ends swapped and
  headers above 2^32 or with an end below 0 ("5--3"), checks an update against the body alone, and its rule on
  paddings passes s1 = 0, s2 = 56; the generator draws S4 up to 150 where the API
  allows 32; `params::validate` is called by tests only.
- *Services.* An `additional_config` that is no JSON makes every later render
  fail, and the child keeps the old file, a deleted client included; two switches to
  xhttp at once both draw a path; with method 0 the API still answers `revoked: true`
  to a rotation; MasterDnsVPN's combinations of fields are
  unchecked though `config.rs:12-14` lists them; its delete with `rotateKey` answers
  `revoked: true` also when the reconcile failed; the JSON bundle lacks
  `additional_config`; a list of resolvers with only comments is rendered empty;
  one `additional_config` ends both torrc and dnscrypt's file; `torPlugin` is
  validated trimmed and stored as given; `expires_at` of Xray and MasterDnsVPN
  clients is never enforced.
- *telemt.* A user deleted while a reconcile runs may be created again by it, and
  nothing repeats the reconcile; disabled users come back enabled after telemt
  restarts; of a stale secret the reconcile says nothing (`mtproxy/supervisor.rs`
  near 410 says secret, tag and enabled are patched; only the tag is); two
  rotations at once may leave telemt with the older secret; a tag stored as ""
  is patched on every reconcile.

### Bounds, and why they are enough

- Addresses. `IpPool` is checked over a whole 4-bit space: every /28 to /32
  analogue, each with every position of the written address, up to four
  addresses in use, so /31, /32, wrap-around of the server's address and full
  blocks all occur. In `Roster` addresses have 3 bits and blocks 4 or 8, so a
  block can run out.
- Samples. The sizes in `MCAlgorithms` are the thresholds of the code and their
  neighbours: every comparison of a length is met from both sides.
- Clients. A row's life (create, change, delete) needs one id, an address
  conflict or a quota excess two, a stale address reused by somebody else three.
- Tasks. Each race above is between two handlers, or one and the job or
  startup. Three add more of the same.
- `MaxSaves` is the number of tasks inside `save_config` or `awg-quick`. The
  code has no such limit: the passing runs state what holds when saves do not
  overlap, `MCRosterOverlap` what happens when they do. The theorems carry the
  same hypothesis openly (`MaxSaves = 1`).
- `MaxNft` is the same for nft work: the firewall keeps rebuilds and restarts one
  at a time, while commits of other handlers fall anywhere between the steps of a
  rebuild.
- `MaxFaults`, `MaxFails`: one failure. After it the system has to recover; a
  second one starts from a state the first one can also leave.
- Supervisor. `Cap` is 1 where the code has 10: only the comparison with it
  matters. Four children are enough for two requests, a crash and its respawn
  (a fifth adds no state). `MaxCrashed = 1`: one watchdog handles a crash at a
  time. `Parallel = {"hup"}`: handlers overlap for the supervisors that keep the
  mutex through the spawn; for the other two overlap leaves untracked children
  at once, which the hazard list records.
- Proxy lifecycle. Three requests: two that race and one undisturbed after them,
  which is what `Reconciled` speaks of. The last port is 3, so "auto" runs into
  the end of the port range.
- Proxy session. A table of one session is full with the first client; two relays
  are one and its successor; two clients are one and a competitor for the slot.
  One permit makes the DNS forwards run out.
- SIP. Two Call-IDs, and a third call that reuses one of them; three deferred
  tasks, of which two may be alive during a replacement.
- Login. Limits of 2 and 3 where the code has 10, 50 and 5, `MaxKeys` 1 where it
  has 10000: only comparisons with them matter, and two attempts and one key over
  reach them. Three time steps take a code from before its step to after its
  window. Two secrets: one and its replacement.
- Store. A release is a set of missing services and a number of migrations, four
  of each; the last wrote no column the DDL does not have. Two crashes: one in an
  upgrade and one in the upgrade that resumes it. Six writes fill the wizard
  and leave some for the snapshots. Of an admin's edits of one port the first after
  a setup is enough: `SetupConsistent` claims nothing from then on. One wizard request at a time:
  `SetupConsistent` needs it, `MCPartsOverlap` refutes it with two;
  `LosesOnlyTail` is proved for any number.
- Services. `LinksMatchInbound` and its like speak of one link or bundle, so one is
  handed out; four secrets are two pairs and a regeneration. One handler at a time
  with failures and dropped handlers in between: what two at once do is in the list
  above. MasterDnsVPN's methods are none and two ciphers, so a bundle meets a
  rotation, a flip of the method, or both. telemt has two reconciling tasks and an
  admin request at once.
- `CHECK_DEADLOCK FALSE` is set where the instance really stops: ids, requests,
  tokens or secrets run out, the pool is full with nothing to release, or the
  program has been shut down.

### Fairness

Weak fairness of each task inside a handler, of the job and of watchdogs: tokio
polls ready tasks, blocking threads run, subprocesses return, and its mutex is
first come first served. In `Roster` the steps at which a task waits for the
instance's bound on saves have strong fairness, for the wait is an artefact of
the bound. A child obeys SIGTERM or SIGKILL and reads its file. In
`ProxyLifecycle` the steps of a request are weakly fair; the proxy's task is not,
it may hang, and the request's timeout is what goes on. In `ProxySession` the
receive loop's look at the shutdown token is strongly fair: `tokio::select!` polls
its branches in random order, so a stream of packets does not starve it. In
`Login` the cron task is fair, requests and the clock are not. Requests, packets,
crashes, failures, dropped handlers and the passing of time have no fairness
anywhere.

## 4. What the main properties say

- `AccessCovered`: if the kernel's peers are not the enabled rows, some task
  still has to render or is on its way to syncconf. Nobody is left with access
  that no pending step will take away.
- `RevokedStaysOut`: once `delete_client` has answered, the client is neither in
  the kernel nor in the file the next `awg-quick up` reads, through failures,
  restarts and crashes. The faulty variant that does not truncate on open shows
  what it rests on: a crash between truncation and write leaves an empty file.
- `ExpiryEnforced`: with no failed save, an expired client leaves the kernel
  unless it is renewed.
- `DefaultDeny`, `GrantsHold`, `DnsRedirected`: the chains are evaluated on every
  packet (peer, place, family, DNS or not) with DNAT first and the first verdict
  deciding. They hold when no handler is at work, and but for the cases the
  refuted properties isolate: `wiped` records that the table was deleted and no
  rebuild has ended since.
- `NeverHalfApplied`: default-deny never disappears but with the table or
  because a handler found the firewall off. Proved besides: `JumpsOnce` (a jump is
  there once, or not at all) and `LeakGuarded` (with the firewall off the lockdown
  still lets no query out elsewhere).
- `NoOverwrite`, `FileLoaded`: what holding the mutex from the test of
  `STATE.proc` through the spawn buys, and that a SIGHUP follows every rename.
- `OutageEnds`, `GivesUp`: the watchdog's two halves. While the child is wanted
  it comes back, unless a spawn failed or the attempts are used up; and children
  that die young are not respawned for ever.
- `Reconciled`, `Confined`: `settled` is true when a request that met no other
  one from its start to its end has answered without an error. Whatever raced
  before, rows, task and AmneziaWG then agree, and no drop of an earlier
  configuration is left in the firewall. Whether the present backend port is closed
  depends on `wiped`: after a boot, or a restart of an interface that was down, it
  is, and nothing else; a restart of an interface that is up runs PostDown
  (`db.rs:1466`), which deletes the table and the lockdown with it.
  `RequestsAnswered`:
  also when the proxy's task hangs. No run lists `RunningIsLive` (what is reported
  as running runs) and `TasksTracked` (no proxy runs unseen); they are proved.
- `CountExact`: the session counter and the map it mirrors differ by exactly the
  operations under way, so no path (expiry, error, replacement, shutdown) leaks a
  slot. `RelayServes`: a session in the table has a relay running, in spite of
  the generations that end under it. `ShutdownCompletes`: every task of the
  datapath ends. Proved and in no run: `SessionsBounded` (the overshoot of
  `max_sessions`), `RelayRegistered` (a running relay can be aborted) and
  `AuxHasSession` (no metrics, protocol lock or echo is left behind).
- `StageForward`, `AnswersOwnCall`, `CallSettles`: the loop and the deferred tasks
  take turns at one dialog across awaits; it never goes back, is never answered
  for another call, and no caller is left ringing. Proved besides:
  `TaskRegistered`, a task that may still answer can be aborted.
- `NoReplay`: a login that starts after another one finished cannot use that
  one's code, across restarts and new secrets; `ExpiredSwept`: the cron job
  removes what the timeout has ended.
- `UpgradeComplete`: from any release's file and any sequence of kills, a server
  that answers has the whole schema. `LosesOnlyTail`: in RAM mode it holds at least
  the last periodic snapshot that completed. `SetupConsistent`: when the wizard is
  closed, the port clients are told is the interface's, until an admin edits one of
  the two alone (`edited`), which the code allows and the model does.
- `LinksMatchInbound`, `BundlesMatchServer`: links and bundles are remembered with
  what they were built from; when no request is at work and the last reconcile
  went through, the child accepts exactly those that are meant to work. A rotation
  revokes and nothing else does; for MasterDnsVPN this holds of the methods that
  encrypt, and with method 0, where the key tells nobody apart, a rotation revokes
  nobody. `TorNotBypassed`: the two files of one
  row agree. `RosterMatches`, `SecretsMatch`: telemt's store equals the table but
  for the users whose last push failed or met another task (`owed`, `unsure`).

## 5. Proofs

Publishing the roster (`RosterProofs`):

| Theorem | Statement | Argument |
|---|---|---|
| `NextIpv4Sound` | `next_ipv4` returns the least free host of the block other than the server's, and fails only if there is none | blocks tile the address space, a non-empty set of naturals has a least element |
| `TypeCorrect` | `Spec => []TypeOK` | one lemma per group of actions; the allocator's result needs `NextIpv4Sound`, or a row could hold `NoAddr` |
| `RevokedStaysOutSerially` | `MaxSaves = 1` gives `Spec => []RevokedStaysOut` | the files and texts of one publisher at a time |
| `KernelAddressesUniqueSerially` | `MaxSaves = 1` gives `Spec => []KernelAddressesUnique` | rows are unique by address, so is every rendering of them, so is whatever is written, read back or applied |
| `QuotaBoundEver` | `Spec => []QuotaBound` | handlers between count and insert are counted as rows |
| `PublisherImplemented` | the calm instances give `Spec => PublisherSpec` | every step of `Roster` is a step of `ConfigPublisher` or stutters |
| `CidrMovedAlone` | `Workers = {w}` gives `Spec => []CidrMoved` | the rows visited have moved, and nobody else writes an address |
| `AccessCoveredSerially` | the calm instances give `Spec => []AccessCovered` | `Served /\ Fresh` is inductive in the abstract specification, which is implemented |

The database, the links and the firewall (`PartsProofs`):

| Theorem | Statement | Argument |
|---|---|---|
| `LosesOnlyTailEver` | `PartsSpec => []LosesOnlyTail` | the file never falls below the floor, an image in hand is no newer than the open database |
| `UpgradeCompleteEver` | `PartsSpec => []UpgradeComplete` | every statement before the next one of the boot is done in the open database |
| `SetupConsistentEver` | `OneAtATime` gives `PartsSpec => []SetupConsistent` | every database at hand is sound, for a later boot may open it; an edit of one port is on record in each |
| `NoOrphanLinkEver` | `LinkAssumption` gives `PartsSpec => []NoOrphanLink` | the cascade and the foreign key |
| `UsesBoundedEver` | `LinkAssumption` gives `PartsSpec => []UsesBounded` | a token in a row is unserved and in that row only; each of its holders will delete that row |
| `DefaultDenyEver`, `GrantsHoldEver`, `DnsRedirectedEver` | `MaxNft = 1` gives `Spec => []` of the property, `Spec` being `Firewall`'s | with nobody inside, the chains are those of the rows, or a rebuild is to come |
| `NeverHalfAppliedEver` | `MaxNft = 1` gives `Spec => NeverHalfApplied` | each nft call of a rebuild is looked at with what the calls before it left |
| `JumpsOnceEver`, `LeakGuardedEver` | `MaxNft = 1` gives `Spec => []` of the property | no jump is double, and the two of wg-clients come and go together with the firewall |

The algorithms (`WireProofs`):

| Theorem | Statement | Argument |
|---|---|---|
| `FirstFitEver` | `PoolSpec => []FirstFit` | below the address returned the loops meet only taken ones: a least counterexample to what the scan has covered |
| `ImitationStaysOnEver` | a `sample.p` in `Params` satisfies `ImitationStaysOn` | eight distinct split points have one of every rank, so the windows are in order and apart |
| `HandshakesToldApartEver` | `Genuine(sample)` gives `HandshakesToldApart` | the sizes of the two handshakes differ unless `S1 + 56 = S2`, which validation refuses |
| `FramedEver` | `PadInput(sample)` gives `Framed` | the lengths written are the sums of what follows them; one of the two widths of Content-Length agrees |
| `AnswersFitEver` | `Datagram(sample.d)` gives `AnswersFit` | every answer is bounded by a sum of capped fields; header lines are added up by least counterexample |
| `SamplesAreInputs`, `AlgorithmsEver` | `AlgSpec => []Inputs`, and `AlgSpec => []` of the four above together | the hypotheses of the four hold of every sample TLC draws |

The proxy, the login, the supervisors and the services:

| Theorem | Statement | Argument |
|---|---|---|
| `SupervisorProofs!NoOverwriteEver` | `Spec => NoOverwrite` | from the test of the slot to the registration the task holds the lock and the slot is empty |
| `SupervisorProofs!FileLoadedEver` | `Spec => []FileLoaded` | a child that runs on an older file has a signal coming |
| `ProxyLifecycleProofs!ReconciledEver`, `!ConfinedEver` | `Spec => []Reconciled`, `Spec => []Confined` | a lone request has the system to itself, and what it has done so far fits the rows; for `Confined`, the lockdown it made stands unless its own restart deleted it |
| `ProxyLifecycleProofs!RunningIsLiveEver`, `!TasksTrackedEver` | `Spec => []` of the property | two bound proxies never share a port, and a start finds the port of the rows |
| `ProxySessionProofs!CounterExact` | `Spec => []CountExact` | each task that has touched the table and not yet the counter, or the reverse, is counted |
| `ProxySessionProofs!RelayServesEver` | `Spec => []RelayServes` | an abort goes by client and generation, and never meets the generation of a session in the table |
| `ProxySessionProofs!SessionsBoundedEver` | `Spec => []SessionsBounded` | the counter never exceeds the limit, and `CountExact` |
| `ProxySessionProofs!RelayRegisteredEver` | `Spec => []RelayRegistered` | when the loop registers a relay, the older handle is gone |
| `ProxySessionProofs!AuxHasSessionEver` | `Spec => []AuxHasSession` | a client with such state has a session, or the loop, a relay or the sweep has still to look at it |
| `WireProofs!StageForwardEver` | `Spec => StageForward` | an INVITE at work never finds a terminated dialog |
| `WireProofs!AnswersOwnCallEver` | `Spec => AnswersOwnCall` | a generation not given out has no task; an answer compares the call |
| `WireProofs!TaskRegisteredEver` | `Spec => []TaskRegistered` | until it is registered, a new task is of a later generation than the handle |
| `LoginProofs!NoCodeReplayed` | `Spec => []NoReplay` | every login in flight began at a floor that was taken before; what it writes to the watermark is above its floor |
| `ServicesProofs!LinksMatchInboundEver` | one handler of Xray gives `ServicesSpec => []LinksMatchInbound` | secrets are fresh, so a link fits the inbound exactly when nothing it carries was regenerated |
| `ServicesProofs!BundlesMatchServerEver` | one handler of MasterDnsVPN gives `ServicesSpec => []BundlesMatchServer` | each of the two files holds its part of the row from the step that wrote it on, whatever the method |
| `ServicesProofs!TorNotBypassedEver` | one handler of the resolvers gives `ServicesSpec => []TorNotBypassed` | tor is down until it is spawned on the row dnscrypt-proxy was given |
| `ServicesProofs!RosterMatchesEver`, `!SecretsMatchEver` | one admin of the MTProxy users, any number of reconciling tasks, give `ServicesSpec => []` of the property | what a task's snapshot still says of the users it has met nobody about |

They hold for every value of the constants that the modules' assumptions allow
(`PoolAssumption`, `RosterAssumption`, `ParamsAssumption`, `LimitsAssumption`,
`ProxyAssumption`, `SipAssumption`, `FirewallAssumption`, `SupervisorAssumption`,
`ProxyLifecycleAssumption`, `ReleasesAssumption`, `TagsAssumption`: finite sets of tasks, distinct markers,
bounds that are numbers, an older release lacks only what was added later),
which TLC evaluates on the runs: any number of clients, accounts, tasks, faults,
crashes and any width of addresses. Where more is needed it stands in the theorem
as a hypothesis:

- `MaxSaves = 1` (`Roster`) and `MaxNft = 1` (`Firewall`): saves, and nft work, do
  not overlap. The code does not prevent it. `MCRosterOverlap` shows what two
  saves do; the hazard list names the overlapping rebuilds.
- the calm instances (`Roster`): one save at a time, no failure, no `change_cidr`.
- `Workers = {w}` (`Roster`, for `CidrMoved` only): one request at a time, beside the
  expiry job and startup. With two, a create carries the old block past `change_cidr`.
- `OneAtATime` (`Store`): one wizard request at a time; `MCPartsOverlap` refutes
  `SetupConsistent` with two.
- `LinkAssumption` (`OneTimeLink`): finite sets, distinct markers. It is a
  hypothesis because `MCParts` instantiates the module instead of extending it.
- `XrayHandlers`, `MdnsHandlers`, `DnsHandlers` `= {h}`, `Admins = {a}`: one admin
  request of the service at a time. With two, rows are read before the
  supervisor's lock and the older reading may be applied last.

The supervisor's two theorems speak of the style `hup` (xray, dnscrypt-proxy), as
their properties do: the other two supervisors let the mutex go before the spawn.

### The roster

`RevokedStaysOut` alone is not inductive: a task might hold a rendering made
before the deletion. The strengthening is `TypeOK /\ SerialInv /\ RevokedInv`:

- `SerialInv`: at most one task publishes; the file is empty when it is about to
  be written; a task that is not publishing holds no text; an idle task has no
  locals.
- `RevokedInv`: ids are below `nextId` and so never reused; a task on its way to
  answer a delete works on an id with no row; no revoked id is in the kernel,
  the file or any task's text.

Each action either leaves the files alone (`QuietStep`, treated once) or is a
publishing step, treated in turn. `MaxSaves = 1` enters only where one publisher
must exclude another.

`KernelAddressesUnique` needs `AddrInv` instead of `RevokedInv`: no two rows,
blocks of the file, blocks of a task's text or peers of the kernel share an
address. The allocator (`NextIpv4Sound`) and the UNIQUE index keep it for the
rows; failures and crashes only ever leave an older set or none.

`QuotaBound` needs no hypothesis on saves. `QuotaInv` counts, for each account, its
rows and the handlers that have passed the count and not yet inserted: together at
most the quota, less one, plus the number of handlers. The handler that counts
found fewer rows than the quota, and at most the others are ahead of it; inserting
moves one from the handlers to the rows.

`CidrMoved` speaks of the end of `change_cidr`, `CidrInv` of the way there: the handler
works with the block the interface row has; every row it has visited has one of the
block's hosts, which is what `NextIpv4Sound` says of each address it is given; a
handler that reaches the save by another request is not taken for it. The expiry job
disables rows between two of its steps and leaves their addresses. Saves may overlap,
fail, or be cut short by a crash.

The refinement holds of the calm instances: `MaxSaves = 1`, no failure, no
`change_cidr` (which gives up when the new block runs out or an address is
taken, with the rows before it changed and no save). `CalmInv` is what they keep true
beyond `SerialInv`:
nobody runs startup again or is inside `change_cidr`; the interface is away only
between `awg-quick`'s down and up, so `syncconf` finds it; the text about to be
applied is the file; with nobody publishing the interface serves the file. The
last part is why a restart is a `Restart` of the abstract specification, which
brings back the peers it drops. A change of the rows in any handler ends at
`save.render` or inside the expiry job, which is a `Change`; rendering is a
`Take`; `syncconf` and the end of `awg-quick up` are a `Publish`. Each hypothesis
is needed: `MCRosterOverlap` refutes `AccessCovered` without the first, and
`AccessCovered` as an invariant of `MCRosterLostSave` or of `MCRosterCidr`
without the other two.

### The algorithms

These theorems need no invariant: each speaks of one computation, and its hypothesis
says only what the inputs are (`Params`: any numbers in the columns of the parameters;
`Genuine`: a packet of the length and with the header of its kind; `PadInput`: a
padding within its datagram, which for SIP is within a UDP datagram's size;
`Datagram`: any sequence of label or line lengths). `SamplesAreInputs` shows that
no hypothesis asks for what TLC's samples lack, and `AlgorithmsEver` puts the four
together for the samples.

- `FirstFit` compares the allocator with the loop of the code, written as a recursive
  function. If the loop passed over the allocator's address there would be a least
  address at which the two part; at that address the loop's definition, unfolded once,
  contradicts it. This takes the place of an induction.
- `ImitationStaysOn`: eight distinct split points have one of every rank (`NextSplit`),
  so the windows of the four headers come in order, apart, and within 32 bits.
- `HandshakesToldApart`: the two handshakes have one size only if `S1 + 56 = S2`, which
  every validator on the way refuses.
- `Framed`: the width of Content-Length depends on the length it states. With one space
  the two disagree only if a power of ten lies between, and then the second form, with
  one space more, agrees.
- `AnswersFit`: an answer is a sum of fields each of which is capped; the header lines
  echoed are added up by a fold, of which a least failing prefix cannot exist.

### The login, the proxy and the supervisors

`NoReplay` speaks of a request about to let somebody in, which is too late to be
inductive. `ReplayInv` follows it from its start: a login began at a floor no
higher than what has been taken; one past the test against the watermark is
above its floor; one that wrote the watermark is at or below it; nothing was
taken above the watermark. The restart and a new secret keep all four: the
watermark is a column of the row and only grows.

`CountExact` needs to know more about whom it counts. `CountInv` adds: a client
for whom a place is reserved has no session yet; an entry the sweep is about to drop
is there; a generation that has not been started counts nothing. Each step then moves
the counter, the table and the operations under way by amounts that cancel.

`StageForward` is false of a step taken alone: `sip_stage_after_immediate_response`
takes `Terminated` back to `Invited` if the answers were built for a finished
dialog. `DialogInv` says that this is never so: an INVITE at work either opened
its dialog, which is `Idle` and which nothing but that INVITE moves on, or
repeats one within a call in progress, and only the receive loop, busy with the
INVITE, could end it. With it come that entries are numbered in order and that
the tasks of generations not yet given out do not exist. `TaskRegistered` takes
`RegInv`: the generations given out are those of the tasks that were started (`Born`);
the handle is of one of them, and of one that runs (`Held`); until the loop has
registered the task it has just started, the handle is of an older one (`Succession`).

`RelayServes` asks which relay serves a session: the one whose generation the
session carries. Relays are aborted through `relay_handles`, and the sweep drops
what it noted earlier; `ServeInv` is what keeps these aborts away from a session in
the table. Generations are given out in order (`Ahead`); a handle is of a relay of
its own client (`Owned`); while the loop replaces a handle, the one registered is
older than the relay it has just started (`Starting`); what the sweep holds is of
sessions that are gone, and if the client has one again it carries another
generation (`Expiring`).

From `CountExact` and a counter that never passes the limit follows `SessionsBounded`:
the table overshoots `max_sessions` by the one session that the sweep has counted out
and not yet dropped. `RelayRegistered` is inductive with a single conjunct more
(`Registered`): when the loop writes a handle, the client's older one is gone. `AuxInv` lets
a client without a session keep metrics, a protocol lock or an echo only while the
loop, a relay or the sweep still has it `InHand` and will look at it.

`Reconciled` speaks of the moment a lone request answers. `LifeInv` follows it from
its arrival: it has the system to itself (`Private`); the file, the lockdown
(until the restart deletes it, which `wiped` records), AmneziaWG and STATE agree with
the rows as far as it has come (`Fits`), so that
whatever earlier requests left is undone in passing; and a generation is in STATE
or in the hands of the one task about to put it there (`Owned`), so a hash that
matches is the hash of a proxy that runs. `Rests` carries the result to the next
request's arrival. `Confined` is the second half of the same invariant.
`RunningIsLive` is a part of it that needs no settled request. For `TasksTracked`,
`TrackInv` adds that two bound proxies never have one port (`PortsApart`) and that a
request at work read the port the interface row has (`SamePort`), which is why the
property leaves out behaviours in which the port was edited meanwhile.

`NoOverwrite` and `FileLoaded` rest on `HupInv`: from the test of the slot to the
registration the task holds the lock and finds the slot empty (`Exclusive`); a child
in use has a watchdog, or gets one with its registration (`Watched`); the child in
the slot, or about to be, runs on the file that is on disk unless some task is
about to send it a signal (`Signalled`). The renames of two tasks may interleave in
any order: each signals after its own.

### The database and the links

`LosesOnlyTail` compares the open database with a number kept from an earlier
life. `TailInv` adds what the lives in between hand on: the file holds at least
the floor; the periodic task's image holds no more than the open database, so
its rename, however late, sets no floor the server is below; main's last image
holds all of the database, because by then every request has been drained and
nothing is written.

`UpgradeComplete` and `SetupConsistent` need a statement about every database that a
later boot may open: the open one, the file, and the images of the two
snapshot tasks. `Copies` shows once for all steps that such a database was there
before, is the open one, or is empty; so what every write keeps holds of what a
later boot finds. `UpgradeInv` says that the statements the boot has passed are
done, whatever release the file is from and wherever an earlier boot was killed,
for no write takes a table, a column or a row away. `SetupInv` says that in each of
these databases a finished setup has equal ports, unless an admin has set one alone
since: the wizard is not finished while there is no user; the seeding, which brings
the rows of the ports, runs only in a boot that found it unfinished; and the `INIT_*` list and a request at work have
written the ports they have passed.

`UsesBounded` needs `LinkInv`: a token in a row has not been served, is in no
other row and was issued; every thread that holds it works for the client of
that row, so the first one to answer deletes it and no further thread can find
it; answers and holders together never outnumber the threads.

### The firewall

The three properties of packets hold when nobody is at work, `NeverHalfApplied`
between any two nft calls; `FirewallInv` gives both. One task at a time is inside
a rebuild, a restart or startup (`Alone`); the per-client chain exists but in the
interval in which the hooks have deleted the table (`ChainThere`); `Progress` says
for each step of a rebuild what the calls before it have left: which jumps are
listed, which half of the DNS lockdown is in place, that the list of grants is
still that of the rows or that another rebuild is to come. It is the commits of
other handlers, falling anywhere in a rebuild, that make the second half
necessary: such a handler has its own rebuild to do. With nobody inside, the chains
are those of the rows, or a handler has yet to rebuild them, or they were `wiped`
(`Calm`), and after a restart with the firewall on somebody has a rebuild to do
(`Due`). `JumpInv` says of any moment that no jump is listed twice: deletions keep the
order and an addition is of what the task's listing lacked, while nobody else was inside
to add it; and the two jumps to wg-clients come and go together. A last group of lemmas
evaluates the chains that this leaves on a packet:
the first verdict of the list of jumps is that of the DNS guard, then that of the
client's grants.

### The services

The properties speak of the moment when no request is at work and the last
reconcile went through. The invariants follow the one request there is: the row it
works with is the present one, and each file or child it has passed is as that row
says (`DnsInv`, `MdnsInv`). `XrayInv` must also know that a link cannot come back to
life. Secrets are fresh numbers, so the inbound has a link's key, or its path on
xhttp, exactly when none was regenerated since (`LinkFits`); and a path is drawn where
there was none only while no xhttp link is out, which is why a flip of the transport
and back loses no link.

For telemt the reconciling tasks overlap with each other and with the admin's calls.
`TelemtInv` speaks of each task that holds a snapshot and of the users it has met
nobody about: its rows are the database's of them, its listing is telemt's until
it reaches them, and from then on telemt's user is the database's (`HolderFits`).
Any call about a user puts it among the met, which is what the history variable
`owed` records when a task ends. A restart empties the store and owes every user.

### What stays with TLC

- Every liveness property, for the provers know neither fairness nor ENABLED:
  `ExpiryEnforced`, `OutageEnds`, `GivesUp`, `RequestsAnswered`, `ShutdownCompletes`,
  `CallSettles`, `ExpiredSwept`.
- What overlapping saves, rebuilds, wizard requests and admin requests of one service
  do: there the properties are false, or not stated.
- `LimiterBounded` of `Login`: the buckets are sequences that a filter shortens, and
  the length of a filtered sequence is an induction over it. No run lists it.

Everything else that the passing runs check, invariants and action properties alike,
is a theorem, on the hypotheses given above.

## 6. Abstractions

- `Roster`: a client is its address, whether it is enabled, its expiry and its
  owner. The IPv6 column behaves as the IPv4 one. The clock is a step that turns
  an expiry from ahead to behind. `syncconf` and `awg-quick` apply what the file
  says, or fail.
- `OneTimeLink`: a token is a number, never issued twice; the deletes, whose result
  the code ignores, succeed.
- `Firewall`: addresses are fixed, a client stands for its source address; the
  hooks are the default ones; a listing and the deletion by handle after it are
  one step; targets are valid, so a rebuild fails only for a missing chain; a
  save that fails before the rebuild is left out; the iptables-legacy mirror is
  left out.
- `Supervisor`: a child is an instance, pids are not reused; SIGTERM, grace and
  SIGKILL are one exit; taking the entry and setting its shutdown flag are one
  step; the settings and client rows are one row with a version; the two
  children of `dns/supervisor.rs` are looked at one at a time; a write of the
  partial file is whole; handlers run to their end; the stop at exit is left
  out. `disabled_reason` is display only.
- `ProxyLifecycle`: a UDP port has one holder; a sync that asks for a held port
  leaves AmneziaWG where it was, an `up` that does leaves it down; PostDown, the
  default hook, runs where there is an interface to take down; rendering and
  syncing are one step (`Roster` separates them). Configurations are compared as
  records, the hash as what it covers.
- `ProxySession`: a packet is what detection and classification say of it; time is
  a mark that turns a session stale; token buckets, byte counters and the QUIC
  handshake's own timer are left out.
- `SipDialog`: a header is its Call-ID or its CSeq method; one client.
- `Datagrams`: bytes are lengths and the fields a parser walks by; hash-derived
  choices range over all their values.
- `Login`: one account; time counts TOTP steps; a code is its secret and step
  (`hotp_sha1` taken injective); argon2 is equality.
- `Store`: a database is its tables, late columns, singleton rows, setup data, whether
  one port was edited alone since a setup, and the number of writes; a restore of a
  snapshot that passes its check succeeds; each statement commits alone; the tables' accessors are in
  the models of their components.
- `Xray`, `Mdnsvpn`, `DnsBundle`, `TelemtUsers`: secrets are numbers drawn in order,
  never twice; a key that MasterDnsVPN's operator supplies is one drawn before, and
  whether it encrypts decides whether the key counts, which is upstream's doing.
  External: SIGHUP or a restart makes a child read its file; telemt
  keeps the users added over its API across a reload of its own configuration, and
  none across a restart. A reconcile's render, write and signal are one step where
  `Supervisor` has the finer ones; an MTProxy user has no `enabled` column in the
  model, and of two inbound updates at once only the later one counts.

Every module states its type invariant; `Roster`'s is proved, the shapes the other
theorems need are part of their invariants (`Shape`, `StoreShape`, `FirewallShape`,
`TelemtTyped`), and the type invariants were checked beside the listed runs, which
spend their properties on the hazards.

## 7. Not modelled, and why

| Part | Reason |
|---|---|
| QR codes, the AmneziaWG client file's text | layout; which peers are rendered is `Roster`'s |
| Key generation (`xray/keys.rs`, `wg/cli.rs`), `rng.rs` | randomness; secrets are fresh numbers |
| The proxy's QUIC handshake (`quic_handshake.rs`) | quinn-proto's state machine; only its slot in the session is the program's |
| The Xray probe, updaters, runtime unpacking (`*/runtime.rs`, `build.rs`) | network and file I/O without a protocol of their own |
| Metrics (`proxy/metrics.rs`' exposition, `api/metrics`) | reads counters, changes nothing |
| memfd, prctl, environment (`memexec.rs`, `proc.rs`, `config.rs`) | system calls without a protocol |
| Accounts beyond the first, the profile | fields of a row |
| The stop of children at exit, nft's legacy mirror, failing rebuilds | small; the hazard list records the first and the last |
| Frontend, scripts, packaging, vendored binaries | not the core logic |

## 8. Where to go on

1. `Supervisor`: cancelled handlers and the stop at exit, which the service
   modules only summarise.
2. `Firewall`: failing and overlapping rebuilds, and addresses from `Roster`.
3. Two handlers at once in `Xray` and `Mdnsvpn`, with properties that say what
   overlap leaves of `LinksMatchInbound`.
4. Theorems: `LimiterBounded`, with the code's buckets as functions of time instead of
   sequences; `AccessCovered` with failing saves, once it is stated what a failure
   leaves; `CidrMoved` with several workers, once it is stated what a create that
   carries the old block leaves.
