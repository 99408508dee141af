--------------------------- MODULE ProxyLifecycle ---------------------------
(***************************************************************************)
(* The life of the DPI-imitation proxy: proxy/supervisor.rs, the admin     *)
(* endpoints of api/proxy.rs, and the parts of main.rs, wg/mod.rs and      *)
(* firewall.rs they call.  While the proxy is active it holds the public   *)
(* UDP port and AmneziaWG moves to a backend port, which the firewall      *)
(* closes to the outside.  A request writes the settings and runs          *)
(* apply_and_reconcile: render the configuration, lock the backend port,   *)
(* restart AmneziaWG, then stop and start the proxy's task.  The restart   *)
(* of an interface that is up runs its PostDown hook, which deletes the    *)
(* table that holds the lockdown; only the boot locks the port again.      *)
(*                                                                         *)
(* Requests run at once: every await of ensure_running is a step.          *)
(* Rendering and syncing, and taking the interface down and up, are one    *)
(* step each (Roster separates them).  The kernel's part is external: a    *)
(* UDP port has one holder, AmneziaWG or the proxy; a sync that asks for a *)
(* held port leaves AmneziaWG where it was, an `up` that does leaves it    *)
(* down; awg-quick runs PostDown only where there is an interface to take  *)
(* down.  The socket of a proxy whose loop has returned may be held a      *)
(* little longer by the tasks it aborted.                                  *)
(***************************************************************************)
EXTENDS Naturals, FiniteSets

CONSTANTS
  Workers,       \* tasks that run admin handlers
  Main,          \* the task that starts the program
  LastPort,      \* the last usable port (65535 in the code)
  PublicPorts,   \* values of the interface's port
  BackendPorts,  \* values of backend_port: 0 is "auto"
  Protocols,     \* "quic" and at least one more
  Params,        \* variants of the interface's obfuscation parameters
  MaxOps,        \* bound: requests
  MaxBinds,      \* bound: proxies ever bound
  MaxCrashes     \* bound: crashes of the process

ASSUME ProxyLifecycleAssumption ==
  /\ IsFiniteSet(Workers) /\ Main \notin Workers
  /\ LastPort \in Nat /\ LastPort > 1
  /\ PublicPorts \subseteq 1..LastPort /\ PublicPorts # {}
  /\ BackendPorts \subseteq 0..LastPort /\ BackendPorts # {}
  /\ MaxOps \in Nat /\ MaxBinds \in Nat /\ MaxCrashes \in Nat

Tasks == Workers \union {Main}
Gens == 1..MaxBinds

VARIABLES
  settings,  \* the proxy_settings row
  iface,     \* the interface row: its port and its parameters
  conf,      \* the ListenPort in the rendered configuration
  wg,        \* the port AmneziaWG listens on; 0: the interface is down
  lock,      \* the port the proxy-lockdown chain drops; 0: no chain
  wiped,     \* PostDown has deleted the table, and nothing locked a port since
  live,      \* STATE.live: the generation and its hash, or NoLive
  reason,    \* STATE.disabled_reason is set
  proxy,     \* per generation: the bound proxy and how its task stands
  req,       \* per task: where its request is and what it has read
  ops, binds, crashes,   \* counters of the bounds
  settled,   \* the last request ran alone to its end, and none came since
  raced      \* the port was edited, or a request dropped, while another ran

vars == <<settings, iface, conf, wg, lock, wiped, live, reason, proxy, req, ops,
          binds, crashes, settled, raced>>

locks == <<lock, wiped>>

Settings ==
  [enabled : BOOLEAN, protocol : Protocols,
   domain : BOOLEAN,   \* quic_handshake is off, or quic_cert_domain not blank
   backendPort : BackendPorts,
   caps : 0..1]        \* max_sessions and session_ttl

Interface == [port : PublicPorts, params : Params]

NoLive == [gen |-> 0]
NoProxy == [stage |-> "none"]
NoConfig == [listen |-> 0]

\* The request of a task that runs none, and one that is about to be served.
Idle == [pc |-> "idle"]

Request(pc) == [pc |-> pc, cfg |-> NoConfig, gen |-> 0, alone |-> TRUE]

-----------------------------------------------------------------------------
(* What the settings ask for. *)

EffectiveBackendPort(s, port) ==
  IF s.backendPort # 0 THEN s.backendPort
  ELSE IF port < LastPort THEN port + 1 ELSE port - 1

ShouldRemainDisabled(s, i) ==
  \/ ~s.enabled
  \/ s.protocol = "quic" /\ ~s.domain
  \/ EffectiveBackendPort(s, i.port) = i.port
  \/ EffectiveBackendPort(s, i.port) \notin 1..LastPort

EffectiveListenPort(s, i) ==
  IF ShouldRemainDisabled(s, i) THEN i.port ELSE EffectiveBackendPort(s, i.port)

Config(s, i) ==
  [listen |-> i.port, backend |-> EffectiveBackendPort(s, i.port),
   protocol |-> s.protocol, domain |-> s.domain,
   params |-> i.params, caps |-> s.caps]

\* Faulty variant: the obfuscation parameters are left out as well.
Hash_NoParams(cfg) == [cfg EXCEPT !.caps = 0, !.params = "any"]

\* hash_config leaves the session caps out.
Hash(cfg) == [cfg EXCEPT !.caps = 0]

\* The ports proxies hold: a socket lingers while an aborted task still has it.
Held == {proxy[g].cfg.listen : g \in {h \in Gens : proxy[h].stage # "none"}}

Busy(t) == req[t].pc # "idle"
Serving == \E t \in Tasks : Busy(t)

Go(t, pc) == req' = [req EXCEPT ![t].pc = pc]

-----------------------------------------------------------------------------
Init ==
  /\ settings \in {s \in Settings : s.protocol = "quic" /\ s.domain
                                    /\ s.caps = 0 /\ s.backendPort = 0}
  /\ iface \in {i \in Interface : i.port = LastPort}
  /\ iface.params = CHOOSE p \in Params : TRUE
  /\ conf = 0 /\ wg = 0 /\ lock = 0 /\ wiped = FALSE
  /\ live = NoLive /\ reason = FALSE
  /\ proxy = [g \in Gens |-> NoProxy]
  /\ req = [t \in Tasks |-> IF t = Main THEN Request("save") ELSE Idle]
  /\ ops = 0 /\ binds = 0 /\ crashes = 0
  /\ settled = FALSE /\ raced = FALSE

\* A request arrives: those already running no longer run alone.
Arrive(w, pc) ==
  /\ w \in Workers /\ ~Busy(w) /\ ~Busy(Main) /\ ops < MaxOps
  /\ ops' = ops + 1 /\ settled' = FALSE
  /\ req' = [t \in Tasks |->
       IF t = w THEN [Request(pc) EXCEPT !.alone = ~Serving]
       ELSE IF Busy(t) THEN [req[t] EXCEPT !.alone = FALSE] ELSE req[t]]

\* update_settings refuses what the supervisor would refuse: a backend port
\* equal to the public one, a handshake responder without a domain.
Accepts(s, fields) ==
  /\ ("backendPort" \in DOMAIN fields /\ fields.backendPort # 0)
       => fields.backendPort # iface.port
  /\ ~(s.protocol = "quic" /\ ~s.domain)

\* POST /api/admin/proxy/settings, with one field of the form changed.
UpdateSettings(w) ==
  /\ Arrive(w, "save")
  /\ \E f \in DOMAIN settings : \E s \in {x \in Settings :
          \A k \in DOMAIN settings \ {f} : x[k] = settings[k]} :
       /\ s # settings
       /\ Accepts(s, [k \in {f} |-> s[k]])
       /\ settings' = s
  /\ UNCHANGED <<iface, conf, wg, locks, live, reason, proxy, binds, crashes,
                 raced>>

\* POST /api/admin/proxy/restart.
RestartProxy(w) ==
  /\ Arrive(w, "save")
  /\ UNCHANGED <<settings, iface, conf, wg, locks, live, reason, proxy, binds,
                 crashes, raced>>

\* POST /api/admin/interface: the row, then save_config; the proxy is not told.
UpdateInterface(w) ==
  /\ Arrive(w, "saveOnly")
  /\ \E i \in Interface : i # iface /\ iface' = i
  /\ raced' = (raced \/ Serving)
  /\ UNCHANGED <<settings, conf, wg, locks, live, reason, proxy, binds, crashes>>

\* POST /api/admin/interface/restart.
RestartInterface(w) ==
  /\ Arrive(w, "restartOnly")
  /\ UNCHANGED <<settings, iface, conf, wg, locks, live, reason, proxy, binds,
                 crashes, raced>>

\* The request answers; it settled the system if it reconciled the proxy, was
\* alone and did not fail.
Answer(t, good) ==
  /\ req' = [req EXCEPT ![t] = Idle]
  /\ settled' = (good /\ req[t].alone)

-----------------------------------------------------------------------------
(* apply_and_reconcile, and wg::startup at boot. *)

\* wg::save_config: render, then awg_sync, which moves a running interface
\* unless the port is held.
Save(t) ==
  /\ req[t].pc \in {"save", "saveOnly"}
  /\ conf' = EffectiveListenPort(settings, iface)
  /\ wg' = IF wg = 0 \/ conf' \in Held THEN wg ELSE conf'
  /\ IF req[t].pc = "save" THEN Go(t, "lock") /\ UNCHANGED settled
     ELSE Answer(t, FALSE)
  /\ UNCHANGED <<settings, iface, locks, live, reason, proxy, ops, binds,
                 crashes, raced>>

\* apply_proxy_lockdown: the backend port, or no chain while the proxy is
\* inactive.
Lock(port) ==
  /\ lock' = IF port = iface.port THEN 0 ELSE port
  /\ wiped' = FALSE

\* apply_and_reconcile and startup lock the port before the restart.
Lockdown(t) ==
  /\ req[t].pc = "lock"
  /\ Lock(EffectiveListenPort(settings, iface))
  /\ Go(t, "restart")
  /\ UNCHANGED <<settings, iface, conf, wg, live, reason, proxy, ops, binds,
                 crashes, settled, raced>>

\* Faulty variant: it looks at the switch alone, as if an enabled proxy were
\* always an active one.
LockAgain_Enabled(t) ==
  /\ req[t].pc = "relock"
  /\ lock' = IF settings.enabled THEN EffectiveBackendPort(settings, iface.port) ELSE 0
  /\ wiped' = FALSE
  /\ Go(t, "read")
  /\ UNCHANGED <<settings, iface, conf, wg, live, reason, proxy, ops, binds,
                 crashes, settled, raced>>

\* main locks it once more, before it starts the proxy.
LockAgain(t) ==
  /\ req[t].pc = "relock"
  /\ Lock(EffectiveListenPort(settings, iface))
  /\ Go(t, "read")
  /\ UNCHANGED <<settings, iface, conf, wg, live, reason, proxy, ops, binds,
                 crashes, settled, raced>>

\* wg::restart: down, with PostDown if there is an interface, then up on the
\* configured port.
RestartWg(t) ==
  /\ req[t].pc \in {"restart", "restartOnly"}
  /\ IF wg # 0 THEN lock' = 0 /\ wiped' = TRUE ELSE UNCHANGED locks
  /\ wg' = IF conf \in Held THEN 0 ELSE conf
  /\ IF req[t].pc = "restart"
     THEN Go(t, IF t = Main THEN "relock" ELSE "read") /\ UNCHANGED settled
     ELSE Answer(t, FALSE)
  /\ UNCHANGED <<settings, iface, conf, live, reason, proxy, ops, binds,
                 crashes, raced>>

-----------------------------------------------------------------------------
(* ensure_running, start and stop_if_running. *)

\* The rows are read before STATE is locked.
Read(t) ==
  /\ req[t].pc = "read"
  /\ req' = IF ShouldRemainDisabled(settings, iface)
            THEN [req EXCEPT ![t].pc = "take"]
            ELSE [req EXCEPT ![t].pc = "check",
                             ![t].cfg = Config(settings, iface)]
  /\ UNCHANGED <<settings, iface, conf, wg, locks, live, reason, proxy, ops,
                 binds, crashes, settled, raced>>

\* The same configuration already runs: nothing to do.
Check(t) ==
  /\ req[t].pc = "check"
  /\ IF live # NoLive /\ live.hash = Hash(req[t].cfg)
     THEN Answer(t, TRUE)
     ELSE Go(t, "take") /\ UNCHANGED settled
  /\ UNCHANGED <<settings, iface, conf, wg, locks, live, reason, proxy, ops,
                 binds, crashes, raced>>

\* stop_if_running, to the signal: the task leaves STATE and is told to stop.
Take(t) ==
  /\ req[t].pc = "take"
  /\ reason' = TRUE /\ live' = NoLive
  /\ IF live = NoLive
     THEN /\ UNCHANGED proxy
          /\ IF req[t].cfg = NoConfig THEN Answer(t, TRUE)
             ELSE Go(t, "bind") /\ UNCHANGED settled
     ELSE /\ proxy' = [proxy EXCEPT ![live.gen].stage = "told"]
          /\ req' = [req EXCEPT ![t].pc = "join", ![t].gen = live.gen]
          /\ UNCHANGED settled
  /\ UNCHANGED <<settings, iface, conf, wg, locks, ops, binds, crashes, raced>>

\* Faulty variant: the join has no timeout.
Join_Forever(t) ==
  /\ req[t].pc = "join"
  /\ proxy[req[t].gen].stage \in {"lingers", "none"}
  /\ IF req[t].cfg = NoConfig THEN Answer(t, TRUE)
     ELSE Go(t, "bind") /\ UNCHANGED settled
  /\ UNCHANGED <<settings, iface, conf, wg, locks, live, reason, proxy, ops,
                 binds, crashes, raced>>

\* The task was joined, or five seconds passed.
Join(t) ==
  /\ req[t].pc = "join"
  /\ IF req[t].cfg = NoConfig THEN Answer(t, TRUE)
     ELSE Go(t, "bind") /\ UNCHANGED settled
  /\ UNCHANGED <<settings, iface, conf, wg, locks, live, reason, proxy, ops,
                 binds, crashes, raced>>

\* Proxy::bind, and the spawn of its task; a held port is an error, which the
\* caller logs and STATE does not record.
Bind(t) ==
  /\ req[t].pc = "bind" /\ binds < MaxBinds
  /\ IF req[t].cfg.listen \in Held \union {wg}
     THEN Answer(t, FALSE) /\ UNCHANGED <<proxy, binds>>
     ELSE /\ binds' = binds + 1
          /\ proxy' = [proxy EXCEPT ![binds + 1] =
                         [stage |-> "runs", cfg |-> req[t].cfg]]
          /\ req' = [req EXCEPT ![t].pc = "register", ![t].gen = binds + 1]
          /\ UNCHANGED settled
  /\ UNCHANGED <<settings, iface, conf, wg, locks, live, reason, ops, crashes,
                 raced>>

\* STATE.live is set, whatever it held.
Register(t) ==
  /\ req[t].pc = "register"
  /\ live' = [gen |-> req[t].gen, hash |-> Hash(req[t].cfg)]
  /\ reason' = FALSE
  /\ Answer(t, TRUE)
  /\ UNCHANGED <<settings, iface, conf, wg, locks, proxy, ops, binds, crashes,
                 raced>>

\* The client disconnects: the handler is dropped at an await.  The join is a
\* long one; the mutex of Register is one only while another request has it.
Drop(w) ==
  /\ w \in Workers
  /\ \/ req[w].pc = "join" /\ UNCHANGED raced
     \/ req[w].pc = "register" /\ (\E o \in Tasks \ {w} : Busy(o)) /\ raced' = TRUE
  /\ Answer(w, FALSE)
  /\ UNCHANGED <<settings, iface, conf, wg, locks, live, reason, proxy, ops,
                 binds, crashes>>

-----------------------------------------------------------------------------
(* The proxy's task and the process. *)

\* run() returns; its completion handler clears STATE if it is still current.
TaskEnds(g) ==
  /\ proxy[g].stage = "told"
  /\ proxy' = [proxy EXCEPT ![g].stage = "lingers"]
  /\ live' = IF live.gen = g THEN NoLive ELSE live
  /\ UNCHANGED <<settings, iface, conf, wg, locks, reason, req, ops, binds,
                 crashes, settled, raced>>

\* The last of the aborted tasks drops the socket.
SocketCloses(g) ==
  /\ proxy[g].stage = "lingers"
  /\ proxy' = [proxy EXCEPT ![g] = NoProxy]
  /\ UNCHANGED <<settings, iface, conf, wg, locks, live, reason, req, ops,
                 binds, crashes, settled, raced>>

\* The process dies and starts again: AmneziaWG and the firewall survive it,
\* sockets and STATE do not; main brings the interface up before serving.
Crash ==
  /\ crashes < MaxCrashes /\ crashes' = crashes + 1
  /\ live' = NoLive /\ reason' = FALSE
  /\ proxy' = [g \in Gens |-> NoProxy]
  /\ req' = [t \in Tasks |-> IF t = Main THEN Request("save") ELSE Idle]
  /\ settled' = FALSE /\ raced' = FALSE
  /\ UNCHANGED <<settings, iface, conf, wg, locks, ops, binds>>

Step(t) ==
  \/ Save(t) \/ Lockdown(t) \/ RestartWg(t) \/ LockAgain(t) \/ Read(t)
  \/ Check(t) \/ Take(t) \/ Join(t) \/ Bind(t) \/ Register(t)

Next ==
  \/ \E w \in Workers : \/ UpdateSettings(w) \/ RestartProxy(w)
                        \/ UpdateInterface(w) \/ RestartInterface(w) \/ Drop(w)
  \/ \E t \in Tasks : Step(t)
  \/ \E g \in Gens : TaskEnds(g) \/ SocketCloses(g)
  \/ Crash

Spec == Init /\ [][Next]_vars

\* A handler is a task of the runtime: it is polled until it answers.  Nothing
\* is assumed of the proxy's own task, which may hang in a packet.
FairSpec == Spec /\ \A t \in Tasks : WF_vars(Step(t))

-----------------------------------------------------------------------------
(* Properties. *)

\* status() says Running whenever STATE has a task.
Running == live # NoLive

TypeOK ==
  /\ settings \in Settings /\ iface \in Interface
  /\ {conf, wg, lock} \subseteq 0..LastPort
  /\ live.gen \in 0..MaxBinds
  /\ \A g \in Gens : proxy[g].stage \in {"none", "runs", "told", "lingers"}
  /\ \A t \in Tasks : req[t].pc \in {"idle", "save", "saveOnly", "lock",
       "restart", "restartOnly", "relock", "read", "check", "take", "join", "bind",
       "register"}
  /\ ops \in 0..MaxOps /\ binds \in 0..MaxBinds /\ crashes \in 0..MaxCrashes
  /\ {wiped, reason, settled, raced} \subseteq BOOLEAN

Active == ~ShouldRemainDisabled(settings, iface)

\* When a request that ran alone has answered without an error, whatever raced
\* before it, the task in STATE is the one the rows ask for, or there is none
\* when they ask for none (the session caps apart: hash_config leaves them out).
Reconciled ==
  settled =>
    LET wanted == Config(settings, iface) IN
    IF Active THEN /\ live # NoLive
                   /\ [proxy[live.gen].cfg EXCEPT !.caps = wanted.caps] = wanted
    ELSE live = NoLive

\* In the same states AmneziaWG, if it is up, is where the configuration says,
\* and no drop of an earlier configuration is left: the firewall closes exactly
\* the backend port after a boot, or after a restart of an interface that was
\* down, and nothing after a restart that ran PostDown.
Confined ==
  settled =>
    /\ wg \in {0, EffectiveListenPort(settings, iface)}
    /\ lock = IF Active /\ ~wiped THEN EffectiveListenPort(settings, iface) ELSE 0

\* What status reports as running is a task that runs and was not told to stop.
RunningIsLive == Running => proxy[live.gen].stage = "runs"

\* A proxy that nobody was told to stop is the one in STATE or about to be,
\* unless the interface's port was edited or a handler dropped during a start.
TasksTracked ==
  raced \/ \A g \in Gens : proxy[g].stage = "runs" =>
    \/ live.gen = g
    \/ \E t \in Tasks : req[t].pc = "register" /\ req[t].gen = g

\* Every request is answered, even when the proxy's task hangs (the timeout).
RequestsAnswered ==
  \A t \in Tasks : (req[t].pc \notin {"idle", "bind"}) ~> (req[t].pc \in {"idle", "bind"})

\* Claimed: "Restarting AmneziaWG on the new ListenPort is what actually
\* frees/claims the public UDP port" (proxy/supervisor.rs:490-491).
PortReclaimed == (settled /\ ~Active) => wg = iface.port
=============================================================================
