---------------------------- MODULE ProxySession ----------------------------
(***************************************************************************)
(* The datapath of the DPI-imitation proxy: proxy/proxy.rs without its SIP *)
(* and QUIC conversations, proxy/session.rs and the client table of        *)
(* proxy/metrics.rs.                                                       *)
(*                                                                         *)
(* One receive loop takes the packets of all clients, one after another.   *)
(* Every session has a relay task for the way back.  A sweeper expires     *)
(* sessions whose client is silent.  The three meet in maps keyed by the   *)
(* client's address, each locked by itself: what a task does between two   *)
(* map calls is a step of its own.                                         *)
(***************************************************************************)
EXTENDS Naturals, FiniteSets

CONSTANTS
  Clients,       \* client addresses
  Protocols,     \* what detect_protocol can answer; "dns" is one
  Modes,         \* imitate_protocol: "auto", or a member of Protocols
  MaxSessions,   \* max_sessions
  MaxMetrics,    \* max_clients of the metrics store
  Permits,       \* MAX_INFLIGHT_DNS_FORWARDS (256 in the code)
  MaxGen         \* bound: relays started

ASSUME ProxyAssumption ==
  /\ IsFiniteSet(Clients) /\ Clients # {}
  /\ "dns" \in Protocols /\ "none" \notin Protocols
  /\ Modes \subseteq Protocols \union {"auto"} /\ Modes # {}
  /\ MaxSessions \in Nat /\ MaxMetrics \in Nat /\ Permits \in Nat /\ MaxGen \in Nat

Gen     == 1..MaxGen       \* relay_generation
NoRelay == 0               \* NO_RELAY_GENERATION, and no entry in relay_handles

\* live: an entry of the table; stale: silent for longer than the ttl.
Session   == [live : BOOLEAN, gen : 0..MaxGen, stale : BOOLEAN]
NoSession == [live |-> FALSE, gen |-> NoRelay, stale |-> FALSE]

\* A datagram: whether classify_awg_packet knows it, and the protocol it (or
\* its padding) looks like.
Packet == [awg : BOOLEAN, looks : Protocols \union {"none"}]

VARIABLES
  mode,      \* fixed_protocol, or "auto"
  sessions,  \* SessionTable.sessions
  count,     \* SessionTable.session_count
  metrics,   \* keys of MetricsStore
  protocol,  \* client_protocols
  echo,      \* keys of dns_query_echo
  handles,   \* relay_handles: the generation registered for a client
  nextGen,   \* Proxy.relay_generation
  relay,     \* per generation, its task
  rx,        \* the receive loop
  sweep,     \* the cleanup task
  forwards,  \* DNS forwards in flight
  shutdown   \* shutdown_tx

vars == <<mode, sessions, count, metrics, protocol, echo, handles, nextGen, relay, rx,
          sweep, forwards, shutdown>>

table == <<sessions, count>>
aux   == <<metrics, protocol, echo>>
tasks == <<handles, nextGen, relay>>

Relay == [client : Clients,
          at : {"new", "run", "session", "uncount", "wipe", "handle", "done"}]

Rx == [at : {"idle", "probe", "echo", "lookup", "bind", "reserve", "insert", "spawn",
             "replace", "register", "settle", "reject", "stopped"},
       client : Clients, packet : Packet, metered : BOOLEAN]

Sweep == [at : {"idle", "scan", "drop", "contains", "wipe", "stopped"},
          due : SUBSET Clients,
          expired : SUBSET (Clients \X (0..MaxGen)),
          now : Clients \X (0..MaxGen)]

SessionOf == {c \in Clients : sessions[c].live}

\* The shards locked across two steps: from the reservation to the insert, and
\* inside the closure of retain.
Held == {c \in Clients : \/ rx.at = "insert" /\ rx.client = c
                         \/ sweep.at = "drop" /\ sweep.now[1] = c}

AnyClient == CHOOSE c \in Clients : TRUE
IdleRx    == [at |-> "idle", client |-> AnyClient,
              packet |-> [awg |-> TRUE, looks |-> "none"], metered |-> FALSE]
IdleSweep == [at |-> "idle", due |-> {}, expired |-> {}, now |-> <<AnyClient, NoRelay>>]

\* What a packet or an expiry has left in a task's locals is forgotten.
RxGoto(label) ==
  rx' = IF label \in {"idle", "stopped"} THEN [IdleRx EXCEPT !.at = label]
        ELSE [rx EXCEPT !.at = label]
SweepGoto(label) ==
  sweep' = [sweep EXCEPT !.at = label, !.now = IF label = "scan" THEN IdleSweep.now ELSE @]

\* JoinHandle::abort takes effect where the task awaits: in its loop.  The
\* clean-up after a failed recv has no await and runs to its end.
Aborted(gens) ==
  [g \in Gen |-> IF g \in gens /\ relay[g].at = "run"
                 THEN [relay[g] EXCEPT !.at = "done"] ELSE relay[g]]

-----------------------------------------------------------------------------
Init ==
  /\ mode \in Modes
  /\ sessions = [c \in Clients |-> NoSession] /\ count = 0
  /\ metrics = {} /\ protocol = [c \in Clients |-> "none"] /\ echo = {}
  /\ handles = [c \in Clients |-> NoRelay] /\ nextGen = 1
  /\ relay = [g \in Gen |-> [client |-> AnyClient, at |-> "new"]]
  /\ rx = IdleRx /\ sweep = IdleSweep
  /\ forwards = 0 /\ shutdown = FALSE

(***************************************************************************)
(* The receive loop: handle_client_packet                                  *)
(***************************************************************************)
\* A datagram arrives; MetricsStore::get_or_create refuses only new clients.
Receive(c, packet) ==
  /\ rx.at = "idle" /\ nextGen <= MaxGen
  /\ metrics' = IF Cardinality(metrics) < MaxMetrics THEN metrics \union {c} ELSE metrics
  /\ rx' = [at |-> IF packet.awg THEN "echo" ELSE "probe", client |-> c,
            packet |-> packet, metered |-> c \in metrics']
  /\ UNCHANGED <<mode, table, protocol, echo, tasks, sweep, forwards, shutdown>>

\* The protocol a probe of client c is answered in: the fixed one, or in auto
\* mode the first one detected for c.
Selected(c, looks) ==
  CASE looks = "none" -> "none"
    [] mode # "auto" -> IF looks = mode THEN looks ELSE "none"
    [] OTHER -> IF protocol[c] \in {looks, "none"} THEN looks ELSE "none"

\* handle_probe.  Only a metered client with a token is answered; a DNS query
\* goes upstream if a permit is free, every other answer is inline.
Probe(token) ==
  LET c == rx.client  selected == Selected(c, rx.packet.looks) IN
  /\ rx.at = "probe"
  /\ protocol' = IF mode = "auto" /\ selected # "none"
                 THEN [protocol EXCEPT ![c] = selected] ELSE protocol
  /\ \/ forwards' = forwards
     \/ /\ selected = "dns" /\ rx.metered /\ token /\ forwards < Permits
        /\ forwards' = forwards + 1
  /\ RxGoto("echo")
  /\ UNCHANGED <<mode, table, metrics, echo, tasks, sweep, shutdown>>

\* The latest well-formed query is kept while DNS is the client's protocol.
Echo ==
  LET c == rx.client IN
  /\ rx.at = "echo"
  /\ echo' = IF rx.packet.looks = "dns" /\ "dns" \in {mode, protocol[c]}
             THEN echo \union {c} ELSE echo
  /\ RxGoto("lookup")
  /\ UNCHANGED <<mode, table, metrics, protocol, tasks, sweep, forwards, shutdown>>

\* get_or_create up to its await.  Only this loop inserts, so its re-check of
\* a full table finds what the first look found.
Lookup ==
  LET c == rx.client IN
  /\ rx.at = "lookup" /\ c \notin Held
  /\ sessions' = [sessions EXCEPT ![c].stale = FALSE]
  /\ RxGoto(IF sessions[c].live THEN "idle" ELSE IF count >= MaxSessions THEN "reject" ELSE "bind")
  /\ UNCHANGED <<mode, count, aux, tasks, sweep, forwards, shutdown>>

\* The backend socket is bound and connected, or not.
Bind ==
  /\ rx.at = "bind"
  /\ RxGoto("reserve") \/ RxGoto("reject")
  /\ UNCHANGED <<mode, table, aux, tasks, sweep, forwards, shutdown>>

\* The slot is reserved under the lock of the vacant entry ...
Reserve ==
  /\ rx.at = "reserve" /\ rx.client \notin Held
  /\ IF count >= MaxSessions
     THEN RxGoto("reject") /\ UNCHANGED count
     ELSE RxGoto("insert") /\ count' = count + 1
  /\ UNCHANGED <<mode, sessions, aux, tasks, sweep, forwards, shutdown>>

\* ... and filled.
Insert ==
  /\ rx.at = "insert"
  /\ sessions' = [sessions EXCEPT ![rx.client] = [live |-> TRUE, gen |-> NoRelay, stale |-> FALSE]]
  /\ RxGoto("spawn")
  /\ UNCHANGED <<mode, count, aux, tasks, sweep, forwards, shutdown>>

\* spawn_session_relay: a new generation, written to the session if it is
\* still there, and its task.
SpawnRelay ==
  LET c == rx.client IN
  /\ rx.at = "spawn" /\ c \notin Held
  /\ nextGen' = nextGen + 1
  /\ sessions' = IF sessions[c].live THEN [sessions EXCEPT ![c].gen = nextGen] ELSE sessions
  /\ relay' = [relay EXCEPT ![nextGen] = [client |-> c, at |-> "run"]]
  /\ RxGoto("replace")
  /\ UNCHANGED <<mode, count, aux, handles, sweep, forwards, shutdown>>

ReplaceHandle ==
  /\ rx.at = "replace"
  /\ relay' = Aborted({handles[rx.client]})
  /\ handles' = [handles EXCEPT ![rx.client] = NoRelay]
  /\ RxGoto("register")
  /\ UNCHANGED <<mode, table, aux, nextGen, sweep, forwards, shutdown>>

RegisterHandle ==
  /\ rx.at = "register"
  /\ handles' = [handles EXCEPT ![rx.client] = nextGen - 1]
  /\ RxGoto("settle")
  /\ UNCHANGED <<mode, table, aux, nextGen, relay, sweep, forwards, shutdown>>

\* A relay that has ended before it was registered leaves no entry behind.
DropFinished ==
  LET g == nextGen - 1 IN
  /\ rx.at = "settle"
  /\ handles' = IF handles[rx.client] = g /\ relay[g].at = "done"
                THEN [handles EXCEPT ![rx.client] = NoRelay] ELSE handles
  /\ RxGoto("idle")
  /\ UNCHANGED <<mode, table, aux, nextGen, relay, sweep, forwards, shutdown>>

\* The removals of a client's entries from the other maps.  They are one step:
\* each map is written once by the packet a wipe may race with, so a leftover
\* entry of any order of the removals is left over by this one too.
Wiped(c) ==
  /\ metrics' = metrics \ {c} /\ echo' = echo \ {c}
  /\ protocol' = [protocol EXCEPT ![c] = "none"]

\* No session, no auxiliary state: the sweeper would never find it.
Reject ==
  /\ rx.at = "reject" /\ RxGoto("idle")
  /\ Wiped(rx.client)
  /\ UNCHANGED <<mode, table, tasks, sweep, forwards, shutdown>>

(***************************************************************************)
(* The relay of generation g                                               *)
(***************************************************************************)
RelayGoto(g, label) == relay' = [relay EXCEPT ![g].at = label]

\* Packets from the backend are relayed and change none of the maps: they do
\* not keep a session alive.  The socket's recv fails.
RelayError(g) ==
  /\ relay[g].at = "run" /\ RelayGoto(g, "session")
  /\ UNCHANGED <<mode, table, aux, handles, nextGen, rx, sweep, forwards, shutdown>>

\* Faulty variant: the slot of a session that was gone already is given back.
RelayRemove_Always(g) ==
  LET c == relay[g].client IN
  /\ relay[g].at = "session" /\ c \notin Held
  /\ sessions' = [sessions EXCEPT ![c] = NoSession]
  /\ RelayGoto(g, "uncount")
  /\ UNCHANGED <<mode, count, aux, handles, nextGen, rx, sweep, forwards, shutdown>>

\* SessionTable::remove, by address: whatever session is there.
RelayRemove(g) ==
  LET c == relay[g].client IN
  /\ relay[g].at = "session" /\ c \notin Held
  /\ sessions' = [sessions EXCEPT ![c] = NoSession]
  /\ RelayGoto(g, IF sessions[c].live THEN "uncount" ELSE "wipe")
  /\ UNCHANGED <<mode, count, aux, handles, nextGen, rx, sweep, forwards, shutdown>>

RelayUncount(g) ==
  /\ relay[g].at = "uncount"
  /\ count' = count - 1 /\ RelayGoto(g, "wipe")
  /\ UNCHANGED <<mode, sessions, aux, handles, nextGen, rx, sweep, forwards, shutdown>>

RelayWipe(g) ==
  /\ relay[g].at = "wipe" /\ RelayGoto(g, "handle")
  /\ Wiped(relay[g].client)
  /\ UNCHANGED <<mode, table, handles, nextGen, rx, sweep, forwards, shutdown>>

\* remove_if: its own entry only.
RelayEnd(g) ==
  LET c == relay[g].client IN
  /\ relay[g].at = "handle" /\ RelayGoto(g, "done")
  /\ handles' = IF handles[c] = g THEN [handles EXCEPT ![c] = NoRelay] ELSE handles
  /\ UNCHANGED <<mode, table, aux, nextGen, rx, sweep, forwards, shutdown>>

(***************************************************************************)
(* The sweeper: cleanup_expired and teardown_expired_client                *)
(***************************************************************************)
\* A client has been silent for longer than the ttl, which no handling of one
\* packet and no sweep lasts.
Age(c) ==
  /\ sessions[c].live /\ ~sessions[c].stale /\ sweep.at = "idle"
  /\ rx.client = c => rx.at \in {"idle", "probe", "echo", "lookup", "stopped"}
  /\ sessions' = [sessions EXCEPT ![c].stale = TRUE]
  /\ UNCHANGED <<mode, count, aux, tasks, rx, sweep, forwards, shutdown>>

SweepStart ==
  /\ sweep.at = "idle" /\ \E c \in Clients : sessions[c].stale
  /\ sweep' = [sweep EXCEPT !.at = "scan", !.due = Clients, !.expired = {}]
  /\ UNCHANGED <<mode, table, aux, tasks, rx, forwards, shutdown>>

\* The closure of retain lowers the count, then the entry is erased.
SweepVisit(c) ==
  /\ sweep.at = "scan" /\ c \in sweep.due /\ c \notin Held
  /\ IF sessions[c].live /\ sessions[c].stale
     THEN /\ count' = count - 1
          /\ sweep' = [sweep EXCEPT !.at = "drop", !.due = @ \ {c}, !.now = <<c, sessions[c].gen>>,
                                    !.expired = @ \union {<<c, sessions[c].gen>>}]
     ELSE sweep' = [sweep EXCEPT !.due = @ \ {c}] /\ UNCHANGED count
  /\ UNCHANGED <<mode, sessions, aux, tasks, rx, forwards, shutdown>>

SweepDrop ==
  /\ sweep.at = "drop"
  /\ sessions' = [sessions EXCEPT ![sweep.now[1]] = NoSession]
  /\ SweepGoto("scan")
  /\ UNCHANGED <<mode, count, aux, tasks, rx, forwards, shutdown>>

\* Faulty variant: the relay of the address is aborted, of whatever generation.
SweepAbort_Any(c, g) ==
  /\ sweep.at = "scan" /\ sweep.due = {} /\ <<c, g>> \in sweep.expired
  /\ relay' = Aborted({handles[c]})
  /\ handles' = [handles EXCEPT ![c] = NoRelay]
  /\ sweep' = [sweep EXCEPT !.at = "contains", !.now = <<c, g>>, !.expired = @ \ {<<c, g>>}]
  /\ UNCHANGED <<mode, table, aux, nextGen, rx, forwards, shutdown>>

\* Only the relay of the expired session is aborted.
SweepAbort(c, g) ==
  /\ sweep.at = "scan" /\ sweep.due = {} /\ <<c, g>> \in sweep.expired
  /\ IF handles[c] = g /\ g # NoRelay
     THEN relay' = Aborted({g}) /\ handles' = [handles EXCEPT ![c] = NoRelay]
     ELSE UNCHANGED <<relay, handles>>
  /\ sweep' = [sweep EXCEPT !.at = "contains", !.now = <<c, g>>, !.expired = @ \ {<<c, g>>}]
  /\ UNCHANGED <<mode, table, aux, nextGen, rx, forwards, shutdown>>

\* The state of an address with a session again is left alone.
SweepContains ==
  /\ sweep.at = "contains" /\ sweep.now[1] \notin Held
  /\ SweepGoto(IF sessions[sweep.now[1]].live THEN "scan" ELSE "wipe")
  /\ UNCHANGED <<mode, table, aux, tasks, rx, forwards, shutdown>>

SweepWipe ==
  /\ sweep.at = "wipe" /\ SweepGoto("scan")
  /\ Wiped(sweep.now[1])
  /\ UNCHANGED <<mode, table, tasks, rx, forwards, shutdown>>

\* The next tick, unless run() has aborted the task.
SweepEnd ==
  /\ sweep.at = "scan" /\ sweep.due = {} /\ sweep.expired = {}
  /\ SweepGoto(IF rx.at = "stopped" THEN "stopped" ELSE "idle")
  /\ UNCHANGED <<mode, table, aux, tasks, rx, forwards, shutdown>>

(***************************************************************************)
(* DNS forwards and the shutdown                                           *)
(***************************************************************************)
\* try_spawn_dns_forward's task: answered, timed out, or abandoned.
ForwardEnds ==
  /\ forwards > 0
  /\ forwards' = forwards - 1
  /\ UNCHANGED <<mode, table, aux, tasks, rx, sweep, shutdown>>

Shutdown ==
  /\ ~shutdown /\ shutdown' = TRUE
  /\ UNCHANGED <<mode, table, aux, tasks, rx, sweep, forwards>>

\* Faulty variant: the relays are left to themselves.
Stop_Relays ==
  /\ rx.at = "idle" /\ shutdown
  /\ RxGoto("stopped")
  /\ sweep' = IF sweep.at = "idle" THEN [sweep EXCEPT !.at = "stopped"] ELSE sweep
  /\ handles' = [c \in Clients |-> NoRelay]
  /\ UNCHANGED <<mode, table, aux, nextGen, relay, forwards, shutdown>>

\* run() leaves its loop between two packets and aborts what it has handles of.
Stop ==
  /\ rx.at = "idle" /\ shutdown
  /\ RxGoto("stopped")
  /\ sweep' = IF sweep.at = "idle" THEN [sweep EXCEPT !.at = "stopped"] ELSE sweep
  /\ relay' = Aborted({handles[c] : c \in Clients})
  /\ handles' = [c \in Clients |-> NoRelay]
  /\ UNCHANGED <<mode, table, aux, nextGen, forwards, shutdown>>

-----------------------------------------------------------------------------
RxStep ==
  \/ \E token \in BOOLEAN : Probe(token)
  \/ Echo \/ Lookup \/ Bind \/ Reserve \/ Insert \/ SpawnRelay \/ ReplaceHandle
  \/ RegisterHandle \/ DropFinished \/ Reject \/ Stop

RelayClean(g) == RelayRemove(g) \/ RelayUncount(g) \/ RelayWipe(g) \/ RelayEnd(g)

SweepStep ==
  \/ SweepStart \/ SweepDrop \/ SweepContains \/ SweepWipe \/ SweepEnd
  \/ \E c \in Clients : SweepVisit(c) \/ \E g \in 0..MaxGen : SweepAbort(c, g)

Next ==
  \/ \E c \in Clients, packet \in Packet : Receive(c, packet)
  \/ RxStep \/ SweepStep
  \/ \E g \in Gen : RelayError(g) \/ RelayClean(g)
  \/ \E c \in Clients : Age(c)
  \/ ForwardEnds \/ Shutdown

Spec == Init /\ [][Next]_vars

\* The runtime polls every task that is ready, and select! its branches in
\* random order: a shutdown is seen although packets keep coming.  Packets,
\* errors of a socket, silence and the shutdown itself need not come.
FairSpec ==
  /\ Spec
  /\ WF_vars(RxStep) /\ SF_vars(Stop) /\ WF_vars(SweepStep)
  /\ \A g \in Gen : WF_vars(RelayClean(g))
  /\ WF_vars(ForwardEnds)

-----------------------------------------------------------------------------
\* The variables keep their shape; generations are handed out in order.
TypeOK ==
  /\ mode \in Modes
  /\ sessions \in [Clients -> Session] /\ count \in Nat
  /\ metrics \subseteq Clients /\ echo \subseteq Clients
  /\ protocol \in [Clients -> Protocols \union {"none"}]
  /\ handles \in [Clients -> 0..MaxGen] /\ nextGen \in 1..(MaxGen + 1)
  /\ relay \in [Gen -> Relay]
  /\ rx \in Rx /\ sweep \in Sweep
  /\ forwards \in 0..Permits /\ shutdown \in BOOLEAN

Uncounted == {g \in Gen : relay[g].at = "uncount"}

\* "Atomic counter kept in sync with sessions.len()" (session.rs:83): it never
\* loses or leaks a slot.  It differs from the number of sessions only by the
\* reservation not yet filled, the expiry not yet carried out and the removals
\* not yet counted.
CountExact ==
  count + (IF sweep.at = "drop" THEN 1 ELSE 0)
    = Cardinality(SessionOf) + (IF rx.at = "insert" THEN 1 ELSE 0) + Cardinality(Uncounted)

\* The table overshoots max_sessions by no more than the entry that the
\* sweeper has counted out and not yet erased.
SessionsBounded == Cardinality(SessionOf) <= MaxSessions + (IF sweep.at = "drop" THEN 1 ELSE 0)

\* "it can never lose its relay" (proxy.rs:1389): a session, re-created during
\* a sweep, an error clean-up or a replacement or not, has a relay that runs,
\* or one that is about to remove the session, or the loop is starting one.
RelayServes ==
  rx.at # "stopped" =>
    \A c \in SessionOf :
      \/ rx.at = "spawn" /\ rx.client = c
      \/ \E g \in Gen : relay[g].client = c /\ relay[g].at \in {"run", "session"}

\* Every running relay is in relay_handles, or being put there: the shutdown
\* and the next relay of the client can abort it.
RelayRegistered ==
  \A g \in Gen : relay[g].at = "run" =>
    \/ handles[relay[g].client] = g
    \/ rx.at \in {"replace", "register"} /\ g = nextGen - 1

\* No handler leaves auxiliary state behind: when nobody is at work on the
\* maps, whoever has metrics, a protocol lock or an echo has a session, whose
\* expiry will remove them (the comment in handle_client_packet's error arm).
AuxHasSession ==
  rx.at = "idle" /\ sweep.at = "idle" /\ (\A g \in Gen : relay[g].at \in {"new", "run", "done"}) =>
    metrics \union echo \union {c \in Clients : protocol[c] # "none"} \subseteq SessionOf

\* A shutdown ends every relay, forward and sweep, in whatever phase of a
\* packet or a clean-up it comes.
ShutdownCompletes ==
  shutdown ~> /\ rx.at = "stopped" /\ sweep.at = "stopped" /\ forwards = 0
              /\ \A g \in Gen : relay[g].at \in {"new", "done"}

\* "so we don't leak orphaned tasks" (proxy.rs:1304): a relay without a session
\* is stopped, or its client has a session again.
OrphanEnds ==
  \A g \in Gen :
    (relay[g].at = "run" /\ relay[g].client \notin SessionOf) ~>
      (relay[g].at # "run" \/ relay[g].client \in SessionOf)
=============================================================================
