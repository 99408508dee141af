-------------------------------- MODULE Xray --------------------------------
(***************************************************************************)
(* The Xray inbound and its peers: the admin requests (api/xray.rs), the   *)
(* rendering of server.json (xray/config_gen.rs), the reconcile that makes *)
(* the child load it (xray/supervisor.rs), and the links handed out        *)
(* (xray/share.rs).                                                        *)
(*                                                                         *)
(* Keys, paths, UUIDs and short ids are fresh numbers; 0 is the empty      *)
(* string.  A peer's UUID and short id are drawn together and are one      *)
(* number.  The child's own life is in Supervisor.                         *)
(***************************************************************************)
EXTENDS Naturals, Sequences, FiniteSets, SequencesExt

CONSTANTS
  XrayHandlers,  \* requests in flight at once
  NameLists,     \* values of serverNames, among them the empty one
  MaxSecrets,    \* bound: secrets drawn
  MaxLinks       \* bound: links handed out

VARIABLES
  inbound,   \* the row of xray_inbound_table
  peers,     \* xray_clients_table: the enabled flag of each peer
  drawn,     \* secrets drawn so far
  requests,  \* the requests being served
  child,     \* what the child runs with, or Off
  stale,     \* the last reconcile failed or was abandoned
  turns,     \* history: how often keys and path were regenerated on request
  links      \* history: links handed out, with what they were built from

xrayVars == <<inbound, peers, drawn, requests, child, stale, turns, links>>

Off      == [network |-> "off"]
NoWork   == [at |-> "idle"]
Secrets  == 1 .. MaxSecrets
Networks == {"tcp", "xhttp"}

(***************************************************************************)
(* The configurations: both are functions of the row.                      *)
(***************************************************************************)
Flow(network) == IF network = "tcp" THEN "vision" ELSE ""

\* generate_server_config: disabled peers are left out.
ServerConfig(in, ps) ==
  LET on == {p \in DOMAIN ps : ps[p]}
  IN [network  |-> in.transport,
      users    |-> {[id |-> p, flow |-> Flow(in.transport)] : p \in on},
      shortIds |-> on, key |-> in.key, names |-> ToSet(in.names), path |-> in.path]

Renders(in) == in.transport = "xhttp" => in.path # 0

\* should_remain_disabled
Refused(in, ps) == ~ in.enabled \/ in.key = 0 \/ \A p \in DOMAIN ps : ~ ps[p]

\* build_vless_url and build_amnezia_json refuse the same rows.
Shareable(in) ==
  /\ in.names # <<>> /\ in.key # 0
  /\ in.transport = "xhttp" => in.path # 0

VlessUrl(in, p) ==
  [id |-> p, sid |-> p, key |-> in.key, sni |-> Head(in.names),
   network |-> in.transport, flow |-> Flow(in.transport), path |-> in.path]

\* The flow is left out on xhttp, which the client reads as the empty one.
AmneziaJson(in, p) ==
  [id |-> p, sid |-> p, key |-> in.key, sni |-> Head(in.names),
   network |-> in.transport, flow |-> Flow(in.transport), path |-> in.path]

\* Whether a child with configuration c serves the holder of link l.
Accepts(c, l) ==
  /\ c.network = l.network
  /\ [id |-> l.id, flow |-> l.flow] \in c.users
  /\ l.sid \in c.shortIds /\ l.key = c.key /\ l.sni \in c.names
  /\ c.network = "xhttp" => l.path = c.path

-----------------------------------------------------------------------------
XrayTypeOK ==
  /\ inbound \in [enabled : BOOLEAN, transport : Networks, path : 0 .. MaxSecrets,
                  key : 0 .. MaxSecrets, names : NameLists]
  /\ DOMAIN peers \subseteq Secrets /\ \A p \in DOMAIN peers : peers[p] \in BOOLEAN
  /\ drawn \in 0 .. MaxSecrets /\ stale \in BOOLEAN
  /\ \A h \in XrayHandlers : requests[h].at \in {"idle", "write", "read", "apply"}
  /\ Cardinality(links) <= MaxLinks

\* An inbound as seeded, or one that was configured before: a keypair and a
\* peer.
XrayInit ==
  /\ \E names \in {n \in NameLists : Len(n) = 1}, configured \in BOOLEAN :
       /\ inbound = [enabled |-> FALSE, transport |-> "tcp", path |-> 0,
                     key |-> IF configured THEN 1 ELSE 0, names |-> names]
       /\ peers = [p \in IF configured THEN {2} ELSE {} |-> TRUE]
  /\ drawn = 2
  /\ requests = [h \in XrayHandlers |-> NoWork]
  /\ child = Off /\ stale = FALSE
  /\ turns = [key |-> 0, path |-> 0]
  /\ links = {}

Idle(h)      == requests[h].at = "idle"
Reconcile(h) == requests' = [requests EXCEPT ![h] = [at |-> "read"]]
Draw         == drawn < MaxSecrets /\ drawn' = drawn + 1

(***************************************************************************)
(* The admin requests.  Each writes its row and reconciles.                *)
(***************************************************************************)
\* One field, or transport and enabled together.
Bodies ==
  [enabled : BOOLEAN] \union [transport : Networks \union {"ws"}]
    \union [names : NameLists]
    \union [enabled : {TRUE}, transport : Networks]

\* validate_inbound_update
BodyAccepted(b) ==
  /\ "names" \in DOMAIN b => b.names # <<>>
  /\ "transport" \in DOMAIN b => b.transport \in Networks

\* Faulty variant: a path is drawn whenever the transport is set to xhttp.
NeedsPath_Always(b) == "transport" \in DOMAIN b /\ b.transport = "xhttp"

NeedsPath(b) == "transport" \in DOMAIN b /\ b.transport = "xhttp" /\ inbound.path = 0

WithPath(b, path) ==
  [f \in DOMAIN b \union {"path"} |-> IF f = "path" THEN path ELSE b[f]]

\* The columns the request names, over those the row has.
Merged(b, row) == [f \in DOMAIN row |-> IF f \in DOMAIN b THEN b[f] ELSE row[f]]

\* update_inbound up to the write: the current path is read.
UpdateInbound(h, b) ==
  /\ Idle(h) /\ BodyAccepted(b)
  /\ IF NeedsPath(b)
     THEN /\ Draw
          /\ requests' = [requests EXCEPT ![h] =
               [at |-> "write", fields |-> WithPath(b, drawn + 1)]]
     ELSE /\ requests' = [requests EXCEPT ![h] = [at |-> "write", fields |-> b]]
          /\ UNCHANGED drawn
  /\ UNCHANGED <<inbound, peers, child, stale, turns, links>>

WriteInbound(h) ==
  /\ requests[h].at = "write"
  /\ inbound' = Merged(requests[h].fields, inbound)
  /\ Reconcile(h)
  /\ UNCHANGED <<peers, drawn, child, stale, turns, links>>

\* regenerate_keys: both halves in one update.
RegenerateKeys(h) ==
  /\ Idle(h) /\ Draw
  /\ inbound' = [inbound EXCEPT !.key = drawn + 1]
  /\ turns' = [turns EXCEPT !.key = @ + 1]
  /\ Reconcile(h)
  /\ UNCHANGED <<peers, child, stale, links>>

\* regenerate_xhttp_path
RegeneratePath(h) ==
  /\ Idle(h) /\ Draw
  /\ inbound' = [inbound EXCEPT !.path = drawn + 1]
  /\ turns' = [turns EXCEPT !.path = @ + 1]
  /\ Reconcile(h)
  /\ UNCHANGED <<peers, child, stale, links>>

CreatePeer(h) ==
  /\ Idle(h) /\ Draw
  /\ peers' = [p \in DOMAIN peers \union {drawn + 1} |-> p = drawn + 1 \/ peers[p]]
  /\ Reconcile(h)
  /\ UNCHANGED <<inbound, child, stale, turns, links>>

\* update_client, toggle_xray_client
TogglePeer(h, p, on) ==
  /\ Idle(h)
  /\ peers' = [peers EXCEPT ![p] = on]
  /\ Reconcile(h)
  /\ UNCHANGED <<inbound, drawn, child, stale, turns, links>>

DeletePeer(h, p) ==
  /\ Idle(h)
  /\ peers' = [q \in DOMAIN peers \ {p} |-> peers[q]]
  /\ Reconcile(h)
  /\ UNCHANGED <<inbound, drawn, child, stale, turns, links>>

(***************************************************************************)
(* ensure_running: the rows are read, then rendered and loaded.            *)
(***************************************************************************)
ReadRows(h) ==
  /\ requests[h].at = "read"
  /\ requests' = [requests EXCEPT ![h] = [at |-> "apply", in |-> inbound, peers |-> peers]]
  /\ UNCHANGED <<inbound, peers, drawn, child, stale, turns, links>>

Apply(h) ==
  /\ requests[h].at = "apply"
  /\ LET in == requests[h].in
         ps == requests[h].peers
     IN \/ Refused(in, ps) /\ child' = Off /\ stale' = FALSE
        \/ ~ Refused(in, ps) /\ Renders(in) /\ child' = ServerConfig(in, ps) /\ stale' = FALSE
        \* it does not render (additional_config may be no JSON), or the child cannot be signalled or spawned
        \/ ~ Refused(in, ps) /\ child' = child /\ stale' = TRUE
  /\ requests' = [requests EXCEPT ![h] = NoWork]
  /\ UNCHANGED <<inbound, peers, drawn, turns, links>>

\* The client of the request goes away: the handler is dropped where it waits.
Abandon(h) ==
  /\ requests[h].at \in {"read", "apply"}
  /\ requests' = [requests EXCEPT ![h] = NoWork]
  /\ stale' = TRUE
  /\ UNCHANGED <<inbound, peers, drawn, child, turns, links>>

\* client_share_url, client_qr, client_amnezia_json
ShareLink(p) ==
  /\ Shareable(inbound) /\ Cardinality(links) < MaxLinks
  /\ links' = links \union
       {[url |-> VlessUrl(inbound, p), json |-> AmneziaJson(inbound, p), turns |-> turns]}
  /\ UNCHANGED <<inbound, peers, drawn, requests, child, stale, turns>>

XrayNext ==
  \/ \E h \in XrayHandlers :
       \/ \E b \in Bodies : UpdateInbound(h, b)
       \/ WriteInbound(h)
       \/ RegenerateKeys(h)
       \/ RegeneratePath(h)
       \/ CreatePeer(h)
       \/ \E p \in DOMAIN peers, on \in BOOLEAN : TogglePeer(h, p, on)
       \/ \E p \in DOMAIN peers : DeletePeer(h, p)
       \/ ReadRows(h)
       \/ Apply(h)
       \/ Abandon(h)
  \/ \E p \in DOMAIN peers : ShareLink(p)

XraySpec == XrayInit /\ [][XrayNext]_xrayVars

(***************************************************************************)
(* Properties.                                                             *)
(***************************************************************************)
\* A link is meant to work as long as its peer exists and is enabled, the keys
\* and, on xhttp, the path have not been regenerated since, and the transport
\* is (again) the one it was made for.
MeantToWork(l) ==
  /\ l.url.id \in DOMAIN peers /\ peers[l.url.id]
  /\ l.turns.key = turns.key
  /\ l.url.network = inbound.transport
  /\ inbound.transport = "xhttp" => l.turns.path = turns.path
  /\ l.url.sni \in ToSet(inbound.names)

\* When no request is in progress and the last reconcile went through, the
\* child serves exactly the links that are meant to work, in both forms:
\* a flip of the transport and back loses none (api/xray.rs:132-136), a
\* deleted or disabled peer and a regenerated secret revoke
\* (config_gen.rs:14-16).
LinksMatchInbound ==
  (\A h \in XrayHandlers : Idle(h)) /\ ~ stale /\ child # Off =>
    \A l \in links :
      /\ Accepts(child, l.url) = MeantToWork(l)
      /\ Accepts(child, l.json) = MeantToWork(l)
=============================================================================
