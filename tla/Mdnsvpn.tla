------------------------------ MODULE Mdnsvpn ------------------------------
(***************************************************************************)
(* MasterDnsVPN: one key shared by every client, the admin requests        *)
(* (api/mdnsvpn.rs), the configuration and the key file the child reads    *)
(* when it starts (mdnsvpn/config.rs, mdnsvpn/supervisor.rs), and the      *)
(* bundles handed out (mdnsvpn/share.rs).                                  *)
(*                                                                         *)
(* Keys are numbers, 0 the empty one.  The child's own life is in          *)
(* Supervisor.                                                             *)
(***************************************************************************)
EXTENDS Naturals, FiniteSets

CONSTANTS
  MdnsHandlers,  \* requests in flight at once
  MdnsClients,   \* clients, each a row id
  DomainSets,    \* values of domains, among them the empty one
  MaxMdnsKeys,   \* bound: keys drawn
  MaxBundles     \* bound: bundles handed out

VARIABLES
  server,    \* the row of mdnsvpn_inbound_table
  roster,    \* the clients that have a row
  keys,      \* keys drawn so far
  pending,   \* the requests being served
  files,     \* server_config.toml and encrypt_key.txt
  daemon,    \* what the running child has read, or Off
  behind,    \* the last reconcile failed or was abandoned
  bundles    \* history: bundles handed out, with what they were built from

mdnsVars == <<server, roster, keys, pending, files, daemon, behind, bundles>>

Off     == [key |-> 0]
NoWork  == [at |-> "idle"]

\* DATA_ENCRYPTION_METHOD: 0 is no encryption; 1 and 2 stand for the five ciphers.
Methods == {0, 1, 2}
Encrypts(in) == in.method # 0

\* A forward target (TCP, or an external SOCKS5) and credentials (SOCKS5 auth):
\* there if they are called for, or missing.
Needs == {"met", "missing"}

(***************************************************************************)
(* Rows and configurations.                                                *)
(***************************************************************************)
\* should_remain_disabled
Refused(in) == ~ in.enabled \/ in.key = 0 \/ in.domains = {}

\* validate: a target for what is forwarded, credentials for what is
\* authenticated, and names without white space.
Valid(in) ==
  /\ in.key # 0 /\ in.domains # {} /\ "blank" \notin in.domains
  /\ "missing" \notin {in.forward, in.auth}

\* generate
ConfigOf(in) == [domains |-> in.domains, method |-> in.method]

\* render_bundle: the TOML, the JSON and the base64 form carry the same key,
\* method and domains.
BundleOf(in) == [key |-> in.key, domains |-> in.domains, method |-> in.method]

\* load_for_share
Shareable(in) == in.key # 0 /\ in.domains # {}

\* Whether the child serves the holder of a bundle.  Without encryption the key
\* tells nobody apart.
Accepts(d, b) ==
  /\ d # Off /\ d.method = b.method /\ b.domains \subseteq d.domains
  /\ Encrypts(d) => d.key = b.key

-----------------------------------------------------------------------------
MdnsTypeOK ==
  /\ server \in [enabled : BOOLEAN, key : 0 .. MaxMdnsKeys, domains : DomainSets,
                 method : Methods, forward : Needs, auth : Needs]
  /\ roster \subseteq MdnsClients /\ keys \in 0 .. MaxMdnsKeys /\ behind \in BOOLEAN
  /\ \A h \in MdnsHandlers :
       pending[h].at \in {"idle", "read", "config", "key", "stop", "spawn"}

MdnsInit ==
  /\ server = [enabled |-> FALSE, key |-> 0, domains |-> {}, method |-> 1,
               forward |-> "met", auth |-> "met"]
  /\ roster = {} /\ keys = 0
  /\ pending = [h \in MdnsHandlers |-> NoWork]
  /\ files = [config |-> [domains |-> {}, method |-> 0], key |-> 0]
  /\ daemon = Off /\ behind = FALSE /\ bundles = {}

Idle(h)      == pending[h].at = "idle"
At(h, at)    == pending' = [pending EXCEPT ![h].at = at]
Reconcile(h) == pending' = [pending EXCEPT ![h] = [at |-> "read"]]
Done(h)      == pending' = [pending EXCEPT ![h] = NoWork]

(***************************************************************************)
(* The admin requests.                                                     *)
(***************************************************************************)
Bodies ==
  [enabled : BOOLEAN] \union [domains : DomainSets] \union [method : Methods \union {6}]
    \union [forward : Needs] \union [auth : Needs]

\* validate_inbound_update: field by field; what goes together is not compared.
BodyAccepted(b) ==
  /\ "domains" \in DOMAIN b => b.domains # {}
  /\ "method" \in DOMAIN b => b.method \in 0 .. 5

\* The columns the request names, over those the row has.
Merged(b, row) == [f \in DOMAIN row |-> IF f \in DOMAIN b THEN b[f] ELSE row[f]]

UpdateInbound(h, b) ==
  /\ Idle(h) /\ BodyAccepted(b)
  /\ server' = Merged(b, server)
  /\ Reconcile(h)
  /\ UNCHANGED <<roster, keys, files, daemon, behind, bundles>>

\* regenerate_key: a fresh key, or one the operator supplies.
RegenerateKey(h) ==
  /\ Idle(h)
  /\ \/ keys < MaxMdnsKeys /\ keys' = keys + 1 /\ server' = [server EXCEPT !.key = keys + 1]
     \/ \E k \in 1 .. keys : server' = [server EXCEPT !.key = k] /\ UNCHANGED keys
  /\ Reconcile(h)
  /\ UNCHANGED <<roster, files, daemon, behind, bundles>>

\* The child does not know the clients: nothing to reconcile.
CreateClient(c) ==
  /\ roster' = roster \union {c}
  /\ UNCHANGED <<server, keys, pending, files, daemon, behind, bundles>>

DeleteClient(c) ==
  /\ roster' = roster \ {c}
  /\ UNCHANGED <<server, keys, pending, files, daemon, behind, bundles>>

\* delete_client with rotateKey.
RevokeClient(h, c) ==
  /\ Idle(h) /\ c \in roster /\ keys < MaxMdnsKeys
  /\ roster' = roster \ {c}
  /\ keys' = keys + 1
  /\ server' = [server EXCEPT !.key = keys + 1]
  /\ Reconcile(h)
  /\ UNCHANGED <<files, daemon, behind, bundles>>

ShareBundle(c) ==
  /\ c \in roster /\ Shareable(server) /\ Cardinality(bundles) < MaxBundles
  /\ bundles' = bundles \union {BundleOf(server)}
  /\ UNCHANGED <<server, roster, keys, pending, files, daemon, behind>>

(***************************************************************************)
(* ensure_running: the configuration, the key file, then a new child.      *)
(***************************************************************************)
ReadRow(h) ==
  /\ pending[h].at = "read"
  /\ IF Refused(server)
     THEN daemon' = Off /\ behind' = FALSE /\ Done(h)
     ELSE /\ pending' = [pending EXCEPT ![h] = [at |-> "config", in |-> server]]
          /\ UNCHANGED <<daemon, behind>>
  /\ UNCHANGED <<server, roster, keys, files, bundles>>

WriteConfig(h) ==
  /\ pending[h].at = "config" /\ Valid(pending[h].in)
  /\ files' = [files EXCEPT !.config = ConfigOf(pending[h].in)]
  /\ At(h, "key")
  /\ UNCHANGED <<server, roster, keys, daemon, behind, bundles>>

WriteKeyFile(h) ==
  /\ pending[h].at = "key"
  /\ files' = [files EXCEPT !.key = pending[h].in.key]
  /\ At(h, "stop")
  /\ UNCHANGED <<server, roster, keys, daemon, behind, bundles>>

\* Faulty variant: a child that runs is left alone, as if it could reload.
StopOld_Reload(h) ==
  /\ pending[h].at = "stop"
  /\ IF daemon = Off THEN At(h, "spawn") /\ UNCHANGED behind ELSE Done(h) /\ behind' = FALSE
  /\ UNCHANGED <<server, roster, keys, files, daemon, bundles>>

\* The child does not reload: it is stopped in any case.
StopOld(h) ==
  /\ pending[h].at = "stop"
  /\ daemon' = Off
  /\ At(h, "spawn")
  /\ UNCHANGED <<server, roster, keys, files, behind, bundles>>

Spawn(h) ==
  /\ pending[h].at = "spawn"
  /\ daemon' = [key |-> files.key, domains |-> files.config.domains,
                method |-> files.config.method]
  /\ behind' = FALSE
  /\ Done(h)
  /\ UNCHANGED <<server, roster, keys, files, bundles>>

\* The configuration is invalid, a write or the spawn fails, or the client of
\* the request goes away.
GiveUp(h) ==
  /\ ~ Idle(h)
  /\ behind' = TRUE
  /\ Done(h)
  /\ UNCHANGED <<server, roster, keys, files, daemon, bundles>>

MdnsNext ==
  \/ \E h \in MdnsHandlers :
       \/ \E b \in Bodies : UpdateInbound(h, b)
       \/ RegenerateKey(h)
       \/ \E c \in MdnsClients : RevokeClient(h, c)
       \/ ReadRow(h) \/ WriteConfig(h) \/ WriteKeyFile(h) \/ StopOld(h) \/ Spawn(h)
       \/ GiveUp(h)
  \/ \E c \in MdnsClients : CreateClient(c) \/ DeleteClient(c) \/ ShareBundle(c)

MdnsSpec == MdnsInit /\ [][MdnsNext]_mdnsVars

(***************************************************************************)
(* Properties.                                                             *)
(***************************************************************************)
Settled == (\A h \in MdnsHandlers : Idle(h)) /\ ~ behind /\ daemon # Off

\* When no request is in progress and the last reconcile went through, the
\* child serves exactly the bundles with the present method, for present
\* domains and, if the method encrypts, with the present key.  So under a cipher
\* a rotation of the key revokes every bundle with another one, the removed
\* client's among them (api/mdnsvpn.rs:497-503), and nothing else does; with
\* method 0, which the API accepts (keys.rs:68-73), a rotation revokes nobody.
BundlesMatchServer ==
  Settled =>
    \A b \in bundles :
      Accepts(daemon, b) <=>
        /\ b.method = server.method /\ b.domains \subseteq server.domains
        /\ Encrypts(server) => b.key = server.key

\* "the removed client is revoked", api/mdnsvpn.rs:525, of any method.
RotationRevokes ==
  Settled => \A b \in bundles : b.key # server.key => ~ Accepts(daemon, b)
=============================================================================
