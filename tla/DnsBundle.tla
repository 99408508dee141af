----------------------------- MODULE DnsBundle -----------------------------
(***************************************************************************)
(* The resolver bundle: dnscrypt-proxy and the tor it may send its queries *)
(* through.  The admin requests (api/dns.rs), the two configurations       *)
(* rendered from one row (dns/dnscrypt.rs, dns/tor.rs) and the reconcile   *)
(* of the two children (dns/supervisor.rs).                                *)
(*                                                                         *)
(* dnscrypt-proxy reloads its file, tor is always restarted.  Their own    *)
(* lives are in Supervisor.                                                *)
(***************************************************************************)
EXTENDS Naturals

CONSTANTS
  DnsHandlers,  \* requests in flight at once
  SocksPorts    \* values of torSocksPort; 0 stands for one out of range

VARIABLES
  bundle,    \* the row of dns_bundle_table
  jobs,      \* the requests being served
  dnscrypt,  \* what dnscrypt-proxy runs with, or Off
  tor,       \* what tor runs with, or Off
  failed     \* a part of the last reconcile failed or was abandoned

dnsVars == <<bundle, jobs, dnscrypt, tor, failed>>

Off     == [up |-> FALSE]
NoWork  == [at |-> "idle"]
Direct  == 65536   \* no port
Port    == 5353    \* the port dnscrypt-proxy listens on
Plugins == {"", "obfs4"}
Steps   == {"read", "dnscrypt", "tor", "torspawn"}

\* What additional_config holds: it ends both files.
Additions == {"none", "bridges", "exec"}

(***************************************************************************)
(* Rows and configurations.                                                *)
(***************************************************************************)
\* dnscrypt::generate, parse_resolvers
DnscryptRenders(b) == b.listen \in 1 .. 65535 /\ b.resolvers # "odd"

DnscryptConfig(b) ==
  [up |-> TRUE, listen |-> b.listen, resolvers |-> b.resolvers,
   proxy |-> IF b.torEnabled THEN b.socks ELSE Direct]

\* tor::generate: a plugin as listed, not as trimmed; bridges when they are to
\* be used; nothing that runs a program.
TorRenders(b) ==
  /\ b.plugin \in Plugins
  /\ b.socks \in 1 .. 65535
  /\ b.exits # "odd"
  /\ b.extra # "exec"
  /\ b.useBridges => b.extra = "bridges"

TorConfig(b) ==
  [up |-> TRUE, socks |-> b.socks, exits |-> b.exits, plugin |-> b.plugin,
   bridges |-> b.useBridges]

\* should_dnscrypt_remain_disabled, should_tor_remain_disabled
DnscryptRefused(b) == ~ b.enabled \/ ~ DnscryptRenders(b)
TorRefused(b)      == ~ b.enabled \/ ~ b.torEnabled \/ ~ TorRenders(b)

-----------------------------------------------------------------------------
Bundles ==
  [enabled : BOOLEAN, listen : {0, Port}, resolvers : {"auto", "odd"},
   torEnabled : BOOLEAN, socks : SocksPorts, exits : {"none", "odd"},
   plugin : Plugins \union {" obfs4"}, useBridges : BOOLEAN, extra : Additions]

DnsTypeOK ==
  /\ bundle \in Bundles /\ failed \in BOOLEAN
  /\ \A h \in DnsHandlers : jobs[h].at \in Steps \union {"idle"}

DnsInit ==
  /\ bundle \in Bundles
  /\ bundle.enabled /\ ~ bundle.torEnabled /\ ~ bundle.useBridges
  /\ bundle.listen = Port /\ bundle.socks # 0
  /\ bundle.resolvers = "auto" /\ bundle.exits = "none"
  /\ bundle.plugin = "" /\ bundle.extra = "none"
  /\ jobs = [h \in DnsHandlers |-> NoWork]
  /\ dnscrypt = DnscryptConfig(bundle) /\ tor = Off /\ failed = FALSE

Idle(h)   == jobs[h].at = "idle"
At(h, at) == jobs' = [jobs EXCEPT ![h].at = at]

(***************************************************************************)
(* The admin requests.                                                     *)
(***************************************************************************)
\* One field, or the switch together with the port.
Updates ==
  [enabled : BOOLEAN] \union [listen : {0, Port}] \union [resolvers : {"auto", "odd"}]
    \union [torEnabled : BOOLEAN] \union [socks : SocksPorts] \union [exits : {"none", "odd"}]
    \union [plugin : Plugins \union {" obfs4", "meek"}] \union [useBridges : BOOLEAN]
    \union [extra : Additions] \union [torEnabled : {TRUE}, socks : SocksPorts]

\* update_bundle: only the plugin is looked at, and trimmed to be looked at.
UpdateAccepted(u) == "plugin" \in DOMAIN u => u.plugin # "meek"

\* The columns the request names, over those the row has.
Merged(u, b) == [f \in DOMAIN b |-> IF f \in DOMAIN u THEN u[f] ELSE b[f]]

UpdateBundle(h, u) ==
  /\ Idle(h) /\ UpdateAccepted(u)
  /\ bundle' = Merged(u, bundle)
  /\ jobs' = [jobs EXCEPT ![h] = [at |-> "read"]]
  /\ UNCHANGED <<dnscrypt, tor, failed>>

\* restart: stop both, then reconcile.
Restart(h) ==
  /\ Idle(h)
  /\ dnscrypt' = Off /\ tor' = Off
  /\ jobs' = [jobs EXCEPT ![h] = [at |-> "read"]]
  /\ UNCHANGED <<bundle, failed>>

(***************************************************************************)
(* ensure_running: both children, from one reading of the row.  A part     *)
(* that fails does not keep the other from being reconciled.               *)
(***************************************************************************)
ReadBundle(h) ==
  /\ jobs[h].at = "read"
  /\ jobs' = [jobs EXCEPT ![h] = [at |-> "dnscrypt", b |-> bundle, failed |-> FALSE]]
  /\ UNCHANGED <<bundle, dnscrypt, tor, failed>>

\* reconcile_dnscrypt: reload, spawn, or stop.
ReconcileDnscrypt(h) ==
  /\ jobs[h].at = "dnscrypt"
  /\ LET b == jobs[h].b
     IN \/ /\ dnscrypt' = IF DnscryptRefused(b) THEN Off ELSE DnscryptConfig(b)
           /\ At(h, "tor")
        \/ /\ ~ DnscryptRefused(b)
           /\ jobs' = [jobs EXCEPT ![h].at = "tor", ![h].failed = TRUE]
           /\ UNCHANGED dnscrypt
  /\ UNCHANGED <<bundle, tor, failed>>

\* Faulty variant: a tor that runs is signalled, and keeps its port.
StopTor_Signal(h) ==
  /\ jobs[h].at = "tor"
  /\ LET b == jobs[h].b
     IN IF TorRefused(b)
        THEN /\ tor' = Off /\ failed' = jobs[h].failed
             /\ jobs' = [jobs EXCEPT ![h] = NoWork]
        ELSE IF tor = Off THEN At(h, "torspawn") /\ UNCHANGED <<tor, failed>>
        ELSE /\ tor' = tor /\ failed' = jobs[h].failed
             /\ jobs' = [jobs EXCEPT ![h] = NoWork]
  /\ UNCHANGED <<bundle, dnscrypt>>

\* reconcile_tor: stopped for good when refused, and otherwise to be spawned
\* again.
StopTor(h) ==
  /\ jobs[h].at = "tor"
  /\ tor' = Off
  /\ IF TorRefused(jobs[h].b)
     THEN failed' = jobs[h].failed /\ jobs' = [jobs EXCEPT ![h] = NoWork]
     ELSE At(h, "torspawn") /\ UNCHANGED failed
  /\ UNCHANGED <<bundle, dnscrypt>>

SpawnTor(h) ==
  /\ jobs[h].at = "torspawn"
  /\ \/ tor' = TorConfig(jobs[h].b) /\ failed' = jobs[h].failed
     \/ UNCHANGED tor /\ failed' = TRUE
  /\ jobs' = [jobs EXCEPT ![h] = NoWork]
  /\ UNCHANGED <<bundle, dnscrypt>>

\* A binary cannot be unpacked or the torrc written, before tor is stopped; or
\* the client of the request goes away.
Abandon(h) ==
  /\ ~ Idle(h)
  /\ failed' = TRUE
  /\ jobs' = [jobs EXCEPT ![h] = NoWork]
  /\ UNCHANGED <<bundle, dnscrypt, tor>>

DnsNext ==
  \E h \in DnsHandlers :
    \/ \E u \in Updates : UpdateBundle(h, u)
    \/ Restart(h)
    \/ ReadBundle(h) \/ ReconcileDnscrypt(h) \/ StopTor(h) \/ SpawnTor(h) \/ Abandon(h)

DnsSpec == DnsInit /\ [][DnsNext]_dnsVars

(***************************************************************************)
(* Properties.                                                             *)
(***************************************************************************)
\* When no request is in progress and no part of the last reconcile failed, a
\* dnscrypt-proxy that runs sends its queries where the row says: to the port
\* tor listens on, and never past a tor that is switched on but refused
\* (dnscrypt.rs:24-25, tor.rs:12-14); tor runs only behind it or behind one
\* that is refused, and nothing runs when the bundle is off.
TorNotBypassed ==
  (\A h \in DnsHandlers : Idle(h)) /\ ~ failed =>
    /\ dnscrypt.up /\ bundle.torEnabled => dnscrypt.proxy = bundle.socks
    /\ dnscrypt.up /\ tor.up => dnscrypt.proxy = tor.socks
    /\ tor.up => bundle.torEnabled
    /\ dnscrypt.up \/ tor.up => bundle.enabled
=============================================================================
