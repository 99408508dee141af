--------------------------- MODULE ServicesProofs ---------------------------
(***************************************************************************)
(* What MCServices checks on small instances, for any number of secrets,   *)
(* links, bundles, users and updates: the four services with one request   *)
(* at a time.  With two, the rows are read before the lock of the          *)
(* supervisor and an older reading may be applied last.                    *)
(***************************************************************************)
EXTENDS MCServices, TLAPS

(***************************************************************************)
(* 1. dnscrypt-proxy and tor.                                              *)
(***************************************************************************)
\* Where the queries go, and what tor runs on, once reconciled with a row.
Sends(b) ==
  dnscrypt.up => b.enabled /\ dnscrypt.proxy = (IF b.torEnabled THEN b.socks ELSE D!Direct)

Tors(b) == tor.up => b.enabled /\ b.torEnabled /\ tor.socks = b.socks

(***************************************************************************)
(* TorNotBypassed is not inductive: between the reading of the row and the *)
(* end of the reconcile the children are of two ages.  The row a request   *)
(* works with is the present one; from the step that reconciled            *)
(* dnscrypt-proxy on, its queries go where that row says; tor is down      *)
(* until it is spawned.                                                    *)
(***************************************************************************)
DnsInv ==
  /\ DOMAIN jobs = DnsHandlers
  /\ \A h \in DnsHandlers :
       LET j == jobs[h] IN
       /\ j.at \in D!Steps \union {"idle"} /\ "at" \in DOMAIN j
       /\ j.at \in {"dnscrypt", "tor", "torspawn"} =>
            {"b", "failed"} \subseteq DOMAIN j /\ j.b = bundle
       /\ j.at \in {"tor", "torspawn"} /\ ~ j.failed => Sends(bundle)
       /\ j.at = "torspawn" => ~ tor.up /\ bundle.enabled /\ bundle.torEnabled
       /\ j.at = "idle" /\ ~ failed => Sends(bundle) /\ Tors(bundle)

LEMMA DnsInitially == D!DnsInit => DnsInv
<1> SUFFICES ASSUME D!DnsInit PROVE DnsInv
  OBVIOUS
<1>1. jobs = [h \in DnsHandlers |-> D!NoWork] /\ tor = D!Off
  BY DEF D!DnsInit
<1>2. bundle.enabled /\ ~ bundle.torEnabled /\ dnscrypt = D!DnscryptConfig(bundle)
  BY DEF D!DnsInit
<1>3. Sends(bundle) /\ Tors(bundle)
  BY <1>1, <1>2 DEF Sends, Tors, D!DnscryptConfig, D!Off
<1> QED
  BY <1>1, <1>3 DEF DnsInv, D!NoWork

\* A request that works with the row, and the only one.
LEMMA DnsStep ==
  ASSUME NEW h, DnsHandlers = {h}, DnsInv, [D!DnsNext]_dnsVars
  PROVE  DnsInv'
<1> DEFINE j == jobs[h]
<1>1. /\ DOMAIN jobs = {h}
      /\ j.at \in D!Steps \union {"idle"} /\ "at" \in DOMAIN j
      /\ j.at \in {"dnscrypt", "tor", "torspawn"} =>
           {"b", "failed"} \subseteq DOMAIN j /\ j.b = bundle
      /\ j.at \in {"tor", "torspawn"} /\ ~ j.failed => Sends(bundle)
      /\ j.at = "torspawn" => ~ tor.up /\ bundle.enabled /\ bundle.torEnabled
      /\ j.at = "idle" /\ ~ failed => Sends(bundle) /\ Tors(bundle)
  BY DEF DnsInv
<1>2. CASE UNCHANGED dnsVars
  BY <1>2 DEF dnsVars, DnsInv, Sends, Tors
\* The request is about to read the row.
<1>3. ASSUME jobs' = [jobs EXCEPT ![h] = [at |-> "read"]] PROVE DnsInv'
  BY <1>1, <1>3 DEF DnsInv, D!Steps
\* The request is over.
<1>4. ASSUME jobs' = [jobs EXCEPT ![h] = D!NoWork],
             ~ failed' => Sends(bundle)' /\ Tors(bundle)'
      PROVE  DnsInv'
  BY <1>1, <1>4 DEF DnsInv, D!Steps, D!NoWork
<1>5. CASE (\E u \in D!Updates : D!UpdateBundle(h, u)) \/ D!Restart(h)
  BY <1>3, <1>5 DEF D!UpdateBundle, D!Restart
<1>6. CASE D!ReadBundle(h)
  BY <1>1, <1>6 DEF D!ReadBundle, DnsInv, D!Steps
<1>7. CASE D!ReconcileDnscrypt(h)
  <2>1. /\ j.at = "dnscrypt" /\ j.b = bundle /\ {"at", "b", "failed"} \subseteq DOMAIN j
        /\ UNCHANGED <<bundle, tor, failed>>
    BY <1>1, <1>7 DEF D!ReconcileDnscrypt
  <2>2. CASE /\ dnscrypt' = IF D!DnscryptRefused(bundle) THEN D!Off ELSE D!DnscryptConfig(bundle)
             /\ D!At(h, "tor")
    <3>1. Sends(bundle)'
      BY <2>1, <2>2 DEF Sends, D!Off, D!DnscryptConfig, D!DnscryptRefused
    <3>2. jobs' = [jobs EXCEPT ![h] = [j EXCEPT !.at = "tor"]]
      BY <2>2 DEF D!At
    <3> DEFINE k == [j EXCEPT !.at = "tor"]
    <3>3. k.at = "tor" /\ k.b = bundle /\ {"at", "b", "failed"} \subseteq DOMAIN k
      BY <2>1
    <3> HIDE DEF k
    <3> QED
      BY <1>1, <2>1, <3>1, <3>2, <3>3 DEF DnsInv, D!Steps, k
  <2>3. CASE /\ jobs' = [jobs EXCEPT ![h].at = "tor", ![h].failed = TRUE]
             /\ UNCHANGED dnscrypt
    <3> DEFINE i == [j EXCEPT !.at = "tor"]
               k == [i EXCEPT !.failed = TRUE]
    <3>1. jobs' = [jobs EXCEPT ![h] = k]
      BY <1>1, <2>3
    <3>2. i.at = "tor" /\ i.b = bundle /\ {"at", "b", "failed"} \subseteq DOMAIN i
      BY <2>1
    <3> HIDE DEF i
    <3>3. k.at = "tor" /\ k.b = bundle /\ {"at", "b", "failed"} \subseteq DOMAIN k /\ k.failed
      BY <3>2
    <3> HIDE DEF k
    <3>4. jobs'[h] = k /\ DOMAIN jobs' = {h}
      BY <1>1, <3>1
    <3> QED
      BY <2>1, <3>3, <3>4 DEF DnsInv, D!Steps
  <2> QED
    BY <1>7, <2>1, <2>2, <2>3 DEF D!ReconcileDnscrypt
<1>8. CASE D!StopTor(h)
  <2>1. /\ j.at = "tor" /\ j.b = bundle /\ {"at", "b", "failed"} \subseteq DOMAIN j
        /\ UNCHANGED <<bundle, dnscrypt>> /\ tor' = D!Off
        /\ ~ j.failed => Sends(bundle)
    BY <1>1, <1>8 DEF D!StopTor
  <2>2. ~ tor'.up
    BY <2>1 DEF D!Off
  <2>3. CASE D!TorRefused(bundle)
    <3>1. failed' = j.failed /\ jobs' = [jobs EXCEPT ![h] = D!NoWork]
      BY <1>8, <2>1, <2>3 DEF D!StopTor
    <3>2. ~ failed' => Sends(bundle)' /\ Tors(bundle)'
      BY <2>1, <2>2, <3>1 DEF Sends, Tors
    <3> QED
      BY <1>4, <3>1, <3>2
  <2>4. CASE ~ D!TorRefused(bundle)
    <3>1. jobs' = [jobs EXCEPT ![h] = [j EXCEPT !.at = "torspawn"]]
      BY <1>8, <2>1, <2>4 DEF D!StopTor, D!At
    <3> DEFINE k == [j EXCEPT !.at = "torspawn"]
    <3>2. /\ k.at = "torspawn" /\ k.b = bundle /\ k.failed = j.failed
          /\ {"at", "b", "failed"} \subseteq DOMAIN k
      BY <2>1
    <3>3. jobs'[h] = k /\ DOMAIN jobs' = {h}
      BY <1>1, <3>1
    <3> HIDE DEF k
    <3>4. bundle.enabled /\ bundle.torEnabled
      BY <2>4 DEF D!TorRefused
    <3>5. ~ k.failed => Sends(bundle)'
      BY <2>1, <3>2 DEF Sends
    <3> QED
      BY <2>1, <2>2, <3>2, <3>3, <3>4, <3>5 DEF DnsInv, D!Steps
  <2> QED
    BY <2>3, <2>4
<1>9. CASE D!SpawnTor(h)
  <2>1. /\ j.at = "torspawn" /\ j.b = bundle /\ UNCHANGED <<bundle, dnscrypt>>
        /\ bundle.enabled /\ bundle.torEnabled
        /\ ~ j.failed => Sends(bundle)
        /\ jobs' = [jobs EXCEPT ![h] = D!NoWork]
    BY <1>1, <1>9 DEF D!SpawnTor
  <2>2. ~ failed' => tor' = D!TorConfig(bundle) /\ ~ j.failed
    BY <1>9, <2>1 DEF D!SpawnTor
  <2>3. ~ failed' => Sends(bundle)' /\ Tors(bundle)'
    BY <2>1, <2>2 DEF Sends, Tors, D!TorConfig
  <2> QED
    BY <1>4, <2>1, <2>3
<1>10. CASE D!Abandon(h)
  BY <1>4, <1>10 DEF D!Abandon
<1> QED
  BY <1>2, <1>5, <1>6, <1>7, <1>8, <1>9, <1>10 DEF D!DnsNext

\* dnscrypt-proxy and tor read one row in two files (dns/dnscrypt.rs:24-25,
\* dns/tor.rs:12-14): after any sequence of updates, restarts, failures and
\* abandoned requests, one at a time, queries never go past a tor the row
\* switches on.
THEOREM TorNotBypassedEver ==
  ASSUME NEW h, DnsHandlers = {h}
  PROVE  ServicesSpec => []TorNotBypassed
<1>1. ServicesInit => DnsInv
  BY DnsInitially DEF ServicesInit
<1>2. DnsInv /\ [ServicesNext]_<<service, xrayVars, mdnsVars, dnsVars, telemtVars>> => DnsInv'
  BY DnsStep DEF ServicesNext, dnsVars
<1>3. DnsInv => TorNotBypassed
  BY DEF DnsInv, TorNotBypassed, D!TorNotBypassed, D!Idle, Sends, Tors
<1> QED
  BY <1>1, <1>2, <1>3, PTL DEF ServicesSpec

(***************************************************************************)
(* 2. MasterDnsVPN.                                                        *)
(***************************************************************************)
(***************************************************************************)
(* BundlesMatchServer is not inductive: the child reads two files, written *)
(* in two steps.  The row a request works with is the present one, and     *)
(* each file holds that row's part from the step that wrote it on.         *)
(***************************************************************************)
MdnsInv ==
  /\ DOMAIN pending = MdnsHandlers
  /\ \A h \in MdnsHandlers :
       LET p == pending[h] IN
       /\ p.at \in {"idle", "read", "config", "key", "stop", "spawn"} /\ "at" \in DOMAIN p
       /\ p.at \in {"config", "key", "stop", "spawn"} => "in" \in DOMAIN p /\ p.in = server
       /\ p.at \in {"key", "stop", "spawn"} => files.config = M!ConfigOf(server)
       /\ p.at \in {"stop", "spawn"} => files.key = server.key
       /\ p.at = "idle" /\ ~ behind /\ daemon # M!Off =>
            /\ daemon.key = server.key /\ daemon.method = server.method
            /\ daemon.domains = server.domains
  /\ {"config", "key"} \subseteq DOMAIN files

LEMMA MdnsInitially == M!MdnsInit => MdnsInv
BY DEF M!MdnsInit, MdnsInv, M!NoWork

\* A request that works with the row, and the only one.
LEMMA MdnsStep ==
  ASSUME NEW h, MdnsHandlers = {h}, MdnsInv, [M!MdnsNext]_mdnsVars
  PROVE  MdnsInv'
<1> DEFINE p == pending[h]
           Serves(d, in) ==
             d # M!Off => d.key = in.key /\ d.method = in.method /\ d.domains = in.domains
<1>1. /\ DOMAIN pending = {h} /\ {"config", "key"} \subseteq DOMAIN files
      /\ p.at \in {"idle", "read", "config", "key", "stop", "spawn"} /\ "at" \in DOMAIN p
      /\ p.at \in {"config", "key", "stop", "spawn"} => "in" \in DOMAIN p /\ p.in = server
      /\ p.at \in {"key", "stop", "spawn"} => files.config = M!ConfigOf(server)
      /\ p.at \in {"stop", "spawn"} => files.key = server.key
      /\ p.at = "idle" /\ ~ behind => Serves(daemon, server)
  BY DEF MdnsInv
<1>2. CASE UNCHANGED <<server, pending, files, daemon, behind>>
  BY <1>2 DEF MdnsInv
\* The request is about to read the row.
<1>3. ASSUME M!Reconcile(h), UNCHANGED files PROVE MdnsInv'
  BY <1>1, <1>3 DEF MdnsInv, M!Reconcile
\* The request is over.
<1>4. ASSUME M!Done(h), UNCHANGED files, ~ behind' => Serves(daemon', server') PROVE MdnsInv'
  BY <1>1, <1>4 DEF MdnsInv, M!Done, M!NoWork
\* The request takes its next step.
<1>5. ASSUME NEW at \in {"key", "stop", "spawn"}, M!At(h, at), UNCHANGED server,
             p.at \in {"config", "key", "stop"},
             {"config", "key"} \subseteq DOMAIN files',
             files'.config = M!ConfigOf(server),
             at \in {"stop", "spawn"} => files'.key = server.key
      PROVE  MdnsInv'
  <2> DEFINE k == [p EXCEPT !.at = at]
  <2>1. k.at = at /\ k.in = server /\ {"at", "in"} \subseteq DOMAIN k
    BY <1>1, <1>5
  <2>2. pending' = [pending EXCEPT ![h] = k]
    BY <1>5 DEF M!At
  <2> HIDE DEF k
  <2>3. pending'[h] = k /\ DOMAIN pending' = {h}
    BY <1>1, <2>2
  <2>4. M!ConfigOf(server)' = M!ConfigOf(server)
    BY <1>5 DEF M!ConfigOf
  <2> QED
    BY <1>5, <2>1, <2>3, <2>4 DEF MdnsInv
<1>6. CASE \/ \E b \in M!Bodies : M!UpdateInbound(h, b)
           \/ M!RegenerateKey(h)
           \/ \E c \in MdnsClients : M!RevokeClient(h, c)
  BY <1>3, <1>6 DEF M!UpdateInbound, M!RegenerateKey, M!RevokeClient
<1>7. CASE M!ReadRow(h)
  <2>1. CASE M!Refused(server)
    BY <1>4, <1>7, <2>1 DEF M!ReadRow
  <2>2. CASE ~ M!Refused(server)
    BY <1>1, <1>7, <2>2 DEF M!ReadRow, MdnsInv
  <2> QED
    BY <2>1, <2>2
<1>8. CASE M!WriteConfig(h)
  <2>1. files'.config = M!ConfigOf(server) /\ {"config", "key"} \subseteq DOMAIN files'
    BY <1>1, <1>8 DEF M!WriteConfig
  <2> QED
    BY <1>5, <1>8, <2>1 DEF M!WriteConfig
<1>9. CASE M!WriteKeyFile(h)
  <2>1. /\ files'.key = server.key /\ files'.config = files.config
        /\ {"config", "key"} \subseteq DOMAIN files'
    BY <1>1, <1>9 DEF M!WriteKeyFile
  <2> QED
    BY <1>1, <1>5, <1>9, <2>1 DEF M!WriteKeyFile
<1>10. CASE M!StopOld(h)
  BY <1>1, <1>5, <1>10 DEF M!StopOld
<1>11. CASE M!Spawn(h)
  <2>1. Serves(daemon', server')
    BY <1>1, <1>11 DEF M!Spawn, M!ConfigOf
  <2> QED
    BY <1>4, <1>11, <2>1 DEF M!Spawn
<1>12. CASE M!GiveUp(h)
  BY <1>4, <1>12 DEF M!GiveUp
<1>13. CASE \E c \in MdnsClients : M!CreateClient(c) \/ M!DeleteClient(c) \/ M!ShareBundle(c)
  BY <1>2, <1>13 DEF M!CreateClient, M!DeleteClient, M!ShareBundle
<1> QED
  BY <1>2, <1>6, <1>7, <1>8, <1>9, <1>10, <1>11, <1>12, <1>13 DEF M!MdnsNext, mdnsVars

\* Under a method that encrypts a rotation of the key revokes every bundle
\* handed out before; with method 0 it revokes none (api/mdnsvpn.rs:497-503,
\* keys.rs:68-73).  After any sequence of updates, flips of the method among
\* them, rotations, removals, failed writes and abandoned requests, one at a
\* time, the child serves exactly the bundles whose method, domains and, where
\* it counts, key are the present row's.
THEOREM BundlesMatchServerEver ==
  ASSUME NEW h, MdnsHandlers = {h}
  PROVE  ServicesSpec => []BundlesMatchServer
<1>1. ServicesInit => MdnsInv
  BY MdnsInitially DEF ServicesInit
<1>2. MdnsInv /\ [ServicesNext]_<<service, xrayVars, mdnsVars, dnsVars, telemtVars>> => MdnsInv'
  BY MdnsStep DEF ServicesNext, mdnsVars
<1>3. MdnsInv => BundlesMatchServer
  BY DEF MdnsInv, BundlesMatchServer, M!BundlesMatchServer, M!Settled, M!Idle, M!Accepts, M!Encrypts
<1> QED
  BY <1>1, <1>2, <1>3, PTL DEF ServicesSpec

(***************************************************************************)
(* 3. Xray.                                                                *)
(***************************************************************************)
Inbound ==
  [enabled : BOOLEAN, transport : X!Networks, path : Nat, key : Nat, names : NameLists]

\* What a request is about to write: no key, and a path only where there is none.
FieldsFit(f, in, n) ==
  /\ "enabled" \in DOMAIN f => f.enabled \in BOOLEAN
  /\ "transport" \in DOMAIN f => f.transport \in X!Networks
  /\ "names" \in DOMAIN f => f.names \in NameLists
  /\ "key" \notin DOMAIN f
  /\ "path" \in DOMAIN f => in.path = 0 /\ f.path \in Nat /\ 0 < f.path /\ f.path <= n

(***************************************************************************)
(* LinksMatchInbound is not inductive: a link must not come back to life   *)
(* through a secret that is drawn again, nor die with a flip of the        *)
(* transport.  Secrets are fresh, so the inbound has the key (and, on      *)
(* xhttp, the path) of a link exactly when none was regenerated since; a   *)
(* path is drawn where there was none only while no xhttp link is out.     *)
(***************************************************************************)
LinkFits(l) ==
  /\ l.json = l.url /\ l.url.id = l.url.sid
  /\ l.url.network \in X!Networks /\ l.url.flow = X!Flow(l.url.network)
  /\ l.turns.key \in Nat /\ l.turns.key <= turns.key
  /\ l.turns.path \in Nat /\ l.turns.path <= turns.path
  /\ l.url.key \in Nat /\ l.url.key <= inbound.key
  /\ l.url.key = inbound.key <=> l.turns.key = turns.key
  /\ l.url.network = "xhttp" =>
       /\ l.url.path \in Nat /\ 0 < l.url.path /\ l.url.path <= inbound.path
       /\ l.url.path = inbound.path <=> l.turns.path = turns.path

XrayInv ==
  /\ inbound \in Inbound /\ drawn \in Nat /\ turns \in [key : Nat, path : Nat]
  /\ inbound.key <= drawn /\ inbound.path <= drawn
  /\ DOMAIN requests = XrayHandlers
  /\ \A h \in XrayHandlers :
       LET r == requests[h] IN
       /\ r.at = "write" => FieldsFit(r.fields, inbound, drawn)
       /\ r.at = "apply" => r.in = inbound /\ r.peers = peers
       /\ r.at = "idle" /\ ~ stale /\ child # X!Off => child = X!ServerConfig(inbound, peers)
  /\ \A l \in links : LinkFits(l)

LEMMA XrayInitially == X!XrayInit => XrayInv
<1> SUFFICES ASSUME X!XrayInit PROVE XrayInv
  OBVIOUS
<1>1. PICK names \in NameLists, configured \in BOOLEAN :
        inbound = [enabled |-> FALSE, transport |-> "tcp", path |-> 0,
                   key |-> IF configured THEN 1 ELSE 0, names |-> names]
  BY DEF X!XrayInit
<1>2. inbound \in Inbound /\ inbound.key <= 2 /\ inbound.path <= 2
  BY <1>1 DEF Inbound, X!Networks
<1>3. /\ drawn = 2 /\ requests = [h \in XrayHandlers |-> X!NoWork]
      /\ child = X!Off /\ turns = [key |-> 0, path |-> 0] /\ links = {}
  BY DEF X!XrayInit
<1> QED
  BY <1>2, <1>3 DEF XrayInv, X!NoWork

\* What update_inbound is to write has no key, and a path only when one was
\* drawn for an inbound that has none.
LEMMA FieldsOfBody ==
  ASSUME NEW b \in X!Bodies, X!BodyAccepted(b), drawn \in Nat
  PROVE  /\ FieldsFit(b, inbound, drawn)
         /\ X!NeedsPath(b) => FieldsFit(X!WithPath(b, drawn + 1), inbound, drawn + 1)
<1>1. /\ "enabled" \in DOMAIN b => b.enabled \in BOOLEAN
      /\ "transport" \in DOMAIN b => b.transport \in X!Networks
      /\ "names" \in DOMAIN b => b.names \in NameLists
      /\ "key" \notin DOMAIN b /\ "path" \notin DOMAIN b
  <2>1. CASE b \in [enabled : BOOLEAN]
    BY <2>1
  <2>2. CASE b \in [transport : X!Networks \union {"ws"}]
    BY <2>2 DEF X!BodyAccepted
  <2>3. CASE b \in [names : NameLists]
    BY <2>3
  <2>4. CASE b \in [enabled : {TRUE}, transport : X!Networks]
    BY <2>4
  <2> QED
    BY <2>1, <2>2, <2>3, <2>4 DEF X!Bodies
<1>2. ASSUME X!NeedsPath(b) PROVE FieldsFit(X!WithPath(b, drawn + 1), inbound, drawn + 1)
  <2> DEFINE f == X!WithPath(b, drawn + 1)
  <2>1. /\ DOMAIN f = DOMAIN b \union {"path"} /\ f.path = drawn + 1
        /\ \A x \in DOMAIN b : x # "path" => f[x] = b[x]
    BY DEF X!WithPath
  <2>2. inbound.path = 0
    BY <1>2 DEF X!NeedsPath
  <2> HIDE DEF f
  <2>3. /\ "enabled" \in DOMAIN f => f.enabled \in BOOLEAN
        /\ "transport" \in DOMAIN f => f.transport \in X!Networks
        /\ "names" \in DOMAIN f => f.names \in NameLists
        /\ "key" \notin DOMAIN f
    BY <1>1, <2>1
  <2>4. FieldsFit(f, inbound, drawn + 1)
    BY <2>1, <2>2, <2>3 DEF FieldsFit
  <2> QED
    BY <2>4 DEF f
<1>3. FieldsFit(b, inbound, drawn)
  BY <1>1 DEF FieldsFit
<1> QED
  BY <1>2, <1>3

\* The columns named, over the row: the key stays, and so does the path unless
\* there was none.
LEMMA InboundWritten ==
  ASSUME NEW f, NEW in \in Inbound, NEW n \in Nat, FieldsFit(f, in, n), in.path <= n
  PROVE  /\ X!Merged(f, in) \in Inbound /\ X!Merged(f, in).key = in.key
         /\ X!Merged(f, in).path <= n
         /\ X!Merged(f, in).path = in.path \/ in.path = 0
<1> DEFINE m == X!Merged(f, in)
<1>1. /\ DOMAIN in = {"enabled", "transport", "path", "key", "names"}
      /\ in.enabled \in BOOLEAN /\ in.transport \in X!Networks /\ in.path \in Nat
      /\ in.key \in Nat /\ in.names \in NameLists
  BY DEF Inbound
<1>2. /\ m.enabled = IF "enabled" \in DOMAIN f THEN f.enabled ELSE in.enabled
      /\ m.transport = IF "transport" \in DOMAIN f THEN f.transport ELSE in.transport
      /\ m.path = IF "path" \in DOMAIN f THEN f.path ELSE in.path
      /\ m.key = IF "key" \in DOMAIN f THEN f.key ELSE in.key
      /\ m.names = IF "names" \in DOMAIN f THEN f.names ELSE in.names
      /\ m = [x \in {"enabled", "transport", "path", "key", "names"} |-> m[x]]
  BY <1>1 DEF X!Merged
<1> HIDE DEF m
<1>3. /\ m.enabled \in BOOLEAN /\ m.transport \in X!Networks /\ m.path \in Nat
      /\ m.key \in Nat /\ m.names \in NameLists
  BY <1>1, <1>2 DEF FieldsFit
<1>4. m = [enabled |-> m.enabled, transport |-> m.transport, path |-> m.path,
           key |-> m.key, names |-> m.names]
  BY <1>2
<1>5. m \in Inbound
  BY <1>3, <1>4 DEF Inbound
<1>6. m.key = in.key /\ m.path <= n /\ (m.path = in.path \/ in.path = 0)
  BY <1>1, <1>2 DEF FieldsFit
<1> QED
  BY <1>5, <1>6 DEF m

\* A request that works with the rows, and the only one.
LEMMA XrayStep ==
  ASSUME NEW h, XrayHandlers = {h}, XrayInv, [X!XrayNext]_xrayVars
  PROVE  XrayInv'
<1> DEFINE r == requests[h]
           Counters ==
             /\ inbound \in Inbound /\ drawn \in Nat /\ turns \in [key : Nat, path : Nat]
             /\ inbound.key <= drawn /\ inbound.path <= drawn
           Fits == \A l \in links : LinkFits(l)
<1>1. /\ Counters /\ Fits /\ DOMAIN requests = {h}
      /\ r.at = "write" => FieldsFit(r.fields, inbound, drawn)
      /\ r.at = "apply" => r.in = inbound /\ r.peers = peers
      /\ r.at = "idle" /\ ~ stale /\ child # X!Off => child = X!ServerConfig(inbound, peers)
  BY DEF XrayInv
<1>2. CASE UNCHANGED <<inbound, peers, drawn, requests, child, stale, turns>> /\ Fits'
  BY <1>1, <1>2 DEF XrayInv, X!ServerConfig
\* The request is about to read the rows.
<1>3. ASSUME Counters', Fits', X!Reconcile(h) PROVE XrayInv'
  BY <1>1, <1>3 DEF XrayInv, X!Reconcile
\* The request is over.
<1>4. ASSUME Counters', Fits', requests' = [requests EXCEPT ![h] = X!NoWork],
             ~ stale' /\ child' # X!Off => child' = X!ServerConfig(inbound', peers')
      PROVE  XrayInv'
  BY <1>1, <1>4 DEF XrayInv, X!NoWork, X!ServerConfig
\* No key or path changes.
<1>5. ASSUME UNCHANGED <<turns, links>>, inbound'.key = inbound.key, inbound'.path = inbound.path
      PROVE  Fits'
  BY <1>1, <1>5 DEF LinkFits
<1>6. ASSUME NEW b \in X!Bodies, X!UpdateInbound(h, b) PROVE XrayInv'
  <2>1. CASE X!NeedsPath(b)
    <3>1. requests' = [requests EXCEPT ![h] = [at |-> "write", fields |-> X!WithPath(b, drawn + 1)]]
      BY <1>6, <2>1 DEF X!UpdateInbound
    <3>2. drawn' = drawn + 1 /\ UNCHANGED <<inbound, turns, links>>
      BY <1>6, <2>1 DEF X!UpdateInbound, X!Draw
    <3>3. FieldsFit(X!WithPath(b, drawn + 1), inbound, drawn + 1)
      BY <1>1, <1>6, <2>1, FieldsOfBody DEF X!UpdateInbound
    <3>4. Counters' /\ Fits'
      <4>1. Counters'
        BY <1>1, <3>2 DEF Inbound
      <4> QED
        BY <1>5, <3>2, <4>1
    <3> QED
      BY <1>1, <3>1, <3>2, <3>3, <3>4 DEF XrayInv
  <2>2. CASE ~ X!NeedsPath(b)
    <3>1. requests' = [requests EXCEPT ![h] = [at |-> "write", fields |-> b]]
      BY <1>6, <2>2 DEF X!UpdateInbound
    <3>2. UNCHANGED <<drawn, inbound, turns, links>>
      BY <1>6, <2>2 DEF X!UpdateInbound
    <3>3. FieldsFit(b, inbound, drawn)
      BY <1>1, <1>6, FieldsOfBody DEF X!UpdateInbound
    <3>4. Fits'
      BY <1>5, <3>2
    <3> QED
      BY <1>1, <3>1, <3>2, <3>3, <3>4 DEF XrayInv
  <2> QED
    BY <2>1, <2>2
<1>7. CASE X!WriteInbound(h)
  <2>1. /\ inbound' = X!Merged(r.fields, inbound) /\ UNCHANGED <<drawn, turns, links>>
        /\ FieldsFit(r.fields, inbound, drawn) /\ X!Reconcile(h)
    BY <1>1, <1>7 DEF X!WriteInbound
  <2>2. /\ inbound' \in Inbound /\ inbound'.key = inbound.key /\ inbound'.path <= drawn
        /\ inbound'.path = inbound.path \/ inbound.path = 0
    BY <1>1, <2>1, InboundWritten
  <2>3. Fits'
    <3>1. CASE inbound'.path = inbound.path
      BY <1>5, <2>1, <2>2, <3>1
    \* No path before: no link on xhttp is out.
    <3>2. CASE inbound.path = 0
      <4>1. \A l \in links : l.url.network # "xhttp"
        BY <1>1, <3>2 DEF LinkFits
      <4> QED
        BY <1>1, <2>1, <2>2, <4>1 DEF LinkFits
    <3> QED
      BY <2>2, <3>1, <3>2
  <2>4. Counters'
    BY <1>1, <2>1, <2>2
  <2> QED
    BY <1>3, <2>1, <2>3, <2>4
\* A regenerated secret is larger than those of the links, as its turn is.
<1>8. CASE X!RegenerateKeys(h)
  <2>1. /\ inbound' = [inbound EXCEPT !.key = drawn + 1] /\ drawn' = drawn + 1
        /\ turns' = [turns EXCEPT !.key = turns.key + 1] /\ links' = links /\ X!Reconcile(h)
    BY <1>8 DEF X!RegenerateKeys, X!Draw
  <2>2. /\ inbound' \in Inbound /\ turns' \in [key : Nat, path : Nat]
        /\ inbound'.key = drawn + 1 /\ inbound'.path = inbound.path
        /\ turns'.key = turns.key + 1 /\ turns'.path = turns.path
    BY <1>1, <2>1 DEF Inbound
  <2>3. Counters'
    BY <1>1, <2>1, <2>2 DEF Inbound
  <2>4. turns.key \in Nat /\ inbound.key \in Nat
    BY <1>1 DEF Inbound
  <2>5. Fits'
    BY <1>1, <2>1, <2>2, <2>4 DEF LinkFits
  <2> QED
    BY <1>3, <2>1, <2>3, <2>5
<1>9. CASE X!RegeneratePath(h)
  <2>1. /\ inbound' = [inbound EXCEPT !.path = drawn + 1] /\ drawn' = drawn + 1
        /\ turns' = [turns EXCEPT !.path = turns.path + 1] /\ links' = links /\ X!Reconcile(h)
    BY <1>9 DEF X!RegeneratePath, X!Draw
  <2>2. /\ inbound' \in Inbound /\ turns' \in [key : Nat, path : Nat]
        /\ inbound'.path = drawn + 1 /\ inbound'.key = inbound.key
        /\ turns'.path = turns.path + 1 /\ turns'.key = turns.key
    BY <1>1, <2>1 DEF Inbound
  <2>3. Counters'
    BY <1>1, <2>1, <2>2 DEF Inbound
  <2>4. turns.path \in Nat /\ inbound.path \in Nat
    BY <1>1 DEF Inbound
  <2>5. Fits'
    BY <1>1, <2>1, <2>2, <2>4 DEF LinkFits
  <2> QED
    BY <1>3, <2>1, <2>3, <2>5
<1>10. CASE X!CreatePeer(h)
  <2>1. /\ drawn' = drawn + 1 /\ UNCHANGED <<inbound, turns, links>> /\ X!Reconcile(h)
    BY <1>10 DEF X!CreatePeer, X!Draw
  <2>2. Counters'
    BY <1>1, <2>1 DEF Inbound
  <2> QED
    BY <1>3, <1>5, <2>1, <2>2
<1>11. CASE \/ \E p \in DOMAIN peers, on \in BOOLEAN : X!TogglePeer(h, p, on)
            \/ \E p \in DOMAIN peers : X!DeletePeer(h, p)
  <2>1. UNCHANGED <<inbound, drawn, turns, links>> /\ X!Reconcile(h)
    BY <1>11 DEF X!TogglePeer, X!DeletePeer
  <2>2. Counters'
    BY <1>1, <2>1
  <2> QED
    BY <1>3, <1>5, <2>1, <2>2
<1>12. CASE X!ReadRows(h)
  <2>1. /\ UNCHANGED <<inbound, peers, drawn, turns, links>>
        /\ requests' = [requests EXCEPT ![h] = [at |-> "apply", in |-> inbound, peers |-> peers]]
    BY <1>12 DEF X!ReadRows
  <2>2. Fits'
    BY <1>5, <2>1
  <2> QED
    BY <1>1, <2>1, <2>2 DEF XrayInv
<1>13. CASE X!Apply(h)
  <2>1. /\ UNCHANGED <<inbound, peers, drawn, turns, links>>
        /\ r.in = inbound /\ r.peers = peers
        /\ requests' = [requests EXCEPT ![h] = X!NoWork]
    BY <1>1, <1>13 DEF X!Apply
  <2>2. ~ stale' /\ child' # X!Off => child' = X!ServerConfig(inbound, peers)
    BY <1>13, <2>1 DEF X!Apply
  <2>3. Counters' /\ Fits'
    BY <1>1, <1>5, <2>1
  <2> QED
    BY <1>4, <2>1, <2>2, <2>3
<1>14. CASE X!Abandon(h)
  <2>1. /\ UNCHANGED <<inbound, drawn, turns, links>> /\ stale'
        /\ requests' = [requests EXCEPT ![h] = X!NoWork]
    BY <1>14 DEF X!Abandon
  <2>2. Counters' /\ Fits'
    BY <1>1, <1>5, <2>1
  <2> QED
    BY <1>4, <2>1, <2>2
<1>15. ASSUME NEW p \in DOMAIN peers, X!ShareLink(p) PROVE XrayInv'
  <2> DEFINE l == [url |-> X!VlessUrl(inbound, p), json |-> X!AmneziaJson(inbound, p),
                   turns |-> turns]
  <2>1. /\ links' = links \union {l} /\ X!Shareable(inbound)
        /\ UNCHANGED <<inbound, peers, drawn, requests, child, stale, turns>>
    BY <1>15 DEF X!ShareLink
  <2>2. LinkFits(l)
    <3>1. /\ l.url = X!VlessUrl(inbound, p) /\ l.json = l.url /\ l.turns = turns
      BY DEF X!VlessUrl, X!AmneziaJson
    <3>2. /\ l.url.id = p /\ l.url.sid = p /\ l.url.key = inbound.key
          /\ l.url.network = inbound.transport /\ l.url.flow = X!Flow(inbound.transport)
          /\ l.url.path = inbound.path
      BY <3>1 DEF X!VlessUrl
    <3> HIDE DEF l
    <3>3. inbound.transport = "xhttp" => inbound.path # 0
      BY <2>1 DEF X!Shareable
    <3> QED
      BY <1>1, <3>1, <3>2, <3>3 DEF LinkFits, Inbound
  <2> HIDE DEF l
  <2>3. Fits'
    BY <1>1, <2>1, <2>2 DEF LinkFits
  <2> QED
    BY <1>2, <2>1, <2>3
<1>16. CASE UNCHANGED xrayVars
  <2>1. UNCHANGED <<inbound, peers, drawn, requests, child, stale, turns, links>>
    BY <1>16 DEF xrayVars
  <2>2. Fits'
    BY <1>5, <2>1
  <2> QED
    BY <1>2, <2>1, <2>2
<1> QED
  BY <1>6, <1>7, <1>8, <1>9, <1>10, <1>11, <1>12, <1>13, <1>14, <1>15, <1>16 DEF X!XrayNext

\* A child loaded with the rows serves the links that are meant to work.
LEMMA ServesItsLinks ==
  ASSUME NEW l, LinkFits(l), child = X!ServerConfig(inbound, peers)
  PROVE  /\ X!Accepts(child, l.url) = X!MeantToWork(l)
         /\ X!Accepts(child, l.json) = X!MeantToWork(l)
<1>1. /\ child.network = inbound.transport /\ child.key = inbound.key
      /\ child.names = X!ToSet(inbound.names) /\ child.path = inbound.path
      /\ child.shortIds = {p \in DOMAIN peers : peers[p]}
      /\ child.users = {[id |-> p, flow |-> X!Flow(inbound.transport)] : p \in child.shortIds}
  BY DEF X!ServerConfig
<1>2. l.url.network = inbound.transport =>
        ([id |-> l.url.id, flow |-> l.url.flow] \in child.users <=> l.url.id \in child.shortIds)
  BY <1>1 DEF LinkFits
<1>3. X!Accepts(child, l.url) <=> X!MeantToWork(l)
  BY <1>1, <1>2 DEF LinkFits, X!Accepts, X!MeantToWork
<1>4. X!Accepts(child, l.url) \in BOOLEAN /\ X!MeantToWork(l) \in BOOLEAN
  BY DEF X!Accepts, X!MeantToWork
<1>5. l.json = l.url
  BY DEF LinkFits
<1> QED
  BY <1>3, <1>4, <1>5

\* A flip of the transport and back loses no link (api/xray.rs:132-136), a
\* deleted or disabled peer and a regenerated secret revoke
\* (config_gen.rs:14-16): after any sequence of requests, failures and
\* abandoned handlers, one at a time, the child serves exactly the links that
\* are meant to work.
THEOREM LinksMatchInboundEver ==
  ASSUME NEW h, XrayHandlers = {h}
  PROVE  ServicesSpec => []LinksMatchInbound
<1>1. ServicesInit => XrayInv
  BY XrayInitially DEF ServicesInit
<1>2. XrayInv /\ [ServicesNext]_<<service, xrayVars, mdnsVars, dnsVars, telemtVars>> => XrayInv'
  BY XrayStep DEF ServicesNext, xrayVars
<1>3. XrayInv => LinksMatchInbound
  BY ServesItsLinks DEF XrayInv, LinksMatchInbound, X!LinksMatchInbound, X!Idle
<1> QED
  BY <1>1, <1>2, <1>3, PTL DEF ServicesSpec

(***************************************************************************)
(* 4. telemt.                                                              *)
(***************************************************************************)
RowTags == Tags \union {NoTag, ""}
Row     == [secret : Nat, tag : RowTags]
UserRow == [secret : Nat, tag : Tags \union {NoTag}]

Table(f, R) == DOMAIN f \subseteq Users /\ \A u \in DOMAIN f : f[u] \in R

\* Two tables hold the same of a user.
Same(f, g, u) ==
  /\ u \in DOMAIN f <=> u \in DOMAIN g
  /\ u \in DOMAIN f => f[u] = g[u]

\* telemt knows the user if the database does, by the same tag.
Match(u) ==
  /\ u \in DOMAIN rows <=> u \in DOMAIN store
  /\ u \in DOMAIN rows => store[u].tag = T!Normal(rows[u].tag)

\* A call that is to be made.
IsCall(c) ==
  /\ c.op \in {"create", "rotate", "tag", "delete"} /\ c.user \in Users
  /\ c.op \in {"create", "rotate"} => c.secret \in Nat
  /\ c.op \in {"create", "tag"} => c.tag \in RowTags

\* An admin's call carries what the rows say.
CallFits(a) ==
  LET c == calls[a] IN
  /\ IsCall(c)
  /\ c.user \in DOMAIN rows <=> c.op # "delete"
  /\ c.op \in {"create", "rotate"} => c.secret = rows[c.user].secret
  /\ c.op \in {"create", "tag"} => c.tag = rows[c.user].tag

Pending(u, ops) ==
  \E a \in Admins : calls[a] # T!NoCall /\ calls[a].user = u /\ calls[a].op \in ops

\* A user the task has met nobody about.
HolderFits(t, u) ==
  LET k == tasks[t] IN
  /\ ~ Pending(u, {"create", "rotate", "tag", "delete"})
  /\ Same(k.want, rows, u)
  /\ telemt = "up" /\ k.at = "push" =>
       IF u \in k.todo THEN Same(k.seen, store, u) ELSE Match(u)

TaskTyped(k) ==
  /\ k.at \in {"none", "wait", "list", "push"} /\ "at" \in DOMAIN k
  /\ k.at \in {"list", "push"} =>
       /\ {"want", "met"} \subseteq DOMAIN k
       /\ k.met \subseteq Users /\ Table(k.want, Row)
  /\ k.at = "push" =>
       {"seen", "todo"} \subseteq DOMAIN k /\ Table(k.seen, UserRow) /\ k.todo \subseteq Users

TelemtTyped ==
  /\ telemt \in {"down", "starting", "up"} /\ lastSecret \in Nat
  /\ Table(rows, Row) /\ Table(store, UserRow)
  /\ DOMAIN calls = Admins /\ DOMAIN tasks = Reconcilers
  /\ \A t \in Reconcilers : TaskTyped(tasks[t])
  /\ owed \subseteq Users /\ unsure \subseteq Users

(***************************************************************************)
(* RosterMatches and SecretsMatch are not inductive: they speak of quiet   *)
(* moments only.  While a task holds a snapshot, a user it has met nobody  *)
(* about is in its rows as in the database, and, until the task reaches    *)
(* it, in its listing as in telemt; from then on telemt matches.  A task   *)
(* that ends hands this over to the users not owed anything.               *)
(***************************************************************************)
TelemtInv ==
  /\ TelemtTyped
  /\ \A a \in Admins : calls[a] # T!NoCall => CallFits(a)
  /\ telemt # "up" => DOMAIN store = {}
  /\ telemt = "starting" => owed = Users /\ \A t \in T!Holding : tasks[t].met = Users
  /\ \A t \in T!Holding : \A u \in Users \ tasks[t].met : HolderFits(t, u)
  /\ telemt = "up" /\ T!Holding = {} =>
       \A u \in Users \ owed : Pending(u, {"create", "tag", "delete"}) \/ Match(u)
  /\ \A u \in (DOMAIN rows \intersect DOMAIN store) \ unsure :
       Pending(u, {"create", "rotate"}) \/ store[u].secret = rows[u].secret

LEMMA TagsOfRows ==
  /\ \A tag \in Tags \union {NoTag} : tag \in RowTags
  /\ "" \in RowTags
  /\ \A tag \in RowTags : T!Normal(tag) \in Tags \union {NoTag}
BY DEF RowTags, T!Normal

\* What a call does to telemt's store: nothing to the other users.
LEMMA CallMade ==
  ASSUME NEW s, Table(s, UserRow), NEW c, IsCall(c)
  PROVE  /\ Table(T!After(s, c), UserRow)
         /\ \A v : v # c.user => Same(T!After(s, c), s, v)
         /\ c.op = "create" =>
              /\ c.user \in DOMAIN T!After(s, c)
              /\ c.user \notin DOMAIN s =>
                   /\ T!After(s, c)[c.user].secret = c.secret
                   /\ T!After(s, c)[c.user].tag = T!Normal(c.tag)
              /\ c.user \in DOMAIN s => T!After(s, c) = s
         /\ c.op \in {"rotate", "tag"} =>
              (c.user \in DOMAIN T!After(s, c) <=> c.user \in DOMAIN s)
         /\ c.op = "rotate" /\ c.user \in DOMAIN s =>
              /\ T!After(s, c)[c.user].secret = c.secret
              /\ T!After(s, c)[c.user].tag = s[c.user].tag
         /\ c.op = "tag" /\ c.user \in DOMAIN s =>
              /\ T!After(s, c)[c.user].tag = T!Normal(c.tag)
              /\ T!After(s, c)[c.user].secret = s[c.user].secret
         /\ c.op = "delete" => c.user \notin DOMAIN T!After(s, c)
<1> DEFINE f == T!After(s, c)
           u == c.user
<1>1. CASE f = s /\ c.op # "delete" /\ (c.op = "create" <=> u \in DOMAIN s)
  BY <1>1 DEF Same, IsCall
<1>2. CASE c.op = "create" /\ u \notin DOMAIN s
  <2> DEFINE row == [secret |-> c.secret, tag |-> T!Normal(c.tag)]
  <2>1. f = [v \in DOMAIN s \union {u} |-> IF v = u THEN row ELSE s[v]]
    BY <1>2 DEF T!After, T!Created, T!With
  <2>2. row \in UserRow /\ row.secret = c.secret /\ row.tag = T!Normal(c.tag)
    BY <1>2, TagsOfRows DEF IsCall, UserRow
  <2> HIDE DEF f, row
  <2>3. DOMAIN f = DOMAIN s \union {u} /\ f[u] = row /\ \A v \in DOMAIN s : v # u => f[v] = s[v]
    BY <2>1
  <2>4. Table(f, UserRow)
    BY <2>2, <2>3 DEF Table, IsCall
  <2> QED
    BY <1>2, <2>2, <2>3, <2>4 DEF Same, f
<1>3. CASE c.op = "rotate" /\ u \in DOMAIN s
  <2>1. f = [s EXCEPT ![u] = [s[u] EXCEPT !.secret = c.secret]]
    BY <1>3 DEF T!After
  <2> DEFINE row == [s[u] EXCEPT !.secret = c.secret]
  <2>2. row \in UserRow /\ row.secret = c.secret /\ row.tag = s[u].tag
    BY <1>3 DEF IsCall, UserRow, Table
  <2> HIDE DEF f, row
  <2>3. DOMAIN f = DOMAIN s /\ f[u] = row /\ \A v \in DOMAIN s : v # u => f[v] = s[v]
    BY <1>3, <2>1 DEF row
  <2>4. Table(f, UserRow)
    BY <2>2, <2>3 DEF Table
  <2> QED
    BY <1>3, <2>2, <2>3, <2>4 DEF Same, f
<1>4. CASE c.op = "tag" /\ u \in DOMAIN s
  <2>1. f = [s EXCEPT ![u] = [s[u] EXCEPT !.tag = T!Normal(c.tag)]]
    BY <1>4 DEF T!After
  <2> DEFINE row == [s[u] EXCEPT !.tag = T!Normal(c.tag)]
  <2>2. row \in UserRow /\ row.tag = T!Normal(c.tag) /\ row.secret = s[u].secret
    BY <1>4, TagsOfRows DEF IsCall, UserRow, Table
  <2> HIDE DEF f, row
  <2>3. DOMAIN f = DOMAIN s /\ f[u] = row /\ \A v \in DOMAIN s : v # u => f[v] = s[v]
    BY <1>4, <2>1 DEF row
  <2>4. Table(f, UserRow)
    BY <2>2, <2>3 DEF Table
  <2> QED
    BY <1>4, <2>2, <2>3, <2>4 DEF Same, f
<1>5. CASE c.op = "delete"
  <2>1. f = [v \in DOMAIN s \ {u} |-> s[v]]
    BY <1>5 DEF T!After, T!Without
  <2> HIDE DEF f
  <2>2. DOMAIN f = DOMAIN s \ {u} /\ \A v \in DOMAIN s : v # u => f[v] = s[v]
    BY <2>1
  <2>3. Table(f, UserRow)
    BY <2>2 DEF Table
  <2> QED
    BY <1>5, <2>2, <2>3 DEF Same, f
<1>6. \/ f = s /\ c.op # "delete" /\ (c.op = "create" <=> u \in DOMAIN s)
      \/ c.op = "create" /\ u \notin DOMAIN s
      \/ c.op \in {"rotate", "tag"} /\ u \in DOMAIN s
      \/ c.op = "delete"
  BY DEF T!After, IsCall
<1> QED
  BY <1>1, <1>2, <1>3, <1>4, <1>5, <1>6

\* A task that has met some more users.
LEMMA TaskMeets ==
  ASSUME NEW k, TaskTyped(k), k.at \in {"list", "push"}, NEW m, m \subseteq Users
  PROVE  /\ TaskTyped([k EXCEPT !.met = m])
         /\ [k EXCEPT !.met = m].at = k.at /\ [k EXCEPT !.met = m].met = m
         /\ [k EXCEPT !.met = m].want = k.want
         /\ k.at = "push" =>
              [k EXCEPT !.met = m].seen = k.seen /\ [k EXCEPT !.met = m].todo = k.todo
<1> DEFINE l == [k EXCEPT !.met = m]
<1>1. DOMAIN l = DOMAIN k /\ l.met = m /\ \A x \in DOMAIN k : x # "met" => l[x] = k[x]
  BY DEF TaskTyped
<1> HIDE DEF l
<1>2. /\ l.at = k.at /\ l.want = k.want
      /\ k.at = "push" => l.seen = k.seen /\ l.todo = k.todo
  BY <1>1 DEF TaskTyped
<1>3. TaskTyped(l)
  BY <1>1, <1>2 DEF TaskTyped
<1> QED
  BY <1>1, <1>2, <1>3 DEF l

LEMMA HoldersMeet ==
  ASSUME TelemtTyped, NEW u \in Users, T!Disturb(u)
  PROVE  /\ DOMAIN tasks' = Reconcilers /\ T!Holding' = T!Holding
         /\ \A t \in Reconcilers : TaskTyped(tasks'[t])
         /\ \A t \in T!Holding :
              /\ tasks'[t].met = tasks[t].met \union {u}
              /\ tasks'[t].at = tasks[t].at /\ tasks'[t].want = tasks[t].want
              /\ tasks[t].at = "push" =>
                   tasks'[t].seen = tasks[t].seen /\ tasks'[t].todo = tasks[t].todo
<1>1. /\ DOMAIN tasks' = Reconcilers
      /\ \A t \in Reconcilers \ T!Holding : tasks'[t] = tasks[t]
      /\ \A t \in T!Holding :
           tasks'[t] = [tasks[t] EXCEPT !.met = tasks[t].met \union {u}]
  BY DEF T!Disturb, T!Holding
<1>2. ASSUME NEW t \in T!Holding
      PROVE  /\ TaskTyped(tasks'[t])
             /\ tasks'[t].met = tasks[t].met \union {u}
             /\ tasks'[t].at = tasks[t].at /\ tasks'[t].want = tasks[t].want
             /\ tasks[t].at = "push" =>
                  tasks'[t].seen = tasks[t].seen /\ tasks'[t].todo = tasks[t].todo
  <2>1. TaskTyped(tasks[t]) /\ tasks[t].at \in {"list", "push"}
    BY DEF T!Holding, TelemtTyped
  <2>2. tasks[t].met \union {u} \subseteq Users
    BY <2>1 DEF TaskTyped
  <2> DEFINE m == tasks[t].met \union {u}
             l == [tasks[t] EXCEPT !.met = m]
  <2>3. tasks'[t] = l
    BY <1>1
  <2> HIDE DEF m
  <2>4. /\ TaskTyped(l) /\ l.met = m /\ l.at = tasks[t].at /\ l.want = tasks[t].want
        /\ tasks[t].at = "push" => l.seen = tasks[t].seen /\ l.todo = tasks[t].todo
    BY <2>1, <2>2, TaskMeets DEF m
  <2> HIDE DEF l
  <2> QED
    BY <2>3, <2>4 DEF m
<1>3. T!Holding' = T!Holding
  BY <1>1, <1>2 DEF T!Holding
<1> QED
  BY <1>1, <1>2, <1>3 DEF TelemtTyped

\* An admin writes a row and is about to make the call that goes with it.
LEMMA WriteStep ==
  ASSUME NEW a, Admins = {a}, TelemtInv, NEW c, NEW new, T!Write(a, c, new),
         lastSecret' \in Nat, IsCall(c), Table(new, Row),
         \A v : v # c.user => Same(new, rows, v),
         c.user \in DOMAIN new <=> c.op # "delete",
         c.op \in {"create", "rotate"} => c.secret = new[c.user].secret,
         c.op \in {"create", "tag"} => c.tag = new[c.user].tag,
         c.op = "rotate" => c.user \in DOMAIN rows /\ new[c.user].tag = rows[c.user].tag,
         c.op = "tag" => c.user \in DOMAIN rows /\ new[c.user].secret = rows[c.user].secret
  PROVE  TelemtInv'
<1> DEFINE u == c.user
<1>1. /\ calls[a] = T!NoCall /\ rows' = new /\ calls' = [calls EXCEPT ![a] = c]
      /\ T!Disturb(u) /\ UNCHANGED <<telemt, store, owed, unsure>>
  BY DEF T!Write
<1>2. u \in Users /\ TelemtTyped /\ c # T!NoCall
  <2>1. c.op # "none" /\ u \in Users
    BY DEF IsCall
  <2>2. T!NoCall.op = "none"
    BY DEF T!NoCall
  <2> QED
    BY <2>1, <2>2 DEF TelemtInv
<1>3. calls'[a] = c /\ DOMAIN calls' = Admins
  BY <1>1, <1>2 DEF TelemtTyped
<1>4. /\ \A v, ops : ~ Pending(v, ops)
      /\ \A v, ops : Pending(v, ops)' <=> v = u /\ c.op \in ops
  BY <1>1, <1>2, <1>3 DEF Pending
<1>5. /\ DOMAIN tasks' = Reconcilers /\ T!Holding' = T!Holding
      /\ \A t \in Reconcilers : TaskTyped(tasks'[t])
      /\ \A t \in T!Holding :
           /\ tasks'[t].met = tasks[t].met \union {u}
           /\ tasks'[t].at = tasks[t].at /\ tasks'[t].want = tasks[t].want
           /\ tasks[t].at = "push" =>
                tasks'[t].seen = tasks[t].seen /\ tasks'[t].todo = tasks[t].todo
  BY <1>1, <1>2, HoldersMeet
<1>6. \A v : v # u /\ Match(v) => Match(v)'
  BY <1>1 DEF Match, Same
<1>7. TelemtTyped'
  BY <1>1, <1>2, <1>3, <1>5 DEF TelemtTyped, TaskTyped, Table
<1>8. \A b \in Admins : calls'[b] # T!NoCall => CallFits(b)'
  BY <1>1, <1>3 DEF CallFits, IsCall
<1>9. telemt' # "up" => DOMAIN store' = {}
  BY <1>1 DEF TelemtInv
<1>10. telemt' = "starting" => owed' = Users /\ \A t \in T!Holding' : tasks'[t].met = Users
  <2>1. Users \union {u} = Users
    BY <1>2
  <2> QED
    BY <1>1, <1>5, <2>1 DEF TelemtInv
<1>11. ASSUME NEW t \in T!Holding', NEW v \in Users \ tasks'[t].met
       PROVE  HolderFits(t, v)'
  <2>1. t \in T!Holding /\ v \in Users \ tasks[t].met /\ v # u
    BY <1>5, <1>11
  <2>2. HolderFits(t, v)
    BY <2>1 DEF TelemtInv
  <2>3. Same(tasks'[t].want, rows', v)
    BY <1>1, <1>5, <2>1, <2>2 DEF HolderFits, Same
  <2>4. telemt' = "up" /\ tasks'[t].at = "push" =>
          IF v \in tasks'[t].todo THEN Same(tasks'[t].seen, store', v) ELSE Match(v)'
    BY <1>1, <1>5, <1>6, <2>1, <2>2 DEF HolderFits
  <2> QED
    BY <1>4, <2>1, <2>3, <2>4 DEF HolderFits, Same
<1>12. ASSUME telemt' = "up", T!Holding' = {}, NEW v \in Users \ owed'
       PROVE  Pending(v, {"create", "tag", "delete"})' \/ Match(v)'
  <2>1. Match(v)
    BY <1>1, <1>4, <1>5, <1>12 DEF TelemtInv
  <2>2. CASE v # u
    BY <1>6, <2>1, <2>2
  <2>3. CASE v = u /\ c.op = "rotate"
    BY <1>1, <2>1, <2>3 DEF Match
  <2>4. CASE v = u /\ c.op # "rotate"
    BY <1>4, <2>4 DEF IsCall
  <2> QED
    BY <2>2, <2>3, <2>4
<1>13. ASSUME NEW v \in (DOMAIN rows' \intersect DOMAIN store') \ unsure'
       PROVE  Pending(v, {"create", "rotate"})' \/ store'[v].secret = rows'[v].secret
  <2>1. CASE v # u
    <3>1. v \in (DOMAIN rows \intersect DOMAIN store) \ unsure /\ rows'[v] = rows[v]
      BY <1>1, <1>13, <2>1 DEF Same
    <3> QED
      BY <1>1, <1>4, <3>1 DEF TelemtInv
  <2>2. CASE v = u /\ c.op = "tag"
    <3>1. v \in (DOMAIN rows \intersect DOMAIN store) \ unsure
      BY <1>1, <1>13, <2>2
    <3> QED
      BY <1>1, <1>4, <2>2, <3>1 DEF TelemtInv
  <2>3. CASE v = u /\ c.op \in {"create", "rotate"}
    BY <1>4, <2>3
  <2>4. CASE v = u /\ c.op = "delete"
    BY <1>1, <1>13, <2>4
  <2> QED
    BY <2>1, <2>2, <2>3, <2>4 DEF IsCall
<1> QED
  BY <1>7, <1>8, <1>9, <1>10, <1>11, <1>12, <1>13 DEF TelemtInv

LEMMA NextSecret == TelemtTyped => lastSecret + 1 \in Nat
BY DEF TelemtTyped

\* The four requests.
LEMMA RequestStep ==
  ASSUME NEW a, Admins = {a}, TelemtInv, NEW u \in Users,
         \/ \E tag \in Tags \union {NoTag} : T!CreateUser(a, u, tag)
         \/ T!RotateSecret(a, u)
         \/ \E tag \in Tags \union {""} : T!UpdateUser(a, u, tag)
         \/ T!DeleteUser(a, u)
  PROVE  TelemtInv'
<1>1. Table(rows, Row) /\ lastSecret + 1 \in Nat /\ lastSecret \in Nat
  BY NextSecret DEF TelemtInv, TelemtTyped
<1> DEFINE n == lastSecret + 1
<1>6. n \in Nat /\ n = lastSecret + 1
  BY <1>1
<1> HIDE DEF n
<1>2. ASSUME NEW tag \in Tags \union {NoTag}, T!CreateUser(a, u, tag) PROVE TelemtInv'
  <2> DEFINE row == [secret |-> n, tag |-> tag]
             c   == [op |-> "create", user |-> u, secret |-> n, tag |-> tag]
             new == T!With(rows, u, row)
  <2>1. lastSecret' = n /\ T!Write(a, c, new)
    BY <1>2 DEF T!CreateUser, n
  <2>9. tag \in RowTags
    BY TagsOfRows
  <2>2. row \in Row /\ row.secret = n /\ row.tag = tag
    BY <1>6, <2>9 DEF Row
  <2>3. /\ IsCall(c) /\ c.op = "create" /\ c.user = u
        /\ c.secret = n /\ c.tag = tag
    BY <1>6, <2>9 DEF IsCall
  <2> HIDE DEF c, row
  <2>4. /\ DOMAIN new = DOMAIN rows \union {u} /\ new[u] = row
        /\ \A v \in DOMAIN rows : v # u => new[v] = rows[v]
    BY DEF T!With
  <2> HIDE DEF new
  <2>5. Table(new, Row) /\ \A v : v # u => Same(new, rows, v)
    BY <1>1, <2>2, <2>4 DEF Table, Same
  <2> QED
    BY <1>1, <1>6, <2>1, <2>2, <2>3, <2>4, <2>5, WriteStep
<1>3. CASE T!RotateSecret(a, u)
  <2> DEFINE row == [rows[u] EXCEPT !.secret = n]
             c   == [op |-> "rotate", user |-> u, secret |-> n]
             new == [rows EXCEPT ![u] = row]
  <2>1. /\ u \in DOMAIN rows /\ lastSecret' = n
        /\ T!Write(a, c, [rows EXCEPT ![u].secret = n])
    BY <1>3 DEF T!RotateSecret, n
  <2>2. T!Write(a, c, new)
    BY <2>1
  <2>3. row \in Row /\ row.secret = n /\ row.tag = rows[u].tag
    BY <1>1, <1>6, <2>1 DEF Row, Table
  <2>4. IsCall(c) /\ c.op = "rotate" /\ c.user = u /\ c.secret = n
    BY <1>6 DEF IsCall
  <2> HIDE DEF c, row
  <2>5. /\ DOMAIN new = DOMAIN rows /\ new[u] = row
        /\ \A v \in DOMAIN rows : v # u => new[v] = rows[v]
    BY <2>1
  <2> HIDE DEF new
  <2>6. Table(new, Row) /\ \A v : v # u => Same(new, rows, v)
    BY <1>1, <2>3, <2>5 DEF Table, Same
  <2> QED
    BY <1>1, <1>6, <2>1, <2>2, <2>3, <2>4, <2>5, <2>6, WriteStep
<1>4. ASSUME NEW tag \in Tags \union {""}, T!UpdateUser(a, u, tag) PROVE TelemtInv'
  <2> DEFINE row == [rows[u] EXCEPT !.tag = tag]
             c   == [op |-> "tag", user |-> u, tag |-> tag]
             new == [rows EXCEPT ![u] = row]
  <2>1. /\ u \in DOMAIN rows /\ lastSecret' = lastSecret
        /\ T!Write(a, c, [rows EXCEPT ![u].tag = tag])
    BY <1>4 DEF T!UpdateUser
  <2>2. T!Write(a, c, new)
    BY <2>1
  <2>3. row \in Row /\ row.tag = tag /\ row.secret = rows[u].secret
    BY <1>1, <2>1, TagsOfRows DEF Row, Table
  <2>4. IsCall(c) /\ c.op = "tag" /\ c.user = u /\ c.tag = tag
    BY TagsOfRows DEF IsCall
  <2> HIDE DEF c, row
  <2>5. /\ DOMAIN new = DOMAIN rows /\ new[u] = row
        /\ \A v \in DOMAIN rows : v # u => new[v] = rows[v]
    BY <2>1
  <2> HIDE DEF new
  <2>6. Table(new, Row) /\ \A v : v # u => Same(new, rows, v)
    BY <1>1, <2>3, <2>5 DEF Table, Same
  <2> QED
    BY <1>1, <2>1, <2>2, <2>3, <2>4, <2>5, <2>6, WriteStep
<1>5. CASE T!DeleteUser(a, u)
  <2> DEFINE c   == [op |-> "delete", user |-> u]
             new == T!Without(rows, u)
  <2>1. lastSecret' = lastSecret /\ T!Write(a, c, new)
    BY <1>5 DEF T!DeleteUser
  <2>2. IsCall(c) /\ c.op = "delete" /\ c.user = u
    BY DEF IsCall
  <2> HIDE DEF c
  <2>3. DOMAIN new = DOMAIN rows \ {u} /\ \A v \in DOMAIN rows : v # u => new[v] = rows[v]
    BY DEF T!Without
  <2> HIDE DEF new
  <2>4. Table(new, Row) /\ \A v : v # u => Same(new, rows, v)
    BY <1>1, <2>3 DEF Table, Same
  <2> QED
    BY <1>1, <2>1, <2>2, <2>3, <2>4, WriteStep
<1> QED
  BY <1>2, <1>3, <1>4, <1>5

\* The call goes through, or it fails with or without its effect.
LEMMA PushStep ==
  ASSUME NEW a, Admins = {a}, TelemtInv, T!Push(a)
  PROVE  TelemtInv'
<1> DEFINE c == calls[a]
           u == c.user
           ok == T!Granted(store, c) /\ telemt = "up" /\ store' = T!After(store, c)
                 /\ T!Doubts(c, TRUE)
<1>1. /\ c # T!NoCall /\ calls' = [calls EXCEPT ![a] = T!NoCall] /\ T!Disturb(u)
      /\ UNCHANGED <<rows, telemt, lastSecret>>
      /\ store' = store \/ (telemt = "up" /\ store' = T!After(store, c))
      /\ ok \/ T!Doubts(c, FALSE)
  BY DEF T!Push
<1>2. CallFits(a) /\ IsCall(c) /\ u \in Users /\ TelemtTyped
  BY <1>1 DEF TelemtInv, CallFits, IsCall
<1>3. calls'[a] = T!NoCall /\ DOMAIN calls' = Admins
  BY <1>1, <1>2 DEF TelemtTyped
<1>4. /\ \A v, ops : ~ Pending(v, ops)'
      /\ \A v, ops : Pending(v, ops) <=> v = u /\ c.op \in ops
  BY <1>1, <1>3 DEF Pending
<1>5. /\ DOMAIN tasks' = Reconcilers /\ T!Holding' = T!Holding
      /\ \A t \in Reconcilers : TaskTyped(tasks'[t])
      /\ \A t \in T!Holding :
           /\ tasks'[t].met = tasks[t].met \union {u}
           /\ tasks'[t].at = tasks[t].at /\ tasks'[t].want = tasks[t].want
           /\ tasks[t].at = "push" =>
                tasks'[t].seen = tasks[t].seen /\ tasks'[t].todo = tasks[t].todo
  BY <1>1, <1>2, HoldersMeet
<1>6. Table(store, UserRow)
  BY <1>2 DEF TelemtTyped
<1>7. Table(store', UserRow) /\ \A v : v # u => Same(store', store, v)
  BY <1>1, <1>2, <1>6, CallMade DEF Same
<1>8. \A v : v # u /\ Match(v) => Match(v)'
  BY <1>1, <1>7 DEF Match, Same
<1>9. /\ owed \subseteq owed' /\ owed' \subseteq Users /\ unsure' \subseteq Users
      /\ unsure \ {u} \subseteq unsure'
      /\ u \notin owed' => ok /\ T!Holding = {}
      /\ c.op \in {"create", "rotate"} /\ u \notin unsure' => ok
      /\ c.op \notin {"create", "rotate"} => unsure' = unsure
  BY <1>1, <1>2 DEF T!Doubts, TelemtTyped
<1>10. TelemtTyped'
  BY <1>1, <1>2, <1>3, <1>5, <1>7, <1>9 DEF TelemtTyped, TaskTyped, Table
<1>11. \A b \in Admins : calls'[b] # T!NoCall => CallFits(b)'
  BY <1>3
<1>12. telemt' # "up" => DOMAIN store' = {}
  BY <1>1 DEF TelemtInv
<1>13. telemt' = "starting" => owed' = Users /\ \A t \in T!Holding' : tasks'[t].met = Users
  BY <1>1, <1>2, <1>5, <1>9 DEF TelemtInv
<1>14. ASSUME NEW t \in T!Holding', NEW v \in Users \ tasks'[t].met
       PROVE  HolderFits(t, v)'
  <2>1. t \in T!Holding /\ v \in Users \ tasks[t].met /\ v # u
    BY <1>5, <1>14
  <2>2. HolderFits(t, v)
    BY <2>1 DEF TelemtInv
  <2>3. telemt' = "up" /\ tasks'[t].at = "push" =>
          IF v \in tasks'[t].todo THEN Same(tasks'[t].seen, store', v) ELSE Match(v)'
    BY <1>1, <1>5, <1>7, <1>8, <2>1, <2>2 DEF HolderFits, Same
  <2> QED
    BY <1>1, <1>4, <1>5, <2>1, <2>2, <2>3 DEF HolderFits, Same
<1>15. ASSUME telemt' = "up", T!Holding' = {}, NEW v \in Users \ owed'
       PROVE  Match(v)'
  <2>1. CASE v # u
    BY <1>1, <1>4, <1>5, <1>8, <1>9, <1>15, <2>1 DEF TelemtInv
  <2>2. CASE v = u
    <3>1. ok
      BY <1>9, <1>15, <2>2
    <3>2. CASE c.op = "rotate"
      <4>1. Match(u)
        BY <1>1, <1>2, <1>4, <1>5, <1>9, <1>15, <2>2, <3>2 DEF TelemtInv
      <4> QED
        BY <1>1, <1>2, <1>6, <2>2, <3>1, <3>2, <4>1, CallMade DEF Match, CallFits
    <3>3. CASE c.op = "create"
      BY <1>1, <1>2, <1>6, <2>2, <3>1, <3>3, CallMade DEF Match, CallFits, T!Granted
    <3>4. CASE c.op = "tag"
      BY <1>1, <1>2, <1>6, <2>2, <3>1, <3>4, CallMade DEF Match, CallFits, T!Granted
    <3>5. CASE c.op = "delete"
      BY <1>1, <1>2, <1>6, <2>2, <3>1, <3>5, CallMade DEF Match, CallFits
    <3> QED
      BY <1>2, <3>2, <3>3, <3>4, <3>5 DEF IsCall
  <2> QED
    BY <2>1, <2>2
<1>16. ASSUME NEW v \in (DOMAIN rows' \intersect DOMAIN store') \ unsure'
       PROVE  store'[v].secret = rows'[v].secret
  <2>1. CASE v # u
    <3>1. v \in (DOMAIN rows \intersect DOMAIN store) \ unsure /\ store'[v] = store[v]
      BY <1>1, <1>7, <1>9, <1>16, <2>1 DEF Same
    <3> QED
      BY <1>1, <1>4, <2>1, <3>1 DEF TelemtInv
  <2>2. CASE v = u /\ c.op \in {"create", "rotate"}
    <3>1. ok
      BY <1>9, <1>16, <2>2
    <3>2. store' = T!After(store, c) /\ T!Granted(store, c)
      BY <3>1
    <3>3. CASE c.op = "create"
      <4>1. u \notin DOMAIN store
        BY <3>2, <3>3 DEF T!Granted
      <4>2. store'[u].secret = c.secret
        BY <1>2, <1>6, <3>2, <3>3, <4>1, CallMade
      <4> QED
        BY <1>1, <1>2, <2>2, <4>2 DEF CallFits
    <3>4. CASE c.op = "rotate"
      <4>1. u \in DOMAIN store
        BY <3>2, <3>4 DEF T!Granted
      <4>2. store'[u].secret = c.secret
        BY <1>2, <1>6, <3>2, <3>4, <4>1, CallMade
      <4> QED
        BY <1>1, <1>2, <2>2, <4>2 DEF CallFits
    <3> QED
      BY <2>2, <3>3, <3>4
  <2>4. CASE v = u /\ c.op = "tag"
    <3>1. v \in DOMAIN store /\ store'[v].secret = store[v].secret
      BY <1>1, <1>2, <1>6, <1>16, <2>4, CallMade
    <3>2. v \in (DOMAIN rows \intersect DOMAIN store) \ unsure
      BY <1>1, <1>9, <1>16, <2>4, <3>1
    <3> QED
      BY <1>1, <1>4, <2>4, <3>1, <3>2 DEF TelemtInv
  <2>5. CASE v = u /\ c.op = "delete"
    BY <1>1, <1>2, <1>16, <2>5 DEF CallFits
  <2> QED
    BY <1>2, <2>1, <2>2, <2>4, <2>5 DEF IsCall
<1> QED
  BY <1>4, <1>10, <1>11, <1>12, <1>13, <1>14, <1>15, <1>16 DEF TelemtInv

(***************************************************************************)
(* The tasks.                                                              *)
(***************************************************************************)
\* The rows, telemt's users and the calls stay.
Untouched == UNCHANGED <<rows, telemt, store, calls, lastSecret, unsure>>

\* A task moves on, and what was claimed of the others still is.
LEMMA TaskMoves ==
  ASSUME NEW a, Admins = {a}, TelemtInv, Untouched,
         NEW t \in Reconcilers, NEW k, tasks' = [tasks EXCEPT ![t] = k], TaskTyped(k),
         owed' \subseteq Users,
         telemt = "starting" => owed' = Users /\ (k.at \in {"list", "push"} => k.met = Users),
         k.at \in {"list", "push"} =>
           \A u \in Users \ k.met :
             /\ ~ Pending(u, {"create", "rotate", "tag", "delete"})
             /\ Same(k.want, rows, u)
             /\ telemt = "up" /\ k.at = "push" =>
                  IF u \in k.todo THEN Same(k.seen, store, u) ELSE Match(u),
         telemt = "up" /\ k.at \notin {"list", "push"} /\ T!Holding \subseteq {t} =>
           \A u \in Users \ owed' : Pending(u, {"create", "tag", "delete"}) \/ Match(u)
  PROVE  TelemtInv'
<1>1. TelemtTyped /\ UNCHANGED <<rows, telemt, store, calls, lastSecret, unsure>>
  BY DEF TelemtInv, Untouched
<1>2. /\ DOMAIN tasks' = Reconcilers /\ tasks'[t] = k
      /\ \A s \in Reconcilers : s # t => tasks'[s] = tasks[s]
  BY <1>1 DEF TelemtTyped
<1>3. /\ t \in T!Holding' <=> k.at \in {"list", "push"}
      /\ \A s : s # t => (s \in T!Holding' <=> s \in T!Holding)
  BY <1>2 DEF T!Holding
<1>4. /\ \A v : Match(v)' <=> Match(v)
      /\ \A v, ops : Pending(v, ops)' <=> Pending(v, ops)
  BY <1>1 DEF Match, Pending
<1>5. TelemtTyped'
  BY <1>1, <1>2 DEF TelemtTyped, TaskTyped, Table
<1>6. /\ \A b \in Admins : calls'[b] # T!NoCall => CallFits(b)'
      /\ telemt' # "up" => DOMAIN store' = {}
  BY <1>1 DEF TelemtInv, CallFits, IsCall
<1>7. telemt' = "starting" => owed' = Users /\ \A s \in T!Holding' : tasks'[s].met = Users
  BY <1>1, <1>2, <1>3 DEF TelemtInv, T!Holding
<1>8. ASSUME NEW s \in T!Holding', NEW v \in Users \ tasks'[s].met
      PROVE  HolderFits(s, v)'
  <2>1. CASE s = t
    BY <1>1, <1>2, <1>3, <1>4, <1>8, <2>1 DEF HolderFits, Same
  <2>2. CASE s # t
    <3>1. s \in T!Holding /\ s \in Reconcilers /\ tasks'[s] = tasks[s] /\ HolderFits(s, v)
      BY <1>2, <1>3, <1>8, <2>2 DEF TelemtInv, T!Holding
    <3> QED
      BY <1>1, <1>4, <3>1 DEF HolderFits, Same
  <2> QED
    BY <2>1, <2>2
<1>9. telemt' = "up" /\ T!Holding' = {} =>
        \A v \in Users \ owed' : Pending(v, {"create", "tag", "delete"})' \/ Match(v)'
  BY <1>1, <1>3, <1>4
<1>10. \A v \in (DOMAIN rows' \intersect DOMAIN store') \ unsure' :
         Pending(v, {"create", "rotate"})' \/ store'[v].secret = rows'[v].secret
  BY <1>1, <1>4 DEF TelemtInv
<1> QED
  BY <1>5, <1>6, <1>7, <1>8, <1>9, <1>10 DEF TelemtInv

LEMMA AwakeStep ==
  ASSUME NEW a, Admins = {a}, TelemtInv, NEW t \in Reconcilers, T!Awake(t)
  PROVE  TelemtInv'
<1> DEFINE busy == {calls[b].user : b \in {b \in Admins : calls[b] # T!NoCall}}
           met  == IF T!Holding = {} THEN busy ELSE Users
           k    == [at |-> "list", want |-> rows, met |-> met]
<1>1. /\ Untouched /\ owed' = owed /\ telemt = "up" /\ tasks[t].at = "wait"
      /\ tasks' = [tasks EXCEPT ![t] = k]
  BY DEF T!Awake, Untouched
<1>2. TelemtTyped
  BY DEF TelemtInv
<1>3. busy \subseteq Users
  BY DEF TelemtInv, CallFits, IsCall
<1>4. met \subseteq Users /\ \A u \in Users \ met : T!Holding = {} /\ u \notin busy
  BY <1>3
<1>5. k.at = "list" /\ k.want = rows /\ k.met = met /\ {"at", "want", "met"} \subseteq DOMAIN k
  OBVIOUS
<1>6. \A u : u \notin busy => ~ Pending(u, {"create", "rotate", "tag", "delete"})
  BY DEF Pending
<1> HIDE DEF busy, met, k
<1>7. TaskTyped(k)
  BY <1>2, <1>4, <1>5 DEF TaskTyped, TelemtTyped
<1>8. \A u \in Users \ k.met :
        ~ Pending(u, {"create", "rotate", "tag", "delete"}) /\ Same(k.want, rows, u)
  BY <1>4, <1>5, <1>6 DEF Same
<1>9. owed' \subseteq Users
  BY <1>1, <1>2 DEF TelemtTyped
<1> QED
  BY <1>1, <1>5, <1>7, <1>8, <1>9, TaskMoves

LEMMA TaskFailsStep ==
  ASSUME NEW a, Admins = {a}, TelemtInv, NEW t \in Reconcilers, T!TaskFails(t)
  PROVE  TelemtInv'
<1>1. Untouched /\ owed' = Users /\ tasks' = [tasks EXCEPT ![t] = T!Gone]
  BY DEF T!TaskFails, Untouched
<1>2. TaskTyped(T!Gone) /\ T!Gone.at = "none"
  BY DEF TaskTyped, T!Gone
<1> QED
  BY <1>1, <1>2, TaskMoves

\* A user telemt has and the rows have not, or the other way round, is gone through.
LEMMA ListUsersStep ==
  ASSUME NEW a, Admins = {a}, TelemtInv, NEW t \in Reconcilers, T!ListUsers(t)
  PROVE  TelemtInv'
<1> DEFINE j == tasks[t]
           k == [at |-> "push", want |-> j.want, met |-> j.met, seen |-> store,
                 todo |-> DOMAIN j.want \union DOMAIN store]
<1>1. /\ Untouched /\ owed' = owed /\ telemt = "up" /\ j.at = "list"
      /\ tasks' = [tasks EXCEPT ![t] = k]
  BY DEF T!ListUsers, Untouched
<1>2. TelemtTyped /\ TaskTyped(j) /\ t \in T!Holding
  BY <1>1 DEF TelemtInv, TelemtTyped, T!Holding
<1>3. /\ k.at = "push" /\ k.want = j.want /\ k.met = j.met /\ k.seen = store
      /\ k.todo = DOMAIN j.want \union DOMAIN store
      /\ {"at", "want", "met", "seen", "todo"} \subseteq DOMAIN k
  OBVIOUS
<1> HIDE DEF k
<1>4. TaskTyped(k)
  BY <1>1, <1>2, <1>3 DEF TaskTyped, TelemtTyped, Table
<1>5. ASSUME NEW u \in Users \ k.met
      PROVE  /\ ~ Pending(u, {"create", "rotate", "tag", "delete"})
             /\ Same(k.want, rows, u)
             /\ IF u \in k.todo THEN Same(k.seen, store, u) ELSE Match(u)
  <2>1. HolderFits(t, u)
    BY <1>2, <1>3, <1>5 DEF TelemtInv
  <2>2. u \notin k.todo => Match(u)
    BY <1>3, <2>1 DEF HolderFits, Same, Match
  <2> QED
    BY <1>3, <2>1, <2>2 DEF HolderFits, Same
<1>6. owed' \subseteq Users
  BY <1>1, <1>2 DEF TelemtTyped
<1> QED
  BY <1>1, <1>3, <1>4, <1>5, <1>6, TaskMoves

\* The users it has met nobody about are as the database says.
LEMMA TaskEndsStep ==
  ASSUME NEW a, Admins = {a}, TelemtInv, NEW t \in Reconcilers, T!TaskEnds(t)
  PROVE  TelemtInv'
<1>1. /\ Untouched /\ owed' = tasks[t].met /\ tasks' = [tasks EXCEPT ![t] = T!Gone]
      /\ tasks[t].at = "push" /\ tasks[t].todo = {}
  BY DEF T!TaskEnds, Untouched
<1>2. TaskTyped(T!Gone) /\ T!Gone.at = "none"
  BY DEF TaskTyped, T!Gone
<1>3. TaskTyped(tasks[t]) /\ t \in T!Holding
  BY <1>1 DEF TelemtInv, TelemtTyped, T!Holding
<1>4. owed' \subseteq Users /\ (telemt = "starting" => owed' = Users)
  BY <1>1, <1>3 DEF TelemtInv, TaskTyped
<1>5. telemt = "up" => \A u \in Users \ owed' : Match(u)
  BY <1>1, <1>3 DEF TelemtInv, HolderFits
<1> QED
  BY <1>1, <1>2, <1>4, <1>5, TaskMoves

\* A task that starts to wait.
LEMMA StartTaskStep ==
  ASSUME NEW a, Admins = {a}, TelemtInv, NEW t \in T!NewTask, T!StartTask(t), Untouched,
         owed' = owed
  PROVE  TelemtInv'
<1> DEFINE k == [at |-> "wait"]
<1>1. T!Idle # {} /\ t = CHOOSE s \in T!Idle : TRUE
  BY DEF T!NewTask
<1>2. t \in Reconcilers /\ tasks[t] = T!Gone
  BY <1>1 DEF T!Idle
<1>3. tasks' = [tasks EXCEPT ![t] = k]
  BY DEF T!StartTask
<1>4. TaskTyped(k) /\ k.at = "wait"
  BY DEF TaskTyped
<1>5. t \notin T!Holding
  BY <1>2 DEF T!Holding, T!Gone
<1>6. owed' \subseteq Users /\ (telemt = "starting" => owed' = Users)
  BY DEF TelemtInv, TelemtTyped
<1> HIDE DEF k
<1>7. telemt = "up" /\ T!Holding \subseteq {t} =>
        \A u \in Users \ owed' : Pending(u, {"create", "tag", "delete"}) \/ Match(u)
  BY <1>5 DEF TelemtInv
<1> QED
  BY <1>2, <1>3, <1>4, <1>6, <1>7, TaskMoves

(***************************************************************************)
(* telemt: it stops, it is started, it listens.                            *)
(***************************************************************************)
LEMMA StopStep ==
  ASSUME TelemtInv, telemt' = "down", store' = <<>>,
         UNCHANGED <<rows, calls, tasks, lastSecret, owed, unsure>>
  PROVE  TelemtInv'
<1>1. DOMAIN store' = {}
  OBVIOUS
<1>2. TelemtTyped'
  BY <1>1 DEF TelemtInv, TelemtTyped, TaskTyped, Table
<1>3. \A b \in Admins : calls'[b] # T!NoCall => CallFits(b)'
  BY DEF TelemtInv, CallFits, IsCall
<1>4. T!Holding' = T!Holding
  BY DEF T!Holding
<1>5. \A t \in T!Holding' : \A u \in Users \ tasks'[t].met : HolderFits(t, u)'
  BY <1>4 DEF TelemtInv, HolderFits, Pending, Same
<1> QED
  BY <1>1, <1>2, <1>3, <1>5 DEF TelemtInv

\* A fresh telemt knows no user: all is owed, and every snapshot is worthless.
LEMMA SpawnStep ==
  ASSUME TelemtInv, T!Spawn, UNCHANGED <<rows, calls, lastSecret>>
  PROVE  TelemtInv'
<1>1. PICK t \in T!NewTask :
        /\ telemt' = "starting" /\ store' = <<>> /\ owed' = Users /\ unsure' = {}
        /\ tasks' = [s \in Reconcilers |->
                       IF s = t THEN [at |-> "wait"]
                       ELSE IF s \in T!Holding THEN [tasks[s] EXCEPT !.met = Users] ELSE tasks[s]]
  BY DEF T!Spawn
<1>2. t \in Reconcilers /\ tasks[t] = T!Gone
  <2>1. T!Idle # {} /\ t = CHOOSE s \in T!Idle : TRUE
    BY <1>1 DEF T!NewTask
  <2> QED
    BY <2>1 DEF T!Idle
<1>3. t \notin T!Holding
  BY <1>2 DEF T!Holding, T!Gone
<1>4. /\ DOMAIN tasks' = Reconcilers /\ tasks'[t] = [at |-> "wait"]
      /\ \A s \in T!Holding : tasks'[s] = [tasks[s] EXCEPT !.met = Users]
      /\ \A s \in Reconcilers \ T!Holding : s # t => tasks'[s] = tasks[s]
  BY <1>1, <1>2, <1>3 DEF T!Holding
<1>5. ASSUME NEW s \in T!Holding
      PROVE  TaskTyped(tasks'[s]) /\ tasks'[s].met = Users /\ tasks'[s].at = tasks[s].at
  <2> DEFINE l == [tasks[s] EXCEPT !.met = Users]
  <2>1. TaskTyped(tasks[s]) /\ tasks[s].at \in {"list", "push"}
    BY DEF TelemtInv, TelemtTyped, T!Holding
  <2>2. TaskTyped(l) /\ l.met = Users /\ l.at = tasks[s].at
    BY <2>1, TaskMeets
  <2>3. tasks'[s] = l
    BY <1>4
  <2> HIDE DEF l
  <2> QED
    BY <2>2, <2>3
<1>6. TaskTyped(tasks'[t]) /\ tasks'[t].at = "wait"
  BY <1>4 DEF TaskTyped
<1>7. T!Holding' = T!Holding
  BY <1>3, <1>4, <1>5, <1>6 DEF T!Holding
<1>8. DOMAIN store' = {}
  BY <1>1
<1>9. TelemtTyped'
  BY <1>1, <1>4, <1>5, <1>6, <1>8 DEF TelemtInv, TelemtTyped, TaskTyped, Table
<1>10. \A b \in Admins : calls'[b] # T!NoCall => CallFits(b)'
  BY DEF TelemtInv, CallFits, IsCall
<1>11. \A s \in T!Holding' : tasks'[s].met = Users
  BY <1>5, <1>7
<1> QED
  BY <1>1, <1>8, <1>9, <1>10, <1>11 DEF TelemtInv

LEMMA TelemtStutters ==
  ASSUME TelemtInv, UNCHANGED <<rows, telemt, store, calls, tasks, lastSecret, owed, unsure>>
  PROVE  TelemtInv'
<1>1. TelemtTyped'
  BY DEF TelemtInv, TelemtTyped, TaskTyped, Table
<1>2. \A b \in Admins : calls'[b] # T!NoCall => CallFits(b)'
  BY DEF TelemtInv, CallFits, IsCall
<1>3. /\ T!Holding' = T!Holding
      /\ \A u : Match(u)' <=> Match(u)
      /\ \A u, ops : Pending(u, ops)' <=> Pending(u, ops)
  BY DEF T!Holding, Match, Pending
<1>4. \A t, u : HolderFits(t, u)' <=> HolderFits(t, u)
  BY <1>3 DEF HolderFits, Same
<1> QED
  BY <1>1, <1>2, <1>3, <1>4 DEF TelemtInv

LEMMA InboundStep ==
  ASSUME NEW a, Admins = {a}, TelemtInv,
         (\E in \in Inbounds : T!UpdateInbound(in)) \/ T!Respawn
  PROVE  TelemtInv'
<1>1. UNCHANGED <<rows, calls, lastSecret>>
  BY DEF T!UpdateInbound, T!Respawn
<1>2. \/ telemt' = "down" /\ store' = <<>> /\ UNCHANGED <<tasks, owed, unsure>>
      \/ T!Spawn
      \/ (\E t \in T!NewTask : T!StartTask(t)) /\ UNCHANGED <<telemt, store, owed, unsure>>
      \/ UNCHANGED <<telemt, store, tasks, owed, unsure>>
  BY DEF T!UpdateInbound, T!EnsureRunning, T!Respawn
<1>3. CASE telemt' = "down" /\ store' = <<>> /\ UNCHANGED <<tasks, owed, unsure>>
  BY <1>1, <1>3, StopStep
<1>4. CASE T!Spawn
  BY <1>1, <1>4, SpawnStep
<1>5. CASE (\E t \in T!NewTask : T!StartTask(t)) /\ UNCHANGED <<telemt, store, owed, unsure>>
  BY <1>1, <1>5, StartTaskStep DEF Untouched
<1>6. CASE UNCHANGED <<telemt, store, tasks, owed, unsure>>
  BY <1>1, <1>6, TelemtStutters
<1> QED
  BY <1>2, <1>3, <1>4, <1>5, <1>6

LEMMA AliveStep ==
  ASSUME TelemtInv, T!Alive
  PROVE  TelemtInv'
<1>1. /\ telemt = "starting" /\ telemt' = "up"
      /\ UNCHANGED <<rows, store, calls, tasks, lastSecret, owed, unsure>>
  BY DEF T!Alive
<1>2. owed' = Users /\ T!Holding' = T!Holding /\ \A t \in T!Holding : tasks'[t].met = Users
  BY <1>1 DEF TelemtInv, T!Holding
<1>3. TelemtTyped'
  BY <1>1 DEF TelemtInv, TelemtTyped, TaskTyped, Table
<1>4. \A b \in Admins : calls'[b] # T!NoCall => CallFits(b)'
  BY <1>1 DEF TelemtInv, CallFits, IsCall
<1>5. \A u \in (DOMAIN rows' \intersect DOMAIN store') \ unsure' :
        Pending(u, {"create", "rotate"})' \/ store'[u].secret = rows'[u].secret
  BY <1>1 DEF TelemtInv, Pending
<1> QED
  BY <1>1, <1>2, <1>3, <1>4, <1>5 DEF TelemtInv

(***************************************************************************)
(* One name is gone through.                                               *)
(***************************************************************************)
LEMMA TaskPushes ==
  ASSUME NEW k, TaskTyped(k), k.at = "push", NEW m, m \subseteq Users, NEW u, NEW l,
         DOMAIN l = DOMAIN k, l.todo = k.todo \ {u}, l.met = m,
         \A x \in DOMAIN k : x \notin {"todo", "met"} => l[x] = k[x]
  PROVE  /\ TaskTyped(l) /\ l.at = "push"
         /\ l.want = k.want /\ l.seen = k.seen
<1>1. l.at = "push" /\ l.want = k.want /\ l.seen = k.seen
  BY DEF TaskTyped
<1> QED
  BY <1>1 DEF TaskTyped

\* The call a name is due.
LEMMA CallDue ==
  ASSUME NEW k, TaskTyped(k), k.at = "push", NEW u \in Users
  PROVE  LET c == T!CallFor(k, u) IN
         /\ u \notin DOMAIN k.want => c # T!NoCall /\ c.op = "delete"
         /\ u \in DOMAIN k.want /\ u \notin DOMAIN k.seen =>
              /\ c # T!NoCall /\ c.op = "create"
              /\ c.secret = k.want[u].secret /\ c.tag = k.want[u].tag
         /\ u \in DOMAIN k.want /\ u \in DOMAIN k.seen =>
              IF k.seen[u].tag = k.want[u].tag THEN c = T!NoCall
              ELSE c # T!NoCall /\ c.op = "tag" /\ c.tag = k.want[u].tag
         /\ c # T!NoCall => IsCall(c) /\ c.user = u
<1> DEFINE c == T!CallFor(k, u)
<1>1. T!NoCall.op = "none"
  BY DEF T!NoCall
<1>2. Table(k.want, Row)
  BY DEF TaskTyped
<1>3. CASE u \notin DOMAIN k.want
  <2>1. c = [op |-> "delete", user |-> u]
    BY <1>3 DEF T!CallFor
  <2>2. c.op = "delete" /\ c.user = u
    BY <2>1
  <2> HIDE DEF c
  <2> QED
    BY <1>1, <1>3, <2>2 DEF IsCall, c
<1>4. CASE u \in DOMAIN k.want /\ u \notin DOMAIN k.seen
  <2>1. c = [op |-> "create", user |-> u, secret |-> k.want[u].secret, tag |-> k.want[u].tag]
    BY <1>4 DEF T!CallFor
  <2>2. c.op = "create" /\ c.user = u /\ c.secret = k.want[u].secret /\ c.tag = k.want[u].tag
    BY <2>1
  <2>3. k.want[u].secret \in Nat /\ k.want[u].tag \in RowTags
    BY <1>2, <1>4 DEF Table, Row
  <2> HIDE DEF c
  <2> QED
    BY <1>1, <1>4, <2>2, <2>3 DEF IsCall, c
<1>5. CASE u \in DOMAIN k.want /\ u \in DOMAIN k.seen /\ k.seen[u].tag # k.want[u].tag
  <2>1. c = [op |-> "tag", user |-> u, tag |-> k.want[u].tag]
    BY <1>5 DEF T!CallFor
  <2>2. c.op = "tag" /\ c.user = u /\ c.tag = k.want[u].tag
    BY <2>1
  <2>3. k.want[u].tag \in RowTags
    BY <1>2, <1>5 DEF Table, Row
  <2> HIDE DEF c
  <2> QED
    BY <1>1, <1>5, <2>2, <2>3 DEF IsCall, c
<1>6. CASE u \in DOMAIN k.want /\ u \in DOMAIN k.seen /\ k.seen[u].tag = k.want[u].tag
  BY <1>6 DEF T!CallFor
<1> QED
  BY <1>3, <1>4, <1>5, <1>6

LEMMA ReconcileStep ==
  ASSUME NEW a, Admins = {a}, TelemtInv, NEW t \in Reconcilers, NEW u \in Users,
         T!Reconcile(t, u)
  PROVE  TelemtInv'
<1> DEFINE k == tasks[t]
           c == T!CallFor(k, u)
           done == telemt = "up" /\ T!Granted(store, c) /\ store' = T!After(store, c)
<1>1. /\ k.at = "push" /\ u \in k.todo
      /\ UNCHANGED <<rows, telemt, calls, lastSecret, owed>>
  BY DEF T!Reconcile
<1>2. TelemtTyped /\ TaskTyped(k) /\ t \in T!Holding
  BY <1>1 DEF TelemtInv, TelemtTyped, T!Holding
<1>3. Table(k.want, Row) /\ Table(k.seen, UserRow) /\ Table(store, UserRow) /\ k.met \subseteq Users
  BY <1>1, <1>2 DEF TaskTyped, TelemtTyped
<1>4. /\ u \notin DOMAIN k.want => c # T!NoCall /\ c.op = "delete"
      /\ u \in DOMAIN k.want /\ u \notin DOMAIN k.seen =>
           /\ c # T!NoCall /\ c.op = "create"
           /\ c.secret = k.want[u].secret /\ c.tag = k.want[u].tag
      /\ u \in DOMAIN k.want /\ u \in DOMAIN k.seen =>
           IF k.seen[u].tag = k.want[u].tag THEN c = T!NoCall
           ELSE c # T!NoCall /\ c.op = "tag" /\ c.tag = k.want[u].tag
      /\ c # T!NoCall => IsCall(c) /\ c.user = u
  BY <1>1, <1>2, CallDue
\* What the step leaves: the user is done with, or met.
<1>5. \E m \in {k.met, k.met \union {u}} :
        /\ T!Pushed(t, u, m)
        /\ m = k.met => (c = T!NoCall \/ done \/ u \in k.met)
  BY DEF T!Reconcile
<1>6. /\ store' = store \/ (c # T!NoCall /\ telemt = "up" /\ store' = T!After(store, c))
      /\ c = T!NoCall => store' = store
      /\ unsure' = unsure \/ (c # T!NoCall /\ unsure' = unsure \union {u})
      /\ c # T!NoCall /\ c.op = "create" /\ u \in k.met => u \in unsure'
  <2>1. CASE c = T!NoCall
    BY <2>1 DEF T!Reconcile
  <2>2. CASE c # T!NoCall
    <3>1. unsure' = T!Stale(k, c) /\ c.user = u
      BY <1>4, <2>2 DEF T!Reconcile
    <3>2. store' = store \/ (telemt = "up" /\ store' = T!After(store, c))
      BY <2>2 DEF T!Reconcile
    <3> QED
      BY <2>2, <3>1, <3>2 DEF T!Stale
  <2> QED
    BY <2>1, <2>2
<1>7. Table(store', UserRow) /\ \A v : v # u => Same(store', store, v)
  BY <1>3, <1>4, <1>6, CallMade DEF Same
<1>8. PICK m \in {k.met, k.met \union {u}} :
        T!Pushed(t, u, m) /\ (m = k.met => (c = T!NoCall \/ done \/ u \in k.met))
  BY <1>5
<1> DEFINE l == [k EXCEPT !.todo = k.todo \ {u}, !.met = m]
<1>9. /\ DOMAIN tasks' = Reconcilers /\ tasks'[t] = l
      /\ \A s \in T!Holding : s # t => tasks'[s] = [tasks[s] EXCEPT !.met = tasks[s].met \union {u}]
      /\ \A s \in Reconcilers \ T!Holding : tasks'[s] = tasks[s]
  BY <1>2, <1>8 DEF T!Pushed, T!Holding
<1>10. /\ TaskTyped(l) /\ l.at = "push" /\ l.met = m
       /\ l.want = k.want /\ l.seen = k.seen /\ l.todo = k.todo \ {u}
  <2>1. m \subseteq Users
    BY <1>3, <1>8
  <2>2. TaskTyped(k) /\ k.at = "push" /\ {"todo", "met"} \subseteq DOMAIN k
    BY <1>1, <1>2 DEF TaskTyped
  <2> DEFINE i == [k EXCEPT !.todo = k.todo \ {u}]
  <2>3. /\ DOMAIN i = DOMAIN k /\ i.todo = k.todo \ {u}
        /\ \A x \in DOMAIN k : x # "todo" => i[x] = k[x]
    BY <2>2
  <2>4. l = [i EXCEPT !.met = m]
    OBVIOUS
  <2> HIDE DEF i, l
  <2>5. /\ DOMAIN l = DOMAIN k /\ l.todo = k.todo \ {u} /\ l.met = m
        /\ \A x \in DOMAIN k : x \notin {"todo", "met"} => l[x] = k[x]
    BY <2>2, <2>3, <2>4
  <2> HIDE DEF k
  <2> QED
    BY <2>1, <2>2, <2>5, TaskPushes
<1> HIDE DEF l, c
<1>11. ASSUME NEW s \in T!Holding, s # t
       PROVE  /\ TaskTyped(tasks'[s]) /\ tasks'[s].met = tasks[s].met \union {u}
              /\ tasks'[s].at = tasks[s].at /\ tasks'[s].want = tasks[s].want
              /\ tasks[s].at = "push" =>
                   tasks'[s].seen = tasks[s].seen /\ tasks'[s].todo = tasks[s].todo
  <2> DEFINE ms == tasks[s].met \union {u}
             ls == [tasks[s] EXCEPT !.met = ms]
  <2>1. TaskTyped(tasks[s]) /\ tasks[s].at \in {"list", "push"}
    BY <1>2 DEF T!Holding, TelemtTyped
  <2>2. ms \subseteq Users
    BY <2>1 DEF TaskTyped
  <2>3. tasks'[s] = ls
    BY <1>9, <1>11
  <2> HIDE DEF ms
  <2>4. /\ TaskTyped(ls) /\ ls.met = ms /\ ls.at = tasks[s].at /\ ls.want = tasks[s].want
        /\ tasks[s].at = "push" => ls.seen = tasks[s].seen /\ ls.todo = tasks[s].todo
    BY <2>1, <2>2, TaskMeets
  <2> HIDE DEF ls
  <2> QED
    BY <2>3, <2>4 DEF ms
<1>12. T!Holding' = T!Holding
  BY <1>1, <1>2, <1>9, <1>10, <1>11 DEF T!Holding
<1>13. \A s \in Reconcilers : TaskTyped(tasks'[s])
  BY <1>2, <1>9, <1>10, <1>11 DEF TelemtTyped
<1>14. TelemtTyped'
  <2>1. unsure' \subseteq Users
    BY <1>2, <1>6 DEF TelemtTyped
  <2> QED
    BY <1>1, <1>2, <1>7, <1>9, <1>13, <2>1 DEF TelemtTyped, TaskTyped, Table
<1>15. \A v : v # u /\ Match(v) => Match(v)'
  BY <1>1, <1>7 DEF Match, Same
<1>16. \A v, ops : Pending(v, ops)' <=> Pending(v, ops)
  BY <1>1 DEF Pending
<1>17. \A b \in Admins : calls'[b] # T!NoCall => CallFits(b)'
  BY <1>1 DEF TelemtInv, CallFits, IsCall
<1>18. telemt' # "up" => DOMAIN store' = {}
  BY <1>1, <1>6 DEF TelemtInv
<1>19. telemt' = "starting" => owed' = Users /\ \A s \in T!Holding' : tasks'[s].met = Users
  <2>1. Users \union {u} = Users
    OBVIOUS
  <2>2. telemt = "starting" => owed = Users /\ \A s \in T!Holding : tasks[s].met = Users
    BY DEF TelemtInv
  <2>3. m = k.met \/ m = k.met \union {u}
    BY <1>8
  <2> QED
    BY <1>1, <1>2, <1>9, <1>10, <1>11, <1>12, <2>1, <2>2, <2>3
\* The user it has gone through, when it had met nobody about it.
<1>20. ASSUME u \notin m, telemt = "up" PROVE Match(u)'
  <2>1. u \notin k.met /\ (c = T!NoCall \/ done)
    BY <1>8, <1>20
  <2>2. Same(k.want, rows, u) /\ Same(k.seen, store, u)
    BY <1>1, <1>2, <1>20, <2>1 DEF TelemtInv, HolderFits
  <2>3. CASE u \notin DOMAIN k.want
    BY <1>1, <1>3, <1>4, <2>1, <2>2, <2>3, CallMade DEF Match, Same
  <2>4. CASE u \in DOMAIN k.want /\ u \notin DOMAIN k.seen
    BY <1>1, <1>3, <1>4, <2>1, <2>2, <2>4, CallMade DEF Match, Same
  <2>5. CASE u \in DOMAIN k.want /\ u \in DOMAIN k.seen /\ k.seen[u].tag # k.want[u].tag
    BY <1>1, <1>3, <1>4, <2>1, <2>2, <2>5, CallMade DEF Match, Same
  <2>6. CASE u \in DOMAIN k.want /\ u \in DOMAIN k.seen /\ k.seen[u].tag = k.want[u].tag
    <3>1. c = T!NoCall /\ store' = store
      BY <1>4, <1>6, <2>6
    <3>2. store[u].tag = rows[u].tag /\ u \in DOMAIN store /\ u \in DOMAIN rows
      BY <2>2, <2>6 DEF Same
    <3>3. store[u].tag # ""
      BY <1>3, <3>2, TagsAssumption DEF Table, UserRow
    <3> QED
      BY <1>1, <3>1, <3>2, <3>3 DEF Match, T!Normal
  <2> QED
    BY <2>3, <2>4, <2>5, <2>6
<1>21. ASSUME NEW s \in T!Holding', NEW v \in Users \ tasks'[s].met
       PROVE  HolderFits(s, v)'
  <2>1. CASE s = t
    <3>1. v \notin m /\ v \notin k.met
      BY <1>8, <1>9, <1>10, <1>21, <2>1
    <3>2. HolderFits(t, v)
      BY <1>2, <1>21, <3>1 DEF TelemtInv
    <3>3. CASE v = u
      <4>1. telemt' = "up" => Match(v)'
        BY <1>1, <1>20, <3>1, <3>3
      <4>2. v \notin tasks'[s].todo
        BY <1>9, <1>10, <2>1, <3>3
      <4> QED
        BY <1>1, <1>9, <1>10, <1>16, <2>1, <3>2, <4>1, <4>2 DEF HolderFits, Same
    <3>4. CASE v # u
      <4>1. v \in tasks'[s].todo <=> v \in k.todo
        BY <1>9, <1>10, <2>1, <3>4
      <4>2. telemt' = "up" /\ tasks'[s].at = "push" =>
              IF v \in tasks'[s].todo THEN Same(tasks'[s].seen, store', v) ELSE Match(v)'
        BY <1>1, <1>7, <1>9, <1>10, <1>15, <2>1, <3>2, <3>4, <4>1 DEF HolderFits, Same
      <4> QED
        BY <1>1, <1>9, <1>10, <1>16, <2>1, <3>2, <4>2 DEF HolderFits, Same
    <3> QED
      BY <3>3, <3>4
  <2>2. CASE s # t
    <3>1. s \in T!Holding /\ v # u /\ v \in Users \ tasks[s].met
      BY <1>11, <1>12, <1>21, <2>2
    <3>2. HolderFits(s, v)
      BY <3>1 DEF TelemtInv
    <3>3. telemt' = "up" /\ tasks'[s].at = "push" =>
            IF v \in tasks'[s].todo THEN Same(tasks'[s].seen, store', v) ELSE Match(v)'
      BY <1>1, <1>7, <1>11, <1>15, <2>2, <3>1, <3>2 DEF HolderFits, Same
    <3> QED
      BY <1>1, <1>11, <1>16, <2>2, <3>1, <3>2, <3>3 DEF HolderFits, Same
  <2> QED
    BY <2>1, <2>2
<1>22. ASSUME NEW v \in (DOMAIN rows' \intersect DOMAIN store') \ unsure'
       PROVE  Pending(v, {"create", "rotate"})' \/ store'[v].secret = rows'[v].secret
  <2>1. CASE v \in DOMAIN store /\ store'[v].secret = store[v].secret
    <3>1. v \in (DOMAIN rows \intersect DOMAIN store) \ unsure
      BY <1>1, <1>6, <1>22, <2>1
    <3> QED
      BY <1>1, <1>16, <2>1, <3>1 DEF TelemtInv
  \* Created by this step: from the snapshot, which is the row's.
  <2>2. CASE ~ (v \in DOMAIN store /\ store'[v].secret = store[v].secret)
    <3>1. v = u /\ c # T!NoCall /\ store' = T!After(store, c)
      BY <1>6, <1>7, <1>22, <2>2 DEF Same
    <3>2. c.op = "create" /\ u \notin DOMAIN store /\ u \in DOMAIN k.want
      BY <1>3, <1>4, <1>22, <2>2, <3>1, CallMade
    <3>3. store'[u].secret = k.want[u].secret
      BY <1>3, <1>4, <3>1, <3>2, CallMade
    <3>4. u \notin k.met
      BY <1>6, <1>22, <3>1, <3>2
    <3>5. Same(k.want, rows, u)
      BY <1>2, <3>4 DEF TelemtInv, HolderFits
    <3> QED
      BY <1>1, <3>1, <3>2, <3>3, <3>5 DEF Same
  <2> QED
    BY <2>1, <2>2
<1>23. T!Holding' # {}
  BY <1>2, <1>12
<1> QED
  BY <1>14, <1>17, <1>18, <1>19, <1>21, <1>22, <1>23 DEF TelemtInv

LEMMA TelemtInitially == T!TelemtInit => TelemtInv
<1> SUFFICES ASSUME T!TelemtInit PROVE TelemtInv
  OBVIOUS
<1>1. /\ DOMAIN rows = {} /\ telemt = "down" /\ DOMAIN store = {}
      /\ calls = [b \in Admins |-> T!NoCall] /\ tasks = [t \in Reconcilers |-> T!Gone]
      /\ lastSecret = 0 /\ owed = {} /\ unsure = {}
  BY DEF T!TelemtInit
<1>2. TelemtTyped
  BY <1>1 DEF TelemtTyped, Table, TaskTyped, T!Gone
<1>3. T!Holding = {}
  BY <1>1 DEF T!Holding, T!Gone
<1> QED
  BY <1>1, <1>2, <1>3 DEF TelemtInv

LEMMA TelemtStep ==
  ASSUME NEW a, Admins = {a}, TelemtInv, [T!TelemtNext]_telemtVars
  PROVE  TelemtInv'
<1>1. CASE \E u \in Users :
             \/ \E tag \in Tags \union {NoTag} : T!CreateUser(a, u, tag)
             \/ T!RotateSecret(a, u)
             \/ \E tag \in Tags \union {""} : T!UpdateUser(a, u, tag)
             \/ T!DeleteUser(a, u)
  BY <1>1, RequestStep
<1>2. CASE T!Push(a)
  BY <1>2, PushStep
<1>3. CASE (\E in \in Inbounds : T!UpdateInbound(in)) \/ T!Respawn
  BY <1>3, InboundStep
<1>4. CASE \E t \in Reconcilers : T!TaskStep(t)
  BY <1>4, AwakeStep, TaskFailsStep, ListUsersStep, ReconcileStep, TaskEndsStep DEF T!TaskStep
<1>5. CASE T!Dies
  BY <1>5, StopStep DEF T!Dies
<1>6. CASE T!Alive
  BY <1>6, AliveStep
<1>7. CASE UNCHANGED telemtVars
  BY <1>7, TelemtStutters DEF telemtVars
<1> QED
  BY <1>1, <1>2, <1>3, <1>4, <1>5, <1>6, <1>7 DEF T!TelemtNext

\* telemt's users are the database's for every user no call failed and no two
\* tasks met about (mtproxy/supervisor.rs:401, 510): with one admin request at
\* a time and any number of overlapping reconciles, restarts and lost answers.
THEOREM RosterMatchesEver ==
  ASSUME NEW a, Admins = {a}
  PROVE  ServicesSpec => []RosterMatches
<1>1. ServicesInit => TelemtInv
  BY TelemtInitially DEF ServicesInit
<1>2. TelemtInv /\ [ServicesNext]_<<service, xrayVars, mdnsVars, dnsVars, telemtVars>> => TelemtInv'
  BY TelemtStep DEF ServicesNext, telemtVars
<1>3. TelemtInv => RosterMatches
  BY DEF TelemtInv, RosterMatches, T!RosterMatches, T!Quiet, Match, Pending
<1> QED
  BY <1>1, <1>2, <1>3, PTL DEF ServicesSpec

\* The secret telemt accepts is the database's (mtproxy/supervisor.rs:474-479)
\* unless the last call that carried it failed or a reconcile created the user
\* from rows that had changed since.
THEOREM SecretsMatchEver ==
  ASSUME NEW a, Admins = {a}
  PROVE  ServicesSpec => []SecretsMatch
<1>1. ServicesInit => TelemtInv
  BY TelemtInitially DEF ServicesInit
<1>2. TelemtInv /\ [ServicesNext]_<<service, xrayVars, mdnsVars, dnsVars, telemtVars>> => TelemtInv'
  BY TelemtStep DEF ServicesNext, telemtVars
<1>3. TelemtInv => SecretsMatch
  BY DEF TelemtInv, SecretsMatch, T!SecretsMatch, T!Quiet, Pending
<1> QED
  BY <1>1, <1>2, <1>3, PTL DEF ServicesSpec
=============================================================================
