----------------------------- MODULE MCServices -----------------------------
(***************************************************************************)
(* The four bundled services of the process, which share no state: a       *)
(* behaviour exercises one of them, chosen at the start.                   *)
(***************************************************************************)
EXTENDS Naturals, Sequences, TLC

CONSTANTS
  XrayHandlers, NameLists, MaxSecrets, MaxLinks,
  MdnsHandlers, MdnsClients, DomainSets, MaxMdnsKeys, MaxBundles,
  DnsHandlers, SocksPorts,
  Users, Tags, NoTag, Admins, Reconcilers, Inbounds, MaxUserSecrets

\* An ad tag is not empty (validate_hex32), and NULL is not the empty tag.
ASSUME TagsAssumption == "" \notin Tags /\ NoTag # ""

VARIABLES
  service,   \* the one this behaviour exercises
  inbound, peers, drawn, requests, child, stale, turns, links,
  server, roster, keys, pending, files, daemon, behind, bundles,
  bundle, jobs, dnscrypt, tor, failed,
  mtproxy, rows, telemt, store, calls, tasks, lastSecret, owed, unsure

xrayVars   == <<inbound, peers, drawn, requests, child, stale, turns, links>>
mdnsVars   == <<server, roster, keys, pending, files, daemon, behind, bundles>>
dnsVars    == <<bundle, jobs, dnscrypt, tor, failed>>
telemtVars == <<mtproxy, rows, telemt, store, calls, tasks, lastSecret, owed, unsure>>

X == INSTANCE Xray
M == INSTANCE Mdnsvpn
D == INSTANCE DnsBundle
T == INSTANCE TelemtUsers

(***************************************************************************)
(* Values of the constants.                                                *)
(***************************************************************************)
MCNameLists  == {<<>>, <<"a">>, <<"b", "a">>}
MCDomainSets == {{}, {"a"}, {"b"}, {"blank"}}

\* Switched off, fit to run, and with a port that is no number.
MCInbounds ==
  LET On(modes, domain, port) ==
        [enabled |-> TRUE, modes |-> modes, domain |-> domain, port |-> port, tag |-> ""]
  IN { [On({"tls"}, "host", "ok") EXCEPT !.enabled = FALSE],
       On({"tls"}, "host", "ok"), On({"secure"}, "", "text") }

-----------------------------------------------------------------------------
ServicesInit ==
  /\ service \in {"xray", "mdnsvpn", "dns", "telemt"}
  /\ X!XrayInit /\ M!MdnsInit /\ D!DnsInit /\ T!TelemtInit
  \* one initial state of those that take no step
  /\ service # "xray" => inbound.key = 0
  /\ service # "dns" => bundle.socks = 1

ServicesNext ==
  \/ /\ service = "xray" /\ X!XrayNext
     /\ UNCHANGED <<service, mdnsVars, dnsVars, telemtVars>>
  \/ /\ service = "mdnsvpn" /\ M!MdnsNext
     /\ UNCHANGED <<service, xrayVars, dnsVars, telemtVars>>
  \/ /\ service = "dns" /\ D!DnsNext
     /\ UNCHANGED <<service, xrayVars, mdnsVars, telemtVars>>
  \/ /\ service = "telemt" /\ T!TelemtNext
     /\ UNCHANGED <<service, xrayVars, mdnsVars, dnsVars>>

ServicesSpec ==
  ServicesInit /\ [][ServicesNext]_<<service, xrayVars, mdnsVars, dnsVars, telemtVars>>

(***************************************************************************)
(* Properties, stated in the modules of the services.                      *)
(***************************************************************************)
\* The Xray child serves exactly the links that are meant to work, across
\* flips of the transport, rotations and removals (api/xray.rs:132-136).
LinksMatchInbound == X!LinksMatchInbound

\* The MasterDnsVPN child serves exactly the bundles with the present method,
\* for present domains and, if the method encrypts, with the present key
\* (api/mdnsvpn.rs:497-503).
BundlesMatchServer == M!BundlesMatchServer

\* dnscrypt-proxy never sends past a tor the row switches on
\* (dns/dnscrypt.rs:24-25).
TorNotBypassed == D!TorNotBypassed

\* telemt's users are the database's once a reconcile went undisturbed
\* (mtproxy/supervisor.rs:401, 510).
RosterMatches == T!RosterMatches

\* The secret telemt accepts is the database's unless a push of it failed or a
\* create was out of date (mtproxy/supervisor.rs:474-479).
SecretsMatch == T!SecretsMatch
=============================================================================
