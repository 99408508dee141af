------------------------------ MODULE MCParts ------------------------------
(***************************************************************************)
(* Three parts of the process that keep state in tables or in the kernel:  *)
(* the database from file to file (Store), with files of earlier releases; *)
(* the rows of one_time_links_table under two threads (OneTimeLink); and   *)
(* the rules of the firewall (Firewall).  The models share no state: a     *)
(* behaviour exercises one of them, chosen at the start.                   *)
(***************************************************************************)
EXTENDS MCFirewall

CONSTANTS
  Modes, Inits, Reqs, Predates, Applied, Ports, Edits, MaxCrashes, MaxWrites, MaxSnapshots,
  MaxTokens, NoLink

VARIABLES
  part,      \* the one this behaviour exercises
  mode, init, phase, file, opened, boot, req, periodic, final, used, floor,
  owners, links, issued, at, client, token, served

storeVars == <<mode, init, phase, file, opened, boot, req, periodic, final, used, floor>>
linkVars  == <<owners, links, issued, at, client, token, served>>

S == INSTANCE Store WITH db <- opened
L == INSTANCE OneTimeLink WITH clients <- owners, pc <- at

\* What an earlier release may have lacked are services of this one.
ASSUME ReleasesAssumption == Predates \subseteq SUBSET DOMAIN S!Later

\* Files of releases that predate some of the service tables.
MCPredates == {{}, {"proxy"}, {"mtproxy", "mdnsvpn"}, {"xray", "dns", "proxy", "mtproxy", "mdnsvpn"}}

-----------------------------------------------------------------------------
PartsInit ==
  /\ part \in {"store", "links", "firewall"}
  /\ S!Init /\ L!Init /\ Init
  \* one initial state of those that take no step
  /\ part # "store" => mode = "disk" /\ init = "off" /\ file = S!NoFile
  /\ part # "links" => client = [w \in Workers |-> CHOOSE c \in Clients : TRUE]
  /\ part # "firewall" => enabled = {} /\ row = CHOOSE r \in Rows : TRUE

PartsNext ==
  \/ part = "store"    /\ S!Next /\ UNCHANGED <<part, linkVars, vars>>
  \/ part = "links"    /\ L!Next /\ UNCHANGED <<part, storeVars, vars>>
  \/ part = "firewall" /\ Next   /\ UNCHANGED <<part, storeVars, linkVars>>

PartsSpec == PartsInit /\ [][PartsNext]_<<part, storeVars, linkVars, vars>>

(***************************************************************************)
(* Properties, stated in Store, OneTimeLink and Firewall.                  *)
(***************************************************************************)
\* A server that answers has the whole schema (db.rs:1497-1607, 1640-1643).
UpgradeComplete == S!UpgradeComplete

\* A crash in RAM mode loses only what the last completed periodic snapshot
\* did not hold (db.rs, snapshot_to), as long as a good file can be restored.
LosesOnlyTail == S!LosesOnlyTail

\* When the wizard is closed clients are told the port the interface listens
\* on (api/setup.rs, setup_step4_post), until an admin sets one port alone.
SetupConsistent == S!SetupConsistent

\* "Idempotently ensure every singleton table has its default row"
\* (db.rs:1640); refuted, by a file that predates the proxy.
SingletonsPresent == S!SingletonsPresent

\* A token yields at most one configuration per thread that had looked it up
\* before it was deleted (routes.rs:135).
UsesBounded == L!UsesBounded

\* A link outlives no client: delete_client and a concurrent generate leave
\* no row whose token would render a configuration.
NoOrphanLink == L!NoOrphanLink
=============================================================================
