------------------------------ MODULE Firewall ------------------------------
(***************************************************************************)
(* firewall.rs: the rules of the table inet awg-easy-rs and the handlers   *)
(* that rebuild them, with the awg-quick hooks that delete and recreate    *)
(* the table under them and the startup order of main.rs and wg/mod.rs.    *)
(* Rules are judged by what becomes of a peer's packet.                    *)
(*                                                                         *)
(* One nft call is one step: a transaction is atomic and fails as a whole. *)
(* A listing and the deletion by handle that follows it are one step, for  *)
(* a handle names one rule as long as the table lives.  Addresses do not   *)
(* change here: a client stands for its source address.                    *)
(***************************************************************************)
EXTENDS Naturals, Sequences, FiniteSets

CONSTANTS
  Clients,    \* rows of clients_table
  Workers,    \* tasks that run request handlers
  Main,       \* the task that starts the program
  Targets,    \* per client, the destinations its rules open
  Rows,       \* the settings an admin may write in this instance
  Ops,        \* the requests that arrive in this instance
  MaxNft      \* bound: tasks inside rebuild_rules, restart or lockdown at a time

Family == {"v4", "v6"}
Place  == {"site", "resolver", "elsewhere"}
Tasks  == Workers \union {Main}

\* The columns of interfaces_table and proxy_settings_table that matter:
\* firewall_enabled, dns_lockdown with the family of its target (none: the
\* target is empty), dns_block_external, and whether the proxy is active.
Row == [fw : BOOLEAN, dns : BOOLEAN, target : Family \union {"none"},
        strict : BOOLEAN, proxy : BOOLEAN]

ASSUME FirewallAssumption ==
  /\ IsFiniteSet(Workers) /\ Main \notin Workers
  /\ Targets \in [Clients -> SUBSET Place]
  /\ Rows \subseteq Row /\ Rows # {}
  /\ MaxNft \in Nat \ {0}

Jump == {"in", "out", "dns"}   \* iif to wg-clients, oif to it, iif to dns-lockdown

VARIABLES
  row, enabled,   \* the settings; the clients with enabled = 1
  fwd,            \* the jumps of chain forward, in order
  clients,        \* chain wg-clients: whom it accepts, whether it ends in drop
  filter,         \* chain dns-lockdown
  nat,            \* chain dns-prerouting
  lockdown,       \* chain proxy-lockdown holds its rule
  wiped,          \* by which restart the table went, no rebuild having ended since
  pc, copy, list  \* per task: where it is, its interface row, what it listed

vars == <<row, enabled, fwd, clients, filter, nat, lockdown, wiped, pc, copy, list>>

db    == <<row, enabled>>
dns   == <<filter, nat>>
rules == <<fwd, clients, filter, nat, lockdown>>

NoChain  == [chain |-> FALSE, grants |-> {}, drop |-> FALSE]
NoFilter == [mode |-> "absent", target |-> "none"]
NoRow    == CHOOSE r \in Rows : TRUE

At(t, label)   == pc[t] = label
Move(t, label) == pc' = [pc EXCEPT ![t] = label]

\* At the end of a rebuild its locals are gone.
Goto(t, label) ==
  /\ Move(t, label)
  /\ IF label \in {"idle", "relock"}
     THEN copy' = [copy EXCEPT ![t] = NoRow] /\ list' = [list EXCEPT ![t] = {}]
     ELSE UNCHANGED <<copy, list>>

Serving == At(Main, "idle")

Arrives(op, t) == Serving /\ t \in Workers /\ At(t, "idle") /\ op \in Ops

\* Labels at which a task is between two nft or awg-quick calls.
Touching(t) ==
  pc[t] \notin {"idle", "check", "rebuild", "restart", "lock", "reconcile", "relock"}

MayTouch == Cardinality({t \in Tasks : Touching(t)}) < MaxNft

DnsOn(r) == r.dns /\ r.target # "none"

-----------------------------------------------------------------------------
\* The host has just come up: startup is about to bring up the interface.
Init ==
  /\ row \in Rows /\ enabled \in SUBSET Clients
  /\ fwd = <<>> /\ clients = NoChain /\ filter = NoFilter /\ nat = "absent"
  /\ lockdown = FALSE /\ wiped = "restart"
  /\ pc = [t \in Tasks |-> IF t = Main THEN "lock" ELSE "idle"]
  /\ copy = [t \in Tasks |-> NoRow] /\ list = [t \in Tasks |-> {}]

(***************************************************************************)
(* The handlers: each commits, saves the configuration, and then comes to  *)
(* the firewall.                                                           *)
(***************************************************************************)
\* create, enable, disable, delete: a rebuild follows if firewall_enabled.
ClientCommit(t, c) ==
  /\ Arrives("client", t)
  /\ enabled' = IF c \in enabled THEN enabled \ {c} ELSE enabled \union {c}
  /\ Goto(t, "check")
  /\ UNCHANGED <<row, rules, wiped>>

\* update_interface with a firewall or DNS field: a rebuild always follows.
UpdateInterface(t, r) ==
  /\ Arrives("iface", t)
  /\ row' = [r EXCEPT !.proxy = row.proxy] /\ row' # row
  /\ Goto(t, "rebuild")
  /\ UNCHANGED <<enabled, rules, wiped>>

\* proxy settings, or a restart of the proxy: apply_and_reconcile.
UpdateProxy(t, on) ==
  /\ Arrives("proxy", t)
  /\ row' = [row EXCEPT !.proxy = on]
  /\ Goto(t, "lock")
  /\ UNCHANGED <<enabled, rules, wiped>>

RestartInterface(t) ==
  /\ Arrives("restart", t)
  /\ Goto(t, "restart")
  /\ UNCHANGED <<db, rules, wiped>>

CheckFirewall(t) ==
  /\ At(t, "check")
  /\ Goto(t, IF row.fw THEN "rebuild" ELSE IF t = Main THEN "relock" ELSE "idle")
  /\ UNCHANGED <<db, rules, wiped>>

RebuildRead(t) ==
  /\ At(t, "rebuild") /\ MayTouch
  /\ copy' = [copy EXCEPT ![t] = row]
  /\ Move(t, IF DnsOn(row) THEN "dns.ensure" ELSE "dns.unjump")
  /\ UNCHANGED <<db, rules, wiped, list>>

ClientsFirst(t) == IF copy[t].fw THEN "clients.init" ELSE "clients.flush"

\* startup goes on to the second lockdown of main, a handler answers.
Finish(t) == Goto(t, IF t = Main THEN "relock" ELSE "idle")

\* Deletion by handle: the jumps of J leave chain forward, the others keep
\* their order.
Delete(J) ==
  LET kept == {i \in DOMAIN fwd : fwd[i] \notin J} IN
  \E at \in [1..Cardinality(kept) -> kept] :
    /\ kept = {at[n] : n \in DOMAIN at}
    /\ \A m, n \in DOMAIN at : m < n => at[m] < at[n]
    /\ fwd' = [n \in DOMAIN at |-> fwd[at[n]]]

DnsUnjump(t) ==
  /\ At(t, "dns.unjump")
  /\ Delete({"dns"})
  /\ Goto(t, "dns.drop")
  /\ UNCHANGED <<db, clients, dns, lockdown, wiped>>

\* A chain some rule still jumps to cannot be deleted; no failure matters.
DnsDrop(t) ==
  /\ At(t, "dns.drop")
  /\ filter' = [NoFilter EXCEPT
                  !.mode = IF \E i \in DOMAIN fwd : fwd[i] = "dns" /\ filter # NoFilter
                           THEN "empty" ELSE "absent"]
  /\ nat' = "absent"
  /\ Goto(t, ClientsFirst(t))
  /\ UNCHANGED <<db, fwd, clients, lockdown, wiped>>

DnsEnsure(t) ==
  /\ At(t, "dns.ensure")
  /\ filter' = IF filter = NoFilter THEN [NoFilter EXCEPT !.mode = "empty"] ELSE filter
  /\ nat' = IF nat = "absent" THEN "empty" ELSE nat
  /\ Goto(t, "dns.list")
  /\ UNCHANGED <<db, fwd, clients, lockdown, wiped>>

\* nft list chain: which jumps are there.
ListForward(t, next) ==
  /\ list' = [list EXCEPT ![t] = {fwd[i] : i \in DOMAIN fwd}]
  /\ Move(t, next)
  /\ UNCHANGED <<db, rules, wiped, copy>>

DnsList(t) == At(t, "dns.list") /\ ListForward(t, "dns.jump")

\* The jump goes to the end of chain forward; without its chain nft fails.
DnsJump(t) ==
  /\ At(t, "dns.jump")
  /\ IF "dns" \in list[t] THEN UNCHANGED fwd /\ Goto(t, "dns.apply")
     ELSE IF filter = NoFilter THEN UNCHANGED fwd /\ Finish(t)
     ELSE fwd' = Append(fwd, "dns") /\ Goto(t, "dns.apply")
  /\ UNCHANGED <<db, clients, dns, lockdown, wiped>>

\* Faulty variant: the rules of an earlier target are not flushed.
DnsApply_KeepNat(t) ==
  /\ At(t, "dns.apply")
  /\ IF filter = NoFilter \/ nat = "absent" THEN UNCHANGED dns /\ Finish(t)
     ELSE /\ filter' = [mode |-> IF copy[t].strict THEN "strict" ELSE "guard",
                        target |-> copy[t].target]
          /\ nat' = IF nat = "empty" THEN copy[t].target ELSE nat
          /\ Goto(t, ClientsFirst(t))
  /\ UNCHANGED <<db, fwd, clients, lockdown, wiped>>

\* Both chains are flushed and filled in one transaction.
DnsApply(t) ==
  /\ At(t, "dns.apply")
  /\ IF filter = NoFilter \/ nat = "absent" THEN UNCHANGED dns /\ Finish(t)
     ELSE /\ filter' = [mode |-> IF copy[t].strict THEN "strict" ELSE "guard",
                        target |-> copy[t].target]
          /\ nat' = copy[t].target
          /\ Goto(t, ClientsFirst(t))
  /\ UNCHANGED <<db, fwd, clients, lockdown, wiped>>

\* remove_filtering: flush_chain fails without the chain.
ClientsFlush(t) ==
  /\ At(t, "clients.flush")
  /\ IF clients.chain
     THEN clients' = [NoChain EXCEPT !.chain = TRUE] /\ Goto(t, "clients.unjump")
     ELSE UNCHANGED clients /\ Finish(t)
  /\ UNCHANGED <<db, fwd, dns, lockdown, wiped>>

ClientsUnjump(t) ==
  /\ At(t, "clients.unjump")
  /\ Delete({"in", "out"})
  /\ wiped' = "no"
  /\ Finish(t)
  /\ UNCHANGED <<db, clients, dns, lockdown>>

\* init_chain
ClientsInit(t) ==
  /\ At(t, "clients.init")
  /\ clients' = [clients EXCEPT !.chain = TRUE]
  /\ Goto(t, "clients.list")
  /\ UNCHANGED <<db, fwd, dns, lockdown, wiped>>

ClientsList(t) == At(t, "clients.list") /\ ListForward(t, "clients.jump")

ClientsJump(t) ==
  LET add(j)  == IF j \in list[t] THEN <<>> ELSE <<j>>
      missing == add("in") \o add("out") IN
  /\ At(t, "clients.jump")
  /\ IF missing # <<>> /\ ~clients.chain
     THEN UNCHANGED fwd /\ Finish(t)
     ELSE fwd' = fwd \o missing /\ Goto(t, "clients.read")
  /\ UNCHANGED <<db, clients, dns, lockdown, wiped>>

\* Faulty variant: disabled clients get rules too.
ClientsRead_All(t) ==
  /\ At(t, "clients.read")
  /\ list' = [list EXCEPT ![t] = Clients]
  /\ Move(t, "clients.apply")
  /\ UNCHANGED <<db, rules, wiped, copy>>

\* get_all_clients, of which the enabled ones get rules.
ClientsRead(t) ==
  /\ At(t, "clients.read")
  /\ list' = [list EXCEPT ![t] = enabled]
  /\ Move(t, "clients.apply")
  /\ UNCHANGED <<db, rules, wiped, copy>>

\* Faulty variant: the chain is not flushed; a rule after a drop is dead.
ClientsApply_NoFlush(t) ==
  /\ At(t, "clients.apply")
  /\ clients' = IF clients.drop THEN clients
                ELSE [chain |-> TRUE, grants |-> list[t], drop |-> TRUE]
  /\ wiped' = "no"
  /\ Finish(t)
  /\ UNCHANGED <<db, fwd, dns, lockdown>>

\* Faulty variant: the flush and the rules are two transactions.
ClientsApply_Twice(t) ==
  /\ At(t, "clients.apply")
  /\ IF clients.drop
     THEN clients' = [NoChain EXCEPT !.chain = TRUE] /\ UNCHANGED <<pc, copy, list, wiped>>
     ELSE /\ clients' = [chain |-> TRUE, grants |-> list[t], drop |-> TRUE]
          /\ wiped' = "no" /\ Finish(t)
  /\ UNCHANGED <<db, fwd, dns, lockdown>>

\* Flush, the rules, the final drop: one transaction.
ClientsApply(t) ==
  /\ At(t, "clients.apply")
  /\ IF clients.chain
     THEN /\ clients' = [chain |-> TRUE, grants |-> list[t], drop |-> TRUE]
          /\ wiped' = "no"
     ELSE UNCHANGED <<clients, wiped>>
  /\ Finish(t)
  /\ UNCHANGED <<db, fwd, dns, lockdown>>

(***************************************************************************)
(* awg-quick down runs PostDown, which deletes the table; awg-quick up     *)
(* runs PostUp, which creates it with its chain wg-clients.                *)
(***************************************************************************)
RestartDown(t) ==
  /\ pc[t] \in {"restart", "reconcile"} /\ MayTouch
  /\ fwd' = <<>> /\ clients' = NoChain /\ filter' = NoFilter /\ nat' = "absent"
  /\ lockdown' = FALSE /\ wiped' = pc[t]
  /\ Goto(t, IF At(t, "restart") THEN "up" ELSE "up.proxy")
  /\ UNCHANGED <<db>>

\* startup and restart_interface look at firewall_enabled next;
\* apply_and_reconcile does not.
RestartUp(t) ==
  /\ pc[t] \in {"up", "up.proxy"}
  /\ clients' = [clients EXCEPT !.chain = TRUE]
  /\ Goto(t, IF At(t, "up") THEN "check" ELSE "idle")
  /\ UNCHANGED <<db, fwd, dns, lockdown, wiped>>

\* apply_proxy_lockdown: before the restart, and once more in main.
ApplyLockdown(t) ==
  /\ pc[t] \in {"lock", "relock"}
  /\ lockdown' = row.proxy
  /\ Goto(t, IF At(t, "relock") THEN "idle"
             ELSE IF t = Main THEN "restart" ELSE "reconcile")
  /\ UNCHANGED <<db, fwd, clients, dns, wiped>>

-----------------------------------------------------------------------------
Handle(t) ==
  \/ \E c \in Clients : ClientCommit(t, c)
  \/ \E r \in Rows : UpdateInterface(t, r)
  \/ \E on \in BOOLEAN : UpdateProxy(t, on)
  \/ RestartInterface(t)

Rebuild(t) ==
  \/ CheckFirewall(t) \/ RebuildRead(t)
  \/ DnsUnjump(t) \/ DnsDrop(t)
  \/ DnsEnsure(t) \/ DnsList(t) \/ DnsJump(t) \/ DnsApply(t)
  \/ ClientsFlush(t) \/ ClientsUnjump(t)
  \/ ClientsInit(t) \/ ClientsList(t) \/ ClientsJump(t)
  \/ ClientsRead(t) \/ ClientsApply(t)

Restart(t) ==
  RestartDown(t) \/ RestartUp(t) \/ ApplyLockdown(t)

Next ==
  \/ \E t \in Workers : Handle(t)
  \/ \E t \in Tasks : Rebuild(t) \/ Restart(t)

Spec == Init /\ [][Next]_vars

-----------------------------------------------------------------------------
(***************************************************************************)
(* What becomes of a packet.  A packet goes from a client to a place or,   *)
(* as the reply, back; the DNAT of dns-prerouting comes before forward.    *)
(***************************************************************************)
Packet == [peer : Clients, place : Place, fam : Family, query : BOOLEAN, back : BOOLEAN]

Out == {p \in Packet : ~p.back}

Reply(p) == [p EXCEPT !.back = TRUE]

\* query: to port 53 or 853.
Routed(p) == [p EXCEPT !.place = IF p.query /\ nat = p.fam THEN "resolver" ELSE @]

\* wg-clients: the rules name the client as the source.
ClientVerdict(p) ==
  IF ~p.back /\ p.peer \in clients.grants /\ p.place \in Targets[p.peer] THEN "accept"
  ELSE IF clients.drop THEN "drop" ELSE "none"

FilterVerdict(p) ==
  CASE filter.mode = "strict" /\ p.place = "resolver" /\ p.fam = filter.target -> "accept"
    [] filter.mode = "strict" /\ p.query -> "drop"
    [] filter.mode = "guard" /\ p.query /\ p.fam # filter.target -> "drop"
    [] OTHER -> "none"

Verdict(jump, p) ==
  IF jump = "dns" THEN IF p.back THEN "none" ELSE FilterVerdict(p)
  ELSE IF (jump = "in") # p.back THEN ClientVerdict(p) ELSE "none"

\* The first rule with a verdict decides; the policy accepts.
Passes(p) ==
  LET decided == {i \in DOMAIN fwd : Verdict(fwd[i], Routed(p)) # "none"} IN
  \A i \in decided :
    (\A j \in decided : i <= j) => Verdict(fwd[i], Routed(p)) = "accept"

Settled == \A t \in Tasks : At(t, "idle")

\* Rows, rules and locals keep their shape.
TypeOK ==
  /\ row \in Row /\ enabled \subseteq Clients
  /\ fwd \in Seq(Jump)
  /\ clients \in [chain : BOOLEAN, grants : SUBSET Clients, drop : BOOLEAN]
  /\ filter \in [mode : {"absent", "empty", "guard", "strict"}, target : Family \union {"none"}]
  /\ nat \in Family \union {"absent", "empty"}
  /\ lockdown \in BOOLEAN /\ wiped \in {"no", "restart", "reconcile"}
  /\ copy \in [Tasks -> Row] /\ list \in [Tasks -> SUBSET (Clients \union Jump)]

\* "default-deny" (README:40): with the firewall on and no handler at work, a
\* packet gets out only from an enabled client to a place its rules open, or
\* to the resolver for the lockdown's sake.  Restarts and startup included,
\* but for the restart inside apply_and_reconcile.
DefaultDeny ==
  Settled /\ row.fw /\ wiped # "reconcile" => \A p \in Out :
    Passes(p) => \/ p.peer \in enabled /\ Routed(p).place \in Targets[p.peer]
                 \/ DnsOn(row) /\ Routed(p).place = "resolver"

\* What the rules of an enabled client open is open, unless the lockdown
\* closes it: no rule is lost behind an older drop.
GrantsHold ==
  Settled /\ row.fw /\ wiped # "reconcile" => \A p \in Out :
    p.peer \in enabled /\ p.place \in Targets[p.peer] /\ ~p.query => Passes(p)

\* A rebuild makes the DNS of the target's family go to the target, whatever
\* toggles came before, until the table is deleted; with the firewall on a
\* restart or startup brings the redirection back.
DnsRedirected ==
  Settled /\ DnsOn(row) /\ (wiped = "no" \/ (row.fw /\ wiped = "restart")) => \A p \in Out :
    p.query /\ p.fam = row.target => Routed(p).place = "resolver"

\* "the exact leak the module doc promised to prevent" (firewall.rs:539): with
\* the per-client firewall off, no query leaves but to the target.
LeakGuarded ==
  Settled /\ DnsOn(row) /\ ~row.fw /\ wiped = "no" => \A p \in Out :
    p.query /\ Passes(p) => Routed(p).place = "resolver"

\* init_chain and ensure_dns_chains are idempotent and the removals leave no
\* rule: a jump is there once, and only if its feature is on.
JumpsOnce ==
  Settled => \A j \in Jump :
    Cardinality({i \in DOMAIN fwd : fwd[i] = j}) =
      IF wiped = "no" /\ (IF j = "dns" THEN DnsOn(row) ELSE row.fw) THEN 1 ELSE 0

Enforced == clients.drop /\ \E i \in DOMAIN fwd : fwd[i] = "in"

\* "peers never see a half-applied ruleset" (firewall.rs:38): the default-deny
\* goes away with the table or because a handler found the firewall off.
NeverHalfApplied ==
  [][Enforced /\ ~Enforced' =>
       \E t \in Tasks : \/ RestartDown(t)
                        \/ At(t, "clients.flush") /\ ~copy[t].fw]_vars

\* "even when the per-peer firewall is disabled (firewall_enabled = false) the
\* lockdown still applies" (firewall.rs:227).
LockdownIndependent ==
  Settled /\ DnsOn(row) => \A p \in Out :
    p.query /\ p.fam = row.target => Routed(p).place = "resolver"

\* "only returns to forward (and thus the accept policy) for explicitly-allowed
\* flows" (db.rs:1448): the reply to a packet that was let out comes back.
FlowsReturn ==
  Settled /\ row.fw => \A p \in Out : Passes(p) => Passes(Reply(p))

\* "default-deny" (README:40), whatever happened before.
FirewallStays ==
  Settled /\ row.fw => \A p \in Out :
    Passes(p) => \/ p.peer \in enabled /\ Routed(p).place \in Targets[p.peer]
                 \/ DnsOn(row) /\ Routed(p).place = "resolver"

\* "Installing the lockdown first closes that window" (proxy/supervisor.rs:501):
\* while the proxy is active the backend port is confined.
BackendConfined == Settled /\ row.proxy => lockdown
=============================================================================
