---------------------------- MODULE OneTimeLink ----------------------------
(***************************************************************************)
(* One-time download links: generate_one_time_link of api/clients.rs,      *)
(* GET /cnf/:oneTimeLink of api/routes.rs and the rows of                  *)
(* one_time_links_table, whose primary key is the client's id.             *)
(*                                                                         *)
(* The handlers have no await between their database calls, but run on     *)
(* several threads: each call is a step.  No job removes expired links.    *)
(***************************************************************************)
EXTENDS Naturals, FiniteSets

CONSTANTS
  Clients,     \* client ids
  Workers,     \* threads that run handlers
  MaxTokens,   \* bound: links generated
  NoLink       \* no row under this client's id

Token == 1 .. MaxTokens
Link  == [token : Token, expired : BOOLEAN]

VARIABLES
  clients,   \* rows of clients_table
  links,     \* rows of one_time_links_table
  issued,    \* tokens drawn so far; the CSPRNG repeats none
  pc,        \* where each handler is
  client,    \* the client id the handler works on
  token,     \* the token of the request
  served     \* per token, the configurations answered for it

vars  == <<clients, links, issued, pc, client, token, served>>
local == <<client, token>>

Goto(w, label) == pc' = [pc EXCEPT ![w] = label]

Init ==
  /\ clients = Clients
  /\ links = [c \in Clients |-> NoLink]
  /\ issued = 0
  /\ pc = [w \in Workers |-> "idle"]
  /\ client \in [Workers -> Clients] /\ token = [w \in Workers |-> 1]
  /\ served = [k \in Token |-> 0]

\* The client's row is read and its configuration rendered, as a test.
GenerateCheck(w) ==
  /\ pc[w] = "idle"
  /\ \E c \in clients : client' = [client EXCEPT ![w] = c]
  /\ Goto(w, "generate")
  /\ UNCHANGED <<clients, links, issued, token, served>>

\* create_one_time_link: INSERT OR REPLACE under the client's id; the foreign
\* key refuses it for a client deleted meanwhile.
GenerateInsert(w) ==
  /\ pc[w] = "generate"
  /\ IF client[w] \in clients /\ issued < MaxTokens
     THEN /\ issued' = issued + 1
          /\ links' = [links EXCEPT ![client[w]] =
                         [token |-> issued + 1, expired |-> FALSE]]
     ELSE UNCHANGED <<links, issued>>
  /\ Goto(w, "idle")
  /\ UNCHANGED <<clients, local, served>>

\* get_one_time_link and the test of expires_at; an unknown token is a 404.
Lookup(w) ==
  /\ pc[w] = "idle"
  /\ \E c \in Clients :
       /\ links[c] # NoLink
       /\ client' = [client EXCEPT ![w] = c]
       /\ token' = [token EXCEPT ![w] = links[c].token]
       /\ Goto(w, IF links[c].expired THEN "drop" ELSE "render")
  /\ UNCHANGED <<clients, links, issued, served>>

\* delete_one_time_link removes by client id; its error is ignored.
DropExpired(w) ==
  /\ pc[w] = "drop"
  /\ links' = [links EXCEPT ![client[w]] = NoLink]
  /\ Goto(w, "idle")
  /\ UNCHANGED <<clients, issued, local, served>>

\* get_client_config and get_client: 404 if the client is gone.
RenderConfig(w) ==
  /\ pc[w] = "render"
  /\ Goto(w, IF client[w] \in clients THEN "serve" ELSE "idle")
  /\ UNCHANGED <<clients, links, issued, local, served>>

\* Faulty variant: the row is left behind.
Serve_Keep(w) ==
  /\ pc[w] = "serve"
  /\ served' = [served EXCEPT ![token[w]] = @ + 1]
  /\ Goto(w, "idle")
  /\ UNCHANGED <<clients, links, issued, local>>

\* The row is removed by client id, then the configuration is the answer.
Serve(w) ==
  /\ pc[w] = "serve"
  /\ links' = [links EXCEPT ![client[w]] = NoLink]
  /\ served' = [served EXCEPT ![token[w]] = @ + 1]
  /\ Goto(w, "idle")
  /\ UNCHANGED <<clients, issued, local>>

\* Faulty variant: ON DELETE CASCADE is missing.
DeleteClient_NoCascade(c) ==
  /\ c \in clients
  /\ clients' = clients \ {c}
  /\ UNCHANGED <<links, issued, pc, local, served>>

\* db::delete_client, and ON DELETE CASCADE.
DeleteClient(c) ==
  /\ c \in clients
  /\ clients' = clients \ {c}
  /\ links' = [links EXCEPT ![c] = NoLink]
  /\ UNCHANGED <<issued, pc, local, served>>

\* Five minutes pass.
Expire(c) ==
  /\ links[c] # NoLink /\ ~links[c].expired
  /\ links' = [links EXCEPT ![c].expired = TRUE]
  /\ UNCHANGED <<clients, issued, pc, local, served>>

Handle(w) == GenerateInsert(w) \/ DropExpired(w) \/ RenderConfig(w) \/ Serve(w)

Next ==
  \/ \E w \in Workers : GenerateCheck(w) \/ Lookup(w) \/ Handle(w)
  \/ \E c \in Clients : DeleteClient(c) \/ Expire(c)

Spec == Init /\ [][Next]_vars

\* Handlers run to their end.
FairSpec == Spec /\ \A w \in Workers : WF_vars(Handle(w))

-----------------------------------------------------------------------------
\* Rows, tokens and handlers keep their shape.
TypeOK ==
  /\ clients \subseteq Clients
  /\ links \in [Clients -> Link \union {NoLink}]
  /\ issued \in 0 .. MaxTokens
  /\ pc \in [Workers -> {"idle", "generate", "drop", "render", "serve"}]
  /\ client \in [Workers -> Clients] /\ token \in [Workers -> Token]
  /\ served \in [Token -> Nat]

\* "Delete the one-time link (one-time use)" (routes.rs:135): a token yields
\* one configuration.
OneTimeUse == \A k \in Token : served[k] <= 1

\* What the separate lookup and delete leave of it: a token yields at most
\* one configuration per thread that had looked it up before it was deleted.
UsesBounded == \A k \in Token : served[k] <= Cardinality(Workers)

\* A link outlives no client: delete_client and a concurrent generate leave
\* no row whose token would render a configuration.
NoOrphanLink == \A c \in Clients : links[c] # NoLink => c \in clients

\* A token handed to an admin stays good until it is used, has expired, is
\* replaced, or the client is deleted (routes.rs:135 deletes "the" link).
LinkLasts ==
  [][\A c \in Clients :
       links[c] # NoLink /\ links'[c] = NoLink =>
         \/ c \notin clients'
         \/ links[c].expired
         \/ served'[links[c].token] > served[links[c].token]]_vars

\* "Background cron expires clients/one-time-links every 60 s" (README:42).
ExpiredPurged ==
  \A c \in Clients :
    (links[c] # NoLink /\ links[c].expired) ~>
      (links[c] = NoLink \/ ~links[c].expired)
=============================================================================
