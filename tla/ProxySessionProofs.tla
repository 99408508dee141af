------------------------- MODULE ProxySessionProofs -------------------------
(***************************************************************************)
(* The session table of the proxy, for every number of clients, sessions   *)
(* and relays: its counter neither loses nor leaks a slot and bounds it,   *)
(* every session has a relay, every running relay is registered, and no    *)
(* map keeps a client that has no session.                                 *)
(***************************************************************************)
EXTENDS ProxySession, FiniteSetTheorems, TLAPS

(***************************************************************************)
(* What the counter depends on: the table, the relays, the loop's and the  *)
(* sweeper's locals.                                                       *)
(***************************************************************************)
Entry == [live : BOOLEAN, gen : Nat, stale : BOOLEAN]

Sweeper == [at : {"idle", "scan", "drop", "contains", "wipe", "stopped"},
            due : SUBSET Clients,
            expired : SUBSET (Clients \X Nat),
            now : Clients \X Nat]

Shape ==
  /\ sessions \in [Clients -> Entry]
  /\ count \in Int
  /\ nextGen \in Nat
  /\ relay \in [Gen -> Relay]
  /\ rx \in Rx
  /\ sweep \in Sweeper

(***************************************************************************)
(* CountExact is not inductive.  A slot is reserved for a client without a *)
(* session and an entry dropped that is there, since nobody else writes a  *)
(* locked shard; and a generation not yet started counts nothing.          *)
(***************************************************************************)
Vacant  == rx.at \in {"bind", "reserve", "insert"} => ~sessions[rx.client].live
Present == sweep.at = "drop" => sessions[sweep.now[1]].live
Unborn  == \A g \in Gen : g >= nextGen => relay[g].at = "new"

Locked == Vacant /\ Present /\ Unborn

CountInv == Shape /\ Locked /\ CountExact

-----------------------------------------------------------------------------
\* The loop and the sweeper start with a client at hand.
LEMMA IdleShape == IdleRx \in Rx /\ IdleSweep \in Sweeper
<1>1. AnyClient \in Clients
  BY ProxyAssumption DEF AnyClient
<1>2. [awg |-> TRUE, looks |-> "none"] \in Packet
  BY DEF Packet
<1> QED
  BY <1>1, <1>2 DEF IdleRx, Rx, IdleSweep, Sweeper, NoRelay

\* The loop goes on with the packet it has, or forgets it.
LEMMA RxMoves ==
  ASSUME rx \in Rx,
         NEW at \in {"idle", "probe", "echo", "lookup", "bind", "reserve", "insert", "spawn",
                     "replace", "register", "settle", "reject", "stopped"},
         RxGoto(at)
  PROVE  /\ rx' \in Rx /\ rx'.at = at
         /\ at \notin {"idle", "stopped"} => rx'.client = rx.client
<1>1. CASE at \in {"idle", "stopped"}
  BY <1>1, IdleShape DEF RxGoto, Rx
<1>2. CASE at \notin {"idle", "stopped"}
  BY <1>2 DEF RxGoto, Rx
<1> QED
  BY <1>1, <1>2

\* The sweeper goes on with the entry it has, or looks for another.
LEMMA SweepMoves ==
  ASSUME sweep \in Sweeper,
         NEW at \in {"idle", "scan", "drop", "contains", "wipe", "stopped"},
         SweepGoto(at)
  PROVE  sweep' \in Sweeper /\ sweep'.at = at
BY IdleShape DEF SweepGoto, Sweeper

\* Aborting a relay removes no session and starts no relay.
LEMMA AbortKeeps ==
  ASSUME relay \in [Gen -> Relay], NEW gens, relay' = Aborted(gens)
  PROVE  /\ relay' \in [Gen -> Relay]
         /\ \A g \in Gen : /\ relay'[g].at = "uncount" <=> relay[g].at = "uncount"
                           /\ relay[g].at = "new" => relay'[g].at = "new"
BY DEF Aborted, Relay

\* The sets whose sizes are compared are finite.
LEMMA Sizes ==
  /\ IsFiniteSet(SessionOf) /\ Cardinality(SessionOf) \in Nat
  /\ IsFiniteSet(Uncounted) /\ Cardinality(Uncounted) \in Nat
<1>1. IsFiniteSet(Gen)
  BY ProxyAssumption, FS_Interval DEF Gen
<1>2. IsFiniteSet(SessionOf) /\ IsFiniteSet(Uncounted)
  BY <1>1, ProxyAssumption, FS_Subset DEF SessionOf, Uncounted
<1> QED
  BY <1>2, FS_CardinalityType

-----------------------------------------------------------------------------
\* A step that leaves the balance alone.
LEMMA Steady ==
  ASSUME CountExact, SessionOf' = SessionOf, Uncounted' = Uncounted, count' = count,
         rx'.at = "insert" <=> rx.at = "insert",
         sweep'.at = "drop" <=> sweep.at = "drop"
  PROVE  CountExact'
BY DEF CountExact

\* What each of the two sets is made of.
LEMMA SameSessions ==
  ASSUME \A c \in Clients : sessions'[c].live = sessions[c].live PROVE SessionOf' = SessionOf
BY DEF SessionOf

LEMMA SameUncounted ==
  ASSUME \A g \in Gen : relay'[g].at = "uncount" <=> relay[g].at = "uncount"
  PROVE  Uncounted' = Uncounted
BY DEF Uncounted

\* The packet of a client is met by the loop: Receive.
LEMMA ReceiveKeeps ==
  ASSUME CountInv, NEW c \in Clients, NEW packet \in Packet, Receive(c, packet)
  PROVE  CountInv'
<1> USE DEF CountInv
<1>1. rx' \in Rx /\ rx'.at \in {"echo", "probe"} /\ rx.at = "idle"
  BY DEF Receive, Rx
<1>2. UNCHANGED <<sessions, count, nextGen, relay, sweep>>
  BY DEF Receive, table, tasks
<1>3. Shape'
  BY <1>1, <1>2 DEF Shape
<1>4. Locked'
  BY <1>1, <1>2 DEF Locked, Vacant, Present, Unborn
<1>5. SessionOf' = SessionOf /\ Uncounted' = Uncounted
  BY <1>2 DEF SessionOf, Uncounted
<1>6. CountExact'
  BY <1>1, <1>2, <1>5, Steady
<1> QED
  BY <1>3, <1>4, <1>6

\* Steps of the loop that write neither the table nor the counter.
LEMMA LoopKeeps ==
  ASSUME CountInv,
         \/ \E token \in BOOLEAN : Probe(token)
         \/ Echo \/ Bind \/ ReplaceHandle \/ RegisterHandle \/ DropFinished \/ Reject \/ Stop
  PROVE  CountInv'
<1> USE DEF CountInv
<1>1. /\ UNCHANGED <<sessions, count, nextGen>>
      /\ rx.at # "insert"
      /\ \/ /\ rx.at = "bind" /\ RxGoto("reserve")
         \/ \E at \in {"idle", "echo", "lookup", "reject", "register", "settle", "stopped"} : RxGoto(at)
  BY DEF Probe, Echo, Bind, ReplaceHandle, RegisterHandle, DropFinished, Reject, Stop, table,
         tasks
<1>2. /\ rx' \in Rx /\ rx'.at # "insert"
      /\ rx'.at \in {"bind", "reserve"} => rx.at = "bind" /\ rx'.client = rx.client
  BY <1>1, RxMoves DEF Shape
<1>3. /\ relay' \in [Gen -> Relay]
      /\ \A g \in Gen : /\ relay'[g].at = "uncount" <=> relay[g].at = "uncount"
                        /\ relay[g].at = "new" => relay'[g].at = "new"
  <2>1. relay' = relay \/ \E gens : relay' = Aborted(gens)
    <3>1. CASE ReplaceHandle \/ Stop
      BY <3>1 DEF ReplaceHandle, Stop
    <3>2. CASE ~ (ReplaceHandle \/ Stop)
      BY <3>2 DEF Probe, Echo, Bind, RegisterHandle, DropFinished, Reject, tasks
    <3> QED
      BY <3>1, <3>2
  <2> QED
    BY <2>1, AbortKeeps DEF Shape
<1>4. /\ sweep' \in Sweeper
      /\ sweep'.at = "drop" <=> sweep.at = "drop"
      /\ sweep'.now = sweep.now
  BY DEF Probe, Echo, Bind, ReplaceHandle, RegisterHandle, DropFinished, Reject, Stop, Shape,
         Sweeper
<1>5. Shape'
  BY <1>1, <1>2, <1>3, <1>4 DEF Shape
<1>6. Locked'
  BY <1>1, <1>2, <1>3, <1>4 DEF Locked, Vacant, Present, Unborn
<1>7. SessionOf' = SessionOf /\ Uncounted' = Uncounted
  BY <1>1, <1>3, SameUncounted DEF SessionOf
<1>8. CountExact'
  BY <1>1, <1>2, <1>4, <1>7, Steady
<1> QED
  BY <1>5, <1>6, <1>8

\* The loop looks a session up, reserves a slot, fills it, starts its relay.
LEMMA AdmitKeeps ==
  ASSUME CountInv, Lookup \/ Reserve \/ Insert \/ SpawnRelay PROVE CountInv'
<1> USE DEF CountInv
<1> DEFINE c == rx.client
<1>0. c \in Clients /\ sessions[c] \in Entry /\ rx \in Rx
  BY DEF Shape, Rx
<1>1. CASE Lookup
  <2>1. /\ sessions' \in [Clients -> Entry]
        /\ \A d \in Clients : sessions'[d].live = sessions[d].live
    BY <1>0, <1>1 DEF Lookup, Shape, Entry
  <2>2. UNCHANGED <<count, nextGen, relay, sweep>> /\ rx.at = "lookup"
    BY <1>1 DEF Lookup, tasks
  <2>3. /\ rx' \in Rx /\ rx'.at \in {"idle", "reject", "bind"}
        /\ rx'.at = "bind" => rx'.client = c /\ ~sessions[c].live
    BY <1>0, <1>1, RxMoves DEF Lookup
  <2>4. Shape'
    BY <2>1, <2>2, <2>3 DEF Shape
  <2>5. sweep.now[1] \in Clients
    BY DEF Shape, Sweeper
  <2>6. Locked'
    BY <1>0, <2>1, <2>2, <2>3, <2>5 DEF Locked, Vacant, Present, Unborn
  <2>7. SessionOf' = SessionOf /\ Uncounted' = Uncounted
    BY <2>1, <2>2, SameSessions DEF Uncounted
  <2>8. CountExact'
    BY <2>2, <2>3, <2>7, Steady
  <2> QED
    BY <2>4, <2>6, <2>8
<1>2. CASE Reserve
  <2>1. UNCHANGED <<sessions, nextGen, relay, sweep>> /\ rx.at = "reserve"
    BY <1>2 DEF Reserve, tasks
  <2>2. SessionOf' = SessionOf /\ Uncounted' = Uncounted
    BY <2>1 DEF SessionOf, Uncounted
  <2>3. CASE RxGoto("reject") /\ UNCHANGED count
    <3>1. rx' \in Rx /\ rx'.at = "reject"
      BY <1>0, <2>3, RxMoves
    <3>2. CountExact'
      BY <2>1, <2>2, <2>3, <3>1, Steady
    <3> QED
      BY <2>1, <2>3, <3>1, <3>2 DEF Shape, Locked, Vacant, Present, Unborn
  <2>4. CASE RxGoto("insert") /\ count' = count + 1
    <3>1. rx' \in Rx /\ rx'.at = "insert" /\ rx'.client = c
      BY <1>0, <2>4, RxMoves
    <3>2. CountExact'
      BY <2>1, <2>2, <2>4, <3>1, Sizes DEF CountExact, Shape
    <3> QED
      BY <2>1, <2>4, <3>1, <3>2 DEF Shape, Locked, Vacant, Present, Unborn
  <2> QED
    BY <1>2, <2>3, <2>4 DEF Reserve
<1>3. CASE Insert
  <2>1. /\ UNCHANGED <<count, nextGen, relay, sweep>> /\ rx.at = "insert"
        /\ sessions' = [sessions EXCEPT ![c] = [live |-> TRUE, gen |-> NoRelay, stale |-> FALSE]]
    BY <1>3 DEF Insert, tasks
  <2>2. rx' \in Rx /\ rx'.at = "spawn"
    BY <1>0, <1>3, RxMoves DEF Insert
  <2>3. sessions' \in [Clients -> Entry] /\ \A d \in Clients : sessions[d].live => sessions'[d].live
    BY <1>0, <2>1 DEF Shape, Entry, NoRelay
  <2>4. ~sessions[c].live
    BY <2>1 DEF Locked, Vacant
  <2>5. SessionOf' = SessionOf \union {c} /\ c \notin SessionOf /\ Uncounted' = Uncounted
    BY <1>0, <2>1, <2>4 DEF SessionOf, Uncounted, Shape
  <2>6. Cardinality(SessionOf') = Cardinality(SessionOf) + 1
    BY <2>5, Sizes, FS_AddElement
  <2>7. CountExact'
    BY <2>1, <2>2, <2>5, <2>6, Sizes DEF CountExact, Shape
  <2>8. sweep.now[1] \in Clients
    BY DEF Shape, Sweeper
  <2> QED
    BY <2>1, <2>2, <2>3, <2>7, <2>8 DEF Shape, Locked, Vacant, Present, Unborn
<1>4. CASE SpawnRelay
  <2>1. /\ UNCHANGED <<count, sweep>> /\ rx.at = "spawn" /\ nextGen' = nextGen + 1
        /\ relay' = [relay EXCEPT ![nextGen] = [client |-> c, at |-> "run"]]
    BY <1>4 DEF SpawnRelay
  <2>2. rx' \in Rx /\ rx'.at = "replace"
    BY <1>0, <1>4, RxMoves DEF SpawnRelay
  <2>3. /\ sessions' \in [Clients -> Entry]
        /\ \A d \in Clients : sessions'[d].live = sessions[d].live
    BY <1>0, <1>4 DEF SpawnRelay, Shape, Entry
  <2>4. relay' \in [Gen -> Relay]
    BY <1>0, <2>1 DEF Shape, Relay
  <2>5. \A g \in Gen : relay'[g].at = "uncount" <=> relay[g].at = "uncount"
    BY <2>1 DEF Shape, Locked, Unborn, Gen
  <2>6. Unborn'
    BY <2>1 DEF Shape, Locked, Unborn, Gen
  <2>7. SessionOf' = SessionOf /\ Uncounted' = Uncounted
    BY <2>3, <2>5, SameSessions, SameUncounted
  <2>8. CountExact'
    BY <2>1, <2>2, <2>7, Steady
  <2>9. sweep.now[1] \in Clients /\ nextGen' \in Nat
    BY <2>1 DEF Shape, Sweeper
  <2> QED
    BY <2>1, <2>2, <2>3, <2>4, <2>6, <2>8, <2>9 DEF Shape, Locked, Vacant, Present
<1> QED
  BY <1>1, <1>2, <1>3, <1>4

-----------------------------------------------------------------------------
\* A relay removes the session it finds under its address, and counts it out.
LEMMA RelayKeeps ==
  ASSUME CountInv, NEW g \in Gen, RelayError(g) \/ RelayClean(g) PROVE CountInv'
<1> USE DEF CountInv
<1> DEFINE c == relay[g].client
<1>0. c \in Clients /\ sessions[c] \in Entry /\ relay \in [Gen -> Relay] /\ relay[g] \in Relay
  BY DEF Shape, Relay
<1>1. UNCHANGED <<rx, sweep, nextGen>>
  BY DEF RelayError, RelayClean, RelayRemove, RelayUncount, RelayWipe, RelayEnd
<1>2. sweep.now[1] \in Clients /\ rx.client \in Clients
  BY DEF Shape, Sweeper, Rx
<1>3. ASSUME NEW at \in {"session", "uncount", "wipe", "handle", "done"}, RelayGoto(g, at),
             relay[g].at # "new"
      PROVE  /\ relay' \in [Gen -> Relay] /\ relay'[g].at = at
             /\ \A h \in Gen \ {g} : relay'[h] = relay[h]
             /\ Unborn'
  BY <1>0, <1>1, <1>3 DEF RelayGoto, Relay, Locked, Unborn
<1>4. CASE RelayError(g) \/ RelayWipe(g) \/ RelayEnd(g)
  <2>1. PICK at \in {"session", "handle", "done"} :
          RelayGoto(g, at) /\ relay[g].at \in {"run", "wipe", "handle"}
    BY <1>4 DEF RelayError, RelayWipe, RelayEnd
  <2>2. UNCHANGED <<sessions, count>>
    BY <1>4 DEF RelayError, RelayWipe, RelayEnd, table
  <2>3. /\ relay' \in [Gen -> Relay] /\ Unborn'
        /\ \A h \in Gen : relay'[h].at = "uncount" <=> relay[h].at = "uncount"
    BY <2>1, <1>3
  <2>4. SessionOf' = SessionOf /\ Uncounted' = Uncounted
    BY <2>2, <2>3, SameUncounted DEF SessionOf
  <2>5. CountExact'
    BY <1>1, <2>2, <2>4, Steady
  <2> QED
    BY <1>1, <2>2, <2>3, <2>5 DEF Shape, Locked, Vacant, Present
<1>5. CASE RelayRemove(g)
  <2>1. /\ relay[g].at = "session" /\ c \notin Held /\ UNCHANGED count
        /\ sessions' = [sessions EXCEPT ![c] = NoSession]
        /\ RelayGoto(g, IF sessions[c].live THEN "uncount" ELSE "wipe")
    BY <1>5 DEF RelayRemove
  <2>2. sessions' \in [Clients -> Entry] /\ ~sessions'[c].live
    BY <1>0, <2>1 DEF Shape, Entry, NoSession, NoRelay
  <2>3. Vacant'
    BY <1>0, <1>1, <1>2, <2>1, <2>2 DEF Locked, Vacant, Shape
  <2>4. Present'
    BY <1>0, <1>1, <1>2, <2>1 DEF Locked, Present, Held, Shape
  <2>5. CASE sessions[c].live
    <3>1. /\ relay' \in [Gen -> Relay] /\ Unborn' /\ relay'[g].at = "uncount"
          /\ \A h \in Gen \ {g} : relay'[h] = relay[h]
      BY <2>1, <2>5, <1>3
    <3>2. SessionOf' = SessionOf \ {c} /\ c \in SessionOf
      BY <1>0, <2>1, <2>2, <2>5 DEF SessionOf, Shape
    <3>3. Uncounted' = Uncounted \union {g} /\ g \notin Uncounted
      BY <2>1, <3>1 DEF Uncounted
    <3>4. /\ Cardinality(SessionOf') = Cardinality(SessionOf) - 1
          /\ Cardinality(Uncounted') = Cardinality(Uncounted) + 1
      BY <3>2, <3>3, Sizes, FS_AddElement, FS_RemoveElement
    <3>5. CountExact'
      BY <1>1, <2>1, <3>4, Sizes DEF CountExact, Shape
    <3> QED
      BY <1>1, <2>1, <2>2, <2>3, <2>4, <3>1, <3>5 DEF Shape, Locked
  <2>6. CASE ~sessions[c].live
    <3>1. /\ relay' \in [Gen -> Relay] /\ Unborn' /\ relay'[g].at = "wipe"
          /\ \A h \in Gen \ {g} : relay'[h] = relay[h]
      BY <2>1, <2>6, <1>3
    <3>2. /\ \A d \in Clients : sessions'[d].live = sessions[d].live
          /\ \A h \in Gen : relay'[h].at = "uncount" <=> relay[h].at = "uncount"
      BY <1>0, <2>1, <2>2, <2>6, <3>1 DEF Shape, Entry
    <3>3. SessionOf' = SessionOf /\ Uncounted' = Uncounted
      BY <3>2, SameSessions, SameUncounted
    <3>4. CountExact'
      BY <1>1, <2>1, <3>3, Steady
    <3> QED
      BY <1>1, <2>1, <2>2, <2>3, <2>4, <3>1, <3>4 DEF Shape, Locked
  <2> QED
    BY <2>5, <2>6
<1>6. CASE RelayUncount(g)
  <2>1. /\ relay[g].at = "uncount" /\ UNCHANGED sessions /\ count' = count - 1
        /\ RelayGoto(g, "wipe")
    BY <1>6 DEF RelayUncount
  <2>2. /\ relay' \in [Gen -> Relay] /\ Unborn' /\ relay'[g].at = "wipe"
        /\ \A h \in Gen \ {g} : relay'[h] = relay[h]
    BY <2>1, <1>3
  <2>3. SessionOf' = SessionOf /\ Uncounted' = Uncounted \ {g} /\ g \in Uncounted
    BY <2>1, <2>2 DEF SessionOf, Uncounted
  <2>4. Cardinality(Uncounted') = Cardinality(Uncounted) - 1
    BY <2>3, Sizes, FS_RemoveElement
  <2>5. CountExact'
    BY <1>1, <2>1, <2>3, <2>4, Sizes DEF CountExact, Shape
  <2> QED
    BY <1>1, <2>1, <2>2, <2>5 DEF Shape, Locked, Vacant, Present
<1> QED
  BY <1>4, <1>5, <1>6 DEF RelayClean

-----------------------------------------------------------------------------
\* The sweeper counts an entry out, then drops it.
LEMMA SweepKeeps == ASSUME CountInv, SweepStep PROVE CountInv'
<1> USE DEF CountInv
<1>0. UNCHANGED <<rx, nextGen>> /\ sweep \in Sweeper /\ sweep.now[1] \in Clients
  BY DEF SweepStep, SweepStart, SweepDrop, SweepContains, SweepWipe, SweepEnd, SweepVisit,
         SweepAbort, tasks, Shape, Sweeper
<1>1. CASE SweepStart \/ SweepContains \/ SweepWipe \/ SweepEnd
  <2>1. UNCHANGED <<sessions, count, relay>> /\ sweep.at # "drop"
    BY <1>1 DEF SweepStart, SweepContains, SweepWipe, SweepEnd, table, tasks
  <2>2. sweep' \in Sweeper /\ sweep'.at # "drop"
    <3>1. CASE SweepStart
      BY <1>0, <3>1 DEF SweepStart, Sweeper
    <3>2. CASE SweepContains \/ SweepWipe \/ SweepEnd
      BY <1>0, <3>2, SweepMoves DEF SweepContains, SweepWipe, SweepEnd
    <3> QED
      BY <1>1, <3>1, <3>2
  <2>3. SessionOf' = SessionOf /\ Uncounted' = Uncounted
    BY <2>1 DEF SessionOf, Uncounted
  <2>4. CountExact'
    BY <1>0, <2>1, <2>2, <2>3, Steady
  <2> QED
    BY <1>0, <2>1, <2>2, <2>4 DEF Shape, Locked, Vacant, Present, Unborn
<1>2. ASSUME NEW c \in Clients, NEW g \in 0..MaxGen, SweepAbort(c, g) PROVE CountInv'
  <2>1. UNCHANGED <<sessions, count>> /\ sweep.at = "scan"
    BY <1>2 DEF SweepAbort, table
  <2>2. sweep' \in Sweeper /\ sweep'.at = "contains"
    BY <1>0, <1>2, ProxyAssumption DEF SweepAbort, Sweeper
  <2>3. /\ relay' \in [Gen -> Relay]
        /\ \A h \in Gen : /\ relay'[h].at = "uncount" <=> relay[h].at = "uncount"
                          /\ relay[h].at = "new" => relay'[h].at = "new"
    BY <1>2, AbortKeeps DEF SweepAbort, Shape
  <2>4. SessionOf' = SessionOf /\ Uncounted' = Uncounted
    BY <2>1, <2>3, SameUncounted DEF SessionOf
  <2>5. CountExact'
    BY <1>0, <2>1, <2>2, <2>4, Steady
  <2> QED
    BY <1>0, <2>1, <2>2, <2>3, <2>5 DEF Shape, Locked, Vacant, Present, Unborn
<1>3. ASSUME NEW c \in Clients, SweepVisit(c) PROVE CountInv'
  <2>1. UNCHANGED <<sessions, relay>> /\ sweep.at = "scan" /\ sessions[c] \in Entry
    BY <1>3 DEF SweepVisit, tasks, Shape
  <2>2. SessionOf' = SessionOf /\ Uncounted' = Uncounted
    BY <2>1 DEF SessionOf, Uncounted
  <2>3. CASE sessions[c].live /\ sessions[c].stale
    <3>1. count' = count - 1
      BY <1>3, <2>3 DEF SweepVisit
    <3>2. sweep' \in Sweeper /\ sweep'.at = "drop" /\ sweep'.now = <<c, sessions[c].gen>>
      <4> DEFINE it == <<c, sessions[c].gen>>
      <4>1. it \in Clients \X Nat
        BY <2>1 DEF Entry
      <4>2. sweep' = [at |-> "drop", due |-> sweep.due \ {c}, now |-> it,
                      expired |-> sweep.expired \union {it}]
        BY <1>0, <1>3, <2>3 DEF SweepVisit, Sweeper
      <4> HIDE DEF it
      <4>3. sweep' \in Sweeper /\ sweep'.at = "drop" /\ sweep'.now = it
        BY <1>0, <4>1, <4>2 DEF Sweeper
      <4> QED
        BY <4>3 DEF it
    <3>3. CountExact'
      BY <1>0, <2>1, <2>2, <3>1, <3>2, Sizes DEF CountExact, Shape
    <3>4. Present'
      BY <2>1, <2>3, <3>2 DEF Present
    <3> QED
      BY <1>0, <2>1, <3>1, <3>2, <3>3, <3>4 DEF Shape, Locked, Vacant, Unborn
  <2>4. CASE ~(sessions[c].live /\ sessions[c].stale)
    <3>1. UNCHANGED count /\ sweep' = [sweep EXCEPT !.due = @ \ {c}]
      BY <1>3, <2>4 DEF SweepVisit
    <3>2. sweep' \in Sweeper /\ sweep'.at = "scan"
      BY <1>0, <2>1, <3>1 DEF Sweeper
    <3>3. CountExact'
      BY <1>0, <2>1, <2>2, <3>1, <3>2, Steady
    <3> QED
      BY <1>0, <2>1, <3>1, <3>2, <3>3 DEF Shape, Locked, Vacant, Present, Unborn
  <2> QED
    BY <2>3, <2>4
<1>4. CASE SweepDrop
  <2> DEFINE c == sweep.now[1]
  <2>1. /\ UNCHANGED <<count, relay>> /\ sweep.at = "drop"
        /\ sessions' = [sessions EXCEPT ![c] = NoSession]
    BY <1>4 DEF SweepDrop, tasks
  <2>2. sweep' \in Sweeper /\ sweep'.at = "scan"
    BY <1>0, <1>4, SweepMoves DEF SweepDrop
  <2>3. sessions' \in [Clients -> Entry] /\ \A d \in Clients : sessions'[d].live => sessions[d].live
    BY <1>0, <2>1 DEF Shape, Entry, NoSession, NoRelay
  <2>4. sessions[c].live
    BY <2>1 DEF Locked, Present
  <2>5. SessionOf' = SessionOf \ {c} /\ c \in SessionOf /\ Uncounted' = Uncounted
    BY <1>0, <2>1, <2>4 DEF SessionOf, Uncounted, Shape, NoSession
  <2>6. Cardinality(SessionOf') = Cardinality(SessionOf) - 1
    BY <2>5, Sizes, FS_RemoveElement
  <2>7. CountExact'
    BY <1>0, <2>1, <2>2, <2>5, <2>6, Sizes DEF CountExact, Shape
  <2>8. rx.client \in Clients
    BY DEF Shape, Rx
  <2> QED
    BY <1>0, <2>1, <2>2, <2>3, <2>7, <2>8 DEF Shape, Locked, Vacant, Present, Unborn
<1> QED
  BY <1>1, <1>2, <1>3, <1>4 DEF SweepStep

-----------------------------------------------------------------------------
\* Silence, the end of a forward and the shutdown.
LEMMA OthersKeep ==
  ASSUME CountInv,
         \/ \E c \in Clients : Age(c)
         \/ ForwardEnds \/ Shutdown \/ UNCHANGED vars
  PROVE  CountInv'
<1> USE DEF CountInv
<1>1. UNCHANGED <<count, nextGen, relay, rx, sweep>>
  BY DEF Age, ForwardEnds, Shutdown, vars, table, tasks
<1>2. /\ sessions' \in [Clients -> Entry]
      /\ \A c \in Clients : sessions'[c].live = sessions[c].live
  BY DEF Age, ForwardEnds, Shutdown, vars, table, Shape, Entry
<1>3. SessionOf' = SessionOf /\ Uncounted' = Uncounted
  BY <1>1, <1>2, SameSessions DEF Uncounted
<1>4. CountExact'
  BY <1>1, <1>3, Steady
<1>5. sweep.now[1] \in Clients /\ rx.client \in Clients
  BY DEF Shape, Sweeper, Rx
<1> QED
  BY <1>1, <1>2, <1>4, <1>5 DEF Shape, Locked, Vacant, Present, Unborn

\* An empty table counts nothing.
LEMMA CountInit == Init => CountInv
<1> SUFFICES ASSUME Init PROVE CountInv
  OBVIOUS
<1>1. Shape
  <2>1. AnyClient \in Clients
    BY ProxyAssumption DEF AnyClient
  <2> QED
    BY <2>1, IdleShape DEF Init, Shape, Entry, NoSession, NoRelay, Relay
<1>2. Locked
  BY DEF Init, Locked, Vacant, Present, Unborn, IdleRx, IdleSweep
<1>3. SessionOf = {} /\ Uncounted = {}
  BY DEF Init, SessionOf, Uncounted, NoSession
<1>4. CountExact
  BY <1>3, FS_EmptySet DEF Init, CountExact, IdleRx, IdleSweep
<1> QED
  BY <1>1, <1>2, <1>4 DEF CountInv

(***************************************************************************)
(* The session counter is exact ("Atomic counter kept in sync with         *)
(* sessions.len()", session.rs:83): for every number of clients, relays    *)
(* and sessions, through expiries, socket errors, replaced relays and the  *)
(* shutdown, it differs from the size of the table only by the operations  *)
(* under way.                                                              *)
(***************************************************************************)
THEOREM CounterExact == Spec => []CountExact
<1>1. Init => CountInv
  BY CountInit
<1>2. CountInv /\ [Next]_vars => CountInv'
  BY ReceiveKeeps, LoopKeeps, AdmitKeeps, RelayKeeps, SweepKeeps, OthersKeep DEF Next, RxStep
<1>3. CountInv => CountExact
  BY DEF CountInv
<1> QED
  BY <1>1, <1>2, <1>3, PTL DEF Spec

-----------------------------------------------------------------------------
(***************************************************************************)
(* RelayServes: which relay serves a session.  It is the one whose         *)
(* generation the session carries.  A relay is aborted through              *)
(* relay_handles, under its generation; so what must be known is that an    *)
(* abort never meets the generation of a session in the table:              *)
(*   Ahead     generations are given out in order, and the loop has one left *)
(*             for the packet it is at;                                     *)
(*   Owned     a handle is of a relay of its own client;                    *)
(*   Starting  while the loop replaces a handle, whatever is registered is  *)
(*             older than the relay it has just started;                    *)
(*   Expiring  the sweep holds generations of sessions that are gone: if the *)
(*             client has one again, it carries another.                    *)
(***************************************************************************)
Ahead ==
  /\ nextGen <= MaxGen + 1
  /\ \A c \in Clients : sessions[c].gen < nextGen /\ handles[c] < nextGen
  /\ rx.at \in {"probe", "echo", "lookup", "bind", "reserve", "insert", "spawn"} =>
       nextGen <= MaxGen

Owned == \A c \in Clients : handles[c] # NoRelay => relay[handles[c]].client = c

Starting ==
  rx.at \in {"replace", "register"} =>
    /\ nextGen - 1 \in Gen
    /\ relay[nextGen - 1].client = rx.client
    /\ \A c \in Clients : handles[c] < nextGen - 1
    /\ sessions[rx.client].live => sessions[rx.client].gen = nextGen - 1

Expiring ==
  \A p \in sweep.expired :
    /\ p[2] < nextGen
    /\ \/ sweep.at = "drop" /\ sweep.now = p
       \/ p[2] = NoRelay
       \/ ~sessions[p[1]].live
       \/ sessions[p[1]].gen # p[2]

\* The relay of generation g serves client c, if only to remove its session.
Serves(g, c) == g \in Gen /\ relay[g].client = c /\ relay[g].at \in {"run", "session"}

Served ==
  rx.at # "stopped" =>
    \A c \in Clients : sessions[c].live =>
      (rx.at = "spawn" /\ rx.client = c) \/ Serves(sessions[c].gen, c)

Handles == handles \in [Clients -> Nat]

ServeInv == Handles /\ Ahead /\ Owned /\ Starting /\ Expiring /\ Served

\* What is known of the locals and the maps.
LEMMA Known ==
  ASSUME Shape, Handles
  PROVE  /\ nextGen \in Nat /\ MaxGen \in Nat /\ rx.client \in Clients /\ sweep.now[1] \in Clients
         /\ \A c \in Clients : sessions[c].gen \in Nat /\ handles[c] \in Nat
         /\ \A p \in sweep.expired : p[1] \in Clients /\ p[2] \in Nat
         /\ \A g \in Gen : relay[g].client \in Clients /\ g \in Nat /\ g # NoRelay
BY ProxyAssumption DEF Shape, Handles, Entry, Rx, Sweeper, Relay, Gen, NoRelay

\* Steps that start no relay, admit and drop no session and abort nothing: the
\* relays that serve go on doing so, handles are at most taken away, the loop
\* does not leave the middle of a start, the sweep only forgets.
LEMMA Quiet ==
  ASSUME Shape, Shape', ServeInv, nextGen' = nextGen,
         \A c \in Clients : /\ sessions'[c].live = sessions[c].live
                            /\ sessions'[c].gen = sessions[c].gen,
         \A g \in Gen : /\ relay'[g].client = relay[g].client
                        /\ relay[g].at \in {"run", "session"} => relay'[g].at \in {"run", "session"},
         handles' \in [Clients -> Nat],
         \A c \in Clients : handles'[c] \in {handles[c], NoRelay},
         rx'.at \in {"probe", "echo", "lookup", "bind", "reserve", "insert", "spawn"} =>
           nextGen <= MaxGen,
         rx'.at \in {"replace", "register"} \/ rx.at = "spawn" =>
           rx'.at = rx.at /\ rx'.client = rx.client,
         rx.at = "stopped" => rx'.at = "stopped",
         sweep'.expired \subseteq sweep.expired,
         sweep.at = "drop" => sweep'.at = "drop" /\ sweep'.now = sweep.now
  PROVE  ServeInv'
<1> USE DEF ServeInv
<1>0. /\ nextGen \in Nat /\ MaxGen \in Nat /\ rx.client \in Clients
      /\ \A c \in Clients : sessions[c].gen \in Nat /\ handles[c] \in Nat
      /\ \A p \in sweep.expired : p[1] \in Clients /\ p[2] \in Nat
  BY Known
<1>1. Handles'
  BY DEF Handles
<1>2. Ahead'
  BY <1>0 DEF Ahead, NoRelay
<1>3. Owned'
  <2> SUFFICES ASSUME NEW c \in Clients, handles'[c] # NoRelay
               PROVE  relay'[handles'[c]].client = c
    BY DEF Owned
  <2>1. handles'[c] = handles[c] /\ relay[handles[c]].client = c
    BY DEF Owned
  <2>2. handles[c] \in Gen
    BY <1>0, <2>1 DEF Ahead, Gen, NoRelay
  <2> QED
    BY <2>1, <2>2
<1>4. Starting'
  BY <1>0 DEF Starting, NoRelay
<1>5. Expiring'
  BY <1>0 DEF Expiring
<1>6. Served'
  BY <1>0 DEF Served, Serves
<1> QED
  BY <1>1, <1>2, <1>3, <1>4, <1>5, <1>6

\* Aborting the relay registered for a client stops no relay that serves, if
\* the client's session is served by another one.
LEMMA AbortSpares ==
  ASSUME Shape, ServeInv, NEW c \in Clients, relay' = Aborted({handles[c]}),
         handles[c] # NoRelay /\ sessions[c].live => sessions[c].gen # handles[c]
  PROVE  /\ \A g \in Gen : relay'[g].client = relay[g].client
         /\ \A d \in Clients : sessions[d].live /\ Serves(sessions[d].gen, d)
              => relay'[sessions[d].gen] = relay[sessions[d].gen]
<1>1. \A g \in Gen : /\ relay'[g].client = relay[g].client
                     /\ g # handles[c] => relay'[g] = relay[g]
  BY DEF Aborted, Shape, Relay
<1>2. \A d \in Clients : sessions[d].live /\ Serves(sessions[d].gen, d) => sessions[d].gen # handles[c]
  BY Known DEF ServeInv, Owned, Serves
<1> QED
  BY <1>1, <1>2 DEF Serves

\* The loop fills the slot it has reserved: its relay is started next.
LEMMA InsertServes == ASSUME Shape, Shape', ServeInv, Insert PROVE ServeInv'
<1> USE DEF ServeInv
<1> DEFINE c == rx.client
<1>0. /\ nextGen \in Nat /\ MaxGen \in Nat /\ c \in Clients
      /\ \A d \in Clients : sessions[d].gen \in Nat /\ handles[d] \in Nat
      /\ \A p \in sweep.expired : p[1] \in Clients /\ p[2] \in Nat
  BY Known
<1>1. /\ UNCHANGED <<handles, nextGen, relay, sweep>> /\ rx.at = "insert"
      /\ sessions' = [sessions EXCEPT ![c] = [live |-> TRUE, gen |-> NoRelay, stale |-> FALSE]]
  BY DEF Insert, tasks
<1>2. rx'.at = "spawn" /\ rx'.client = c
  BY RxMoves DEF Insert, Shape
<1>3. /\ sessions'[c].gen = NoRelay
      /\ \A d \in Clients \ {c} : sessions'[d] = sessions[d]
  BY <1>0, <1>1 DEF Shape
<1>4. Handles' /\ Owned' /\ Starting'
  BY <1>1, <1>2 DEF Handles, Owned, Starting
<1>5. Ahead'
  BY <1>0, <1>1, <1>2, <1>3 DEF Ahead, NoRelay
<1>6. Expiring'
  BY <1>0, <1>1, <1>3 DEF Expiring
<1>7. Served'
  BY <1>1, <1>2, <1>3 DEF Served, Serves
<1> QED
  BY <1>4, <1>5, <1>6, <1>7

\* The session gets the relay that is started.
LEMMA SpawnServes == ASSUME Shape, Shape', ServeInv, SpawnRelay PROVE ServeInv'
<1> USE DEF ServeInv
<1> DEFINE c == rx.client
<1>0. /\ nextGen \in Nat /\ MaxGen \in Nat /\ c \in Clients
      /\ \A d \in Clients : sessions[d].gen \in Nat /\ handles[d] \in Nat
      /\ \A p \in sweep.expired : p[1] \in Clients /\ p[2] \in Nat
  BY Known
<1>1. /\ UNCHANGED <<handles, sweep>> /\ rx.at = "spawn" /\ nextGen' = nextGen + 1
      /\ sessions' = IF sessions[c].live THEN [sessions EXCEPT ![c].gen = nextGen] ELSE sessions
      /\ relay' = [relay EXCEPT ![nextGen] = [client |-> c, at |-> "run"]]
  BY DEF SpawnRelay
<1>2. rx'.at = "replace" /\ rx'.client = c
  BY RxMoves DEF SpawnRelay, Shape
<1>3. /\ sessions[c].live => sessions'[c].gen = nextGen
      /\ sessions'[c].gen \in {nextGen, sessions[c].gen}
      /\ \A d \in Clients : sessions'[d].live = sessions[d].live
      /\ \A d \in Clients : d # c => sessions'[d] = sessions[d]
  BY <1>0, <1>1 DEF Shape, Entry
<1>4. nextGen \in Gen
  <2>1. nextGen <= MaxGen
    BY <1>1 DEF Ahead
  <2>2. sessions[c].gen < nextGen
    BY <1>0 DEF Ahead
  <2> QED
    BY <1>0, <2>1, <2>2 DEF Gen
<1>5. /\ relay'[nextGen].client = c /\ relay'[nextGen].at = "run"
      /\ \A g \in Gen : g # nextGen => relay'[g] = relay[g]
  BY <1>1, <1>4 DEF Shape
<1>6. Handles'
  BY <1>1 DEF Handles
<1>7. Ahead'
  <2>1. nextGen <= MaxGen
    BY <1>1 DEF Ahead
  <2>2. \A d \in Clients : sessions'[d].gen \in {nextGen, sessions[d].gen}
    BY <1>3
  <2>3. \A d \in Clients : sessions'[d].gen < nextGen' /\ handles'[d] < nextGen'
    BY <1>0, <1>1, <2>2 DEF Ahead
  <2> QED
    BY <1>0, <1>1, <1>2, <2>1, <2>3 DEF Ahead
<1>8. Owned'
  <2> SUFFICES ASSUME NEW d \in Clients, handles[d] # NoRelay PROVE relay'[handles[d]].client = d
    BY <1>1 DEF Owned
  <2>1. handles[d] \in Gen /\ handles[d] # nextGen
    BY <1>0 DEF Ahead, Gen, NoRelay
  <2> QED
    BY <1>5, <2>1 DEF Owned
<1>9. Starting'
  BY <1>0, <1>1, <1>2, <1>3, <1>4, <1>5 DEF Starting, Ahead
<1>10. Expiring'
  <2> SUFFICES ASSUME NEW p \in sweep.expired
               PROVE  /\ p[2] < nextGen'
                      /\ \/ sweep.at = "drop" /\ sweep.now = p
                         \/ p[2] = NoRelay
                         \/ ~sessions'[p[1]].live
                         \/ sessions'[p[1]].gen # p[2]
    BY <1>1 DEF Expiring
  <2>1. p[1] \in Clients /\ p[2] \in Nat /\ p[2] < nextGen
    BY <1>0 DEF Expiring
  <2> QED
    BY <1>0, <1>1, <1>3, <2>1 DEF Expiring
<1>11. Served'
  <2> SUFFICES ASSUME NEW d \in Clients, sessions'[d].live PROVE Serves(sessions[d].gen, d)'
    BY DEF Served
  <2>1. CASE d = c
    BY <1>3, <1>4, <1>5, <2>1 DEF Serves
  <2>2. CASE d # c
    <3>1. sessions'[d] = sessions[d] /\ Serves(sessions[d].gen, d)
      BY <1>1, <1>3, <2>2 DEF Served
    <3>2. sessions[d].gen # nextGen
      BY <1>0 DEF Ahead
    <3> QED
      BY <1>5, <3>1, <3>2 DEF Serves
  <2> QED
    BY <2>1, <2>2
<1> QED
  BY <1>6, <1>7, <1>8, <1>9, <1>10, <1>11

\* The handle that is replaced is of an older relay, and the new one's is put in
\* its place.
LEMMA ReplaceServes == ASSUME Shape, Shape', ServeInv, ReplaceHandle PROVE ServeInv'
<1> USE DEF ServeInv
<1> DEFINE c == rx.client
<1>0. /\ nextGen \in Nat /\ MaxGen \in Nat /\ c \in Clients
      /\ \A d \in Clients : sessions[d].gen \in Nat /\ handles[d] \in Nat
  BY Known
<1>1. /\ UNCHANGED <<sessions, nextGen, sweep>> /\ rx.at = "replace"
      /\ relay' = Aborted({handles[c]})
      /\ handles' = [handles EXCEPT ![c] = NoRelay]
  BY DEF ReplaceHandle, table
<1>2. rx'.at = "register" /\ rx'.client = c
  BY RxMoves DEF ReplaceHandle, Shape
<1>3. /\ \A g \in Gen : relay'[g].client = relay[g].client
      /\ \A d \in Clients : sessions[d].live /\ Serves(sessions[d].gen, d)
           => relay'[sessions[d].gen] = relay[sessions[d].gen]
  <2>1. sessions[c].live => sessions[c].gen # handles[c]
    BY <1>0, <1>1 DEF Starting
  <2> QED
    BY <1>0, <1>1, <2>1, AbortSpares
<1>4. Handles' /\ \A d \in Clients : handles'[d] \in {handles[d], NoRelay}
  BY <1>0, <1>1 DEF Handles, NoRelay
<1>5. Ahead'
  BY <1>0, <1>1, <1>2, <1>4 DEF Ahead, NoRelay
<1>6. Owned'
  <2> SUFFICES ASSUME NEW d \in Clients, handles'[d] # NoRelay
               PROVE  relay'[handles'[d]].client = d
    BY DEF Owned
  <2>1. handles'[d] = handles[d]
    BY <1>4
  <2>2. handles[d] \in Gen
    BY <1>0, <2>1 DEF Ahead, Gen, NoRelay
  <2> QED
    BY <1>3, <2>1, <2>2 DEF Owned
<1>7. Starting'
  <2>1. /\ nextGen - 1 \in Gen /\ relay[nextGen - 1].client = c
        /\ \A d \in Clients : handles[d] < nextGen - 1
        /\ sessions[c].live => sessions[c].gen = nextGen - 1
    BY <1>1 DEF Starting
  <2>2. relay'[nextGen - 1].client = c
    BY <1>3, <2>1
  <2>3. \A d \in Clients : handles'[d] < nextGen - 1
    BY <1>0, <1>4, <2>1 DEF NoRelay, Gen
  <2> QED
    BY <1>1, <1>2, <2>1, <2>2, <2>3 DEF Starting
<1>8. Expiring'
  BY <1>1 DEF Expiring
<1>9. Served'
  BY <1>1, <1>2, <1>3 DEF Served, Serves
<1> QED
  BY <1>4, <1>5, <1>6, <1>7, <1>8, <1>9

LEMMA RegisterServes == ASSUME Shape, Shape', ServeInv, RegisterHandle PROVE ServeInv'
<1> USE DEF ServeInv
<1> DEFINE c == rx.client
<1>0. /\ nextGen \in Nat /\ MaxGen \in Nat /\ c \in Clients
      /\ \A d \in Clients : sessions[d].gen \in Nat /\ handles[d] \in Nat
  BY Known
<1>1. /\ UNCHANGED <<sessions, nextGen, sweep, relay>> /\ rx.at = "register"
      /\ handles' = [handles EXCEPT ![c] = nextGen - 1]
  BY DEF RegisterHandle, table
<1>2. rx'.at = "settle"
  BY RxMoves DEF RegisterHandle, Shape
<1>3. nextGen - 1 \in Gen /\ nextGen - 1 \in Nat
  BY <1>0, <1>1 DEF Starting, Gen
<1>4. /\ Handles' /\ handles'[c] = nextGen - 1
      /\ \A d \in Clients : d # c => handles'[d] = handles[d]
  BY <1>0, <1>1, <1>3 DEF Handles
<1>5. Ahead'
  BY <1>0, <1>1, <1>2, <1>3, <1>4 DEF Ahead
<1>6. Owned'
  BY <1>1, <1>4 DEF Owned, Starting
<1>7. Starting' /\ Expiring'
  BY <1>1, <1>2 DEF Starting, Expiring
<1>8. Served'
  BY <1>1, <1>2 DEF Served, Serves
<1> QED
  BY <1>4, <1>5, <1>6, <1>7, <1>8

\* After the shutdown nobody is served.
LEMMA StopServes == ASSUME Shape, Shape', ServeInv, Stop PROVE ServeInv'
<1> USE DEF ServeInv
<1>0. nextGen \in Nat /\ \A d \in Clients : sessions[d].gen \in Nat
  BY Known
<1>1. /\ UNCHANGED <<sessions, nextGen>>
      /\ handles' = [c \in Clients |-> NoRelay]
      /\ sweep'.expired = sweep.expired /\ sweep'.now = sweep.now
      /\ sweep.at = "drop" => sweep' = sweep
  BY DEF Stop, table, Shape, Sweeper
<1>2. rx'.at = "stopped"
  BY RxMoves DEF Stop, Shape
<1>3. Handles' /\ Ahead' /\ Owned'
  BY <1>0, <1>1, <1>2 DEF Handles, Ahead, Owned, NoRelay
<1>4. Starting' /\ Served'
  BY <1>2 DEF Starting, Served
<1>5. Expiring'
  BY <1>1 DEF Expiring
<1> QED
  BY <1>3, <1>4, <1>5

\* Whoever removes a session leaves the others their relays.
LEMMA GoneServes ==
  ASSUME Shape, Shape', ServeInv, NEW c \in Clients,
         sessions' = [sessions EXCEPT ![c] = NoSession],
         UNCHANGED <<handles, nextGen, rx>>,
         \A g \in Gen : /\ relay'[g].client = relay[g].client
                        /\ relay[g].client # c => relay'[g] = relay[g],
         sweep'.expired = sweep.expired,
         sweep.at = "drop" => sweep.now[1] = c \/ sweep' = sweep
  PROVE  ServeInv'
<1> USE DEF ServeInv
<1>0. /\ nextGen \in Nat /\ rx.client \in Clients /\ MaxGen \in Nat
      /\ \A d \in Clients : sessions[d].gen \in Nat /\ handles[d] \in Nat
      /\ \A p \in sweep.expired : p[1] \in Clients /\ p[2] \in Nat
  BY Known
<1>1. /\ ~sessions'[c].live /\ sessions'[c].gen = NoRelay
      /\ \A d \in Clients : d # c => sessions'[d] = sessions[d]
  BY DEF Shape, NoSession
<1>2. Handles'
  BY DEF Handles
<1>3. Ahead'
  BY <1>0, <1>1 DEF Ahead, NoRelay
<1>4. Owned'
  <2> SUFFICES ASSUME NEW d \in Clients, handles[d] # NoRelay PROVE relay'[handles[d]].client = d
    BY DEF Owned
  <2>1. handles[d] \in Gen
    BY <1>0 DEF Ahead, Gen, NoRelay
  <2> QED
    BY <2>1 DEF Owned
<1>5. Starting'
  BY <1>0, <1>1 DEF Starting
<1>6. Expiring'
  BY <1>0, <1>1 DEF Expiring
<1>7. Served'
  <2> SUFFICES ASSUME rx.at # "stopped", NEW d \in Clients, sessions'[d].live
               PROVE  (rx.at = "spawn" /\ rx.client = d) \/ Serves(sessions[d].gen, d)'
    BY DEF Served
  <2>1. d # c /\ sessions'[d] = sessions[d]
    BY <1>1
  <2> QED
    BY <2>1 DEF Served, Serves
<1> QED
  BY <1>2, <1>3, <1>4, <1>5, <1>6, <1>7

\* Steps of the loop.
LEMMA LoopServes == ASSUME Shape, Shape', ServeInv, RxStep PROVE ServeInv'
<1> DEFINE Before == {"probe", "echo", "lookup", "bind", "reserve", "insert", "spawn"}
<1>1. CASE (\E token \in BOOLEAN : Probe(token)) \/ Echo \/ Lookup \/ Bind \/ Reserve \/ Reject
           \/ DropFinished
  <2>1. UNCHANGED <<nextGen, relay, sweep>>
    BY <1>1 DEF Probe, Echo, Lookup, Bind, Reserve, Reject, DropFinished, tasks
  <2>2. PICK at \in {"idle", "echo", "lookup", "bind", "reserve", "insert", "reject"} :
          /\ RxGoto(at)
          /\ at \in Before => rx.at \in {"probe", "echo", "lookup", "bind", "reserve"}
          /\ rx.at \notin {"replace", "register", "spawn", "stopped"}
    BY <1>1 DEF Probe, Echo, Lookup, Bind, Reserve, Reject, DropFinished
  <2>3. rx'.at = at
    BY <2>2, RxMoves DEF Shape
  <2>4. \A c \in Clients : /\ sessions'[c].live = sessions[c].live
                           /\ sessions'[c].gen = sessions[c].gen
    <3>1. CASE Lookup
      BY <3>1 DEF Lookup, Shape, Entry, Rx
    <3>2. CASE ~Lookup
      BY <1>1, <3>2 DEF Probe, Echo, Bind, Reserve, Reject, DropFinished, table
    <3> QED
      BY <3>1, <3>2
  <2>5. handles' \in [Clients -> Nat] /\ \A c \in Clients : handles'[c] \in {handles[c], NoRelay}
    <3>1. CASE DropFinished
      BY <3>1 DEF DropFinished, ServeInv, Handles, NoRelay
    <3>2. CASE ~DropFinished
      BY <1>1, <3>2 DEF Probe, Echo, Lookup, Bind, Reserve, Reject, tasks, ServeInv, Handles
    <3> QED
      BY <3>1, <3>2
  <2>6. rx'.at \in Before => nextGen <= MaxGen
    BY <2>2, <2>3 DEF ServeInv, Ahead
  <2> QED
    BY <2>1, <2>2, <2>3, <2>4, <2>5, <2>6, Quiet
<1>2. CASE Insert \/ SpawnRelay \/ ReplaceHandle \/ RegisterHandle \/ Stop
  BY <1>2, InsertServes, SpawnServes, ReplaceServes, RegisterServes, StopServes
<1> QED
  BY <1>1, <1>2 DEF RxStep

\* A relay that fails removes its client's session, whichever it is.
LEMMA RelayServesOn ==
  ASSUME Shape, Shape', ServeInv, NEW g \in Gen, RelayError(g) \/ RelayClean(g) PROVE ServeInv'
<1>0. /\ relay[g].client \in Clients /\ relay \in [Gen -> Relay]
      /\ UNCHANGED <<rx, sweep, nextGen>>
  BY DEF Shape, Relay, RelayError, RelayClean, RelayRemove, RelayUncount, RelayWipe, RelayEnd
<1>1. ASSUME NEW at, RelayGoto(g, at)
      PROVE  /\ relay'[g].client = relay[g].client /\ relay'[g].at = at
             /\ \A h \in Gen : h # g => relay'[h] = relay[h]
  BY <1>0, <1>1 DEF RelayGoto, Relay
<1>2. CASE RelayRemove(g)
  <2> DEFINE c == relay[g].client
  <2>1. /\ sessions' = [sessions EXCEPT ![c] = NoSession] /\ UNCHANGED handles
        /\ c \notin Held
        /\ RelayGoto(g, IF sessions[c].live THEN "uncount" ELSE "wipe")
    BY <1>2 DEF RelayRemove
  <2>2. \A h \in Gen : /\ relay'[h].client = relay[h].client
                       /\ relay[h].client # c => relay'[h] = relay[h]
    BY <1>1, <2>1
  <2> QED
    BY <1>0, <2>1, <2>2, GoneServes
<1>3. CASE RelayError(g) \/ RelayUncount(g) \/ RelayWipe(g) \/ RelayEnd(g)
  <2>1. PICK at : RelayGoto(g, at) /\ (relay[g].at \in {"run", "session"} => at = "session")
    BY <1>3 DEF RelayError, RelayUncount, RelayWipe, RelayEnd
  <2>2. \A h \in Gen : /\ relay'[h].client = relay[h].client
                       /\ relay[h].at \in {"run", "session"} => relay'[h].at \in {"run", "session"}
    BY <1>1, <2>1
  <2>3. UNCHANGED sessions
    BY <1>3 DEF RelayError, RelayUncount, RelayWipe, RelayEnd, table
  <2>4. handles' \in [Clients -> Nat] /\ \A c \in Clients : handles'[c] \in {handles[c], NoRelay}
    <3>1. CASE RelayEnd(g)
      BY <3>1 DEF RelayEnd, ServeInv, Handles, NoRelay
    <3>2. CASE ~RelayEnd(g)
      BY <1>3, <3>2 DEF RelayError, RelayUncount, RelayWipe, ServeInv, Handles
    <3> QED
      BY <3>1, <3>2
  <2>5. rx.at \in {"probe", "echo", "lookup", "bind", "reserve", "insert", "spawn"} =>
          nextGen <= MaxGen
    BY DEF ServeInv, Ahead
  <2> QED
    BY <1>0, <2>2, <2>3, <2>4, <2>5, Quiet
<1> QED
  BY <1>2, <1>3 DEF RelayClean

\* The sweep aborts the relay of the session it has dropped, never of one that
\* came after it.
LEMMA SweepServes == ASSUME Shape, Shape', ServeInv, SweepStep PROVE ServeInv'
<1>0. /\ nextGen \in Nat /\ MaxGen \in Nat /\ rx.client \in Clients /\ sweep.now[1] \in Clients
      /\ \A d \in Clients : sessions[d].gen \in Nat /\ handles[d] \in Nat
      /\ \A p \in sweep.expired : p[1] \in Clients /\ p[2] \in Nat
      /\ UNCHANGED <<rx, nextGen>> /\ sweep \in Sweeper
  BY Known DEF ServeInv, SweepStep, SweepStart, SweepDrop, SweepContains, SweepWipe, SweepEnd,
               SweepVisit, SweepAbort, tasks, Shape
<1>1. rx.at \in {"probe", "echo", "lookup", "bind", "reserve", "insert", "spawn"} =>
        nextGen <= MaxGen
  BY DEF ServeInv, Ahead
<1>2. CASE SweepStart \/ SweepContains \/ SweepWipe \/ SweepEnd
  <2>1. UNCHANGED <<sessions, relay, handles>> /\ sweep.at # "drop"
    BY <1>2 DEF SweepStart, SweepContains, SweepWipe, SweepEnd, table, tasks
  <2>2. sweep'.expired \subseteq sweep.expired
    BY <1>0, <1>2 DEF SweepStart, SweepContains, SweepWipe, SweepEnd, SweepGoto, Sweeper
  <2> QED
    BY <1>0, <1>1, <2>1, <2>2, Quiet DEF ServeInv, Handles
<1>3. ASSUME NEW c \in Clients, SweepVisit(c) PROVE ServeInv'
  <2>1. UNCHANGED <<sessions, relay, handles>> /\ sweep.at = "scan"
    BY <1>3 DEF SweepVisit, tasks
  <2>2. CASE ~(sessions[c].live /\ sessions[c].stale)
    <3>1. sweep'.expired = sweep.expired
      BY <1>0, <1>3, <2>2 DEF SweepVisit, Sweeper
    <3> QED
      BY <1>0, <1>1, <2>1, <3>1, Quiet DEF ServeInv, Handles
  <2>3. CASE sessions[c].live /\ sessions[c].stale
    <3> DEFINE it == <<c, sessions[c].gen>>
    <3>1. sweep'.at = "drop" /\ sweep'.now = it /\ sweep'.expired = sweep.expired \union {it}
      <4>1. sweep' = [sweep EXCEPT !.at = "drop", !.due = @ \ {c}, !.now = it,
                                   !.expired = @ \union {it}]
        BY <1>3, <2>3 DEF SweepVisit
      <4> HIDE DEF it
      <4> QED
        BY <1>0, <4>1 DEF Sweeper
    <3>2. it[1] = c /\ it[2] = sessions[c].gen /\ it[2] < nextGen
      BY DEF ServeInv, Ahead
    <3> HIDE DEF it
    <3>3. Expiring'
      <4> SUFFICES ASSUME NEW p \in sweep'.expired
                   PROVE  /\ p[2] < nextGen
                          /\ \/ sweep'.at = "drop" /\ sweep'.now = p
                             \/ p[2] = NoRelay
                             \/ ~sessions[p[1]].live
                             \/ sessions[p[1]].gen # p[2]
        BY <1>0, <2>1 DEF Expiring
      <4> QED
        BY <2>1, <3>1, <3>2 DEF ServeInv, Expiring
    <3> QED
      BY <1>0, <2>1, <3>3 DEF ServeInv, Handles, Ahead, Owned, Starting, Served, Serves
  <2> QED
    BY <2>2, <2>3
<1>4. CASE SweepDrop
  <2>1. /\ UNCHANGED <<relay, handles>> /\ sweep.at = "drop"
        /\ sessions' = [sessions EXCEPT ![sweep.now[1]] = NoSession]
        /\ sweep'.expired = sweep.expired
    BY <1>0, <1>4 DEF SweepDrop, tasks, SweepGoto, Sweeper
  <2> QED
    BY <1>0, <2>1, GoneServes
<1>5. ASSUME NEW c \in Clients, NEW g \in 0..MaxGen, SweepAbort(c, g) PROVE ServeInv'
  <2>1. /\ UNCHANGED sessions /\ sweep.at = "scan" /\ <<c, g>> \in sweep.expired
        /\ sweep'.expired = sweep.expired \ {<<c, g>>}
    BY <1>0, <1>5 DEF SweepAbort, table, Sweeper
  <2>2. CASE ~(handles[c] = g /\ g # NoRelay)
    <3>1. UNCHANGED <<relay, handles>>
      BY <1>5, <2>2 DEF SweepAbort
    <3> QED
      BY <1>0, <1>1, <2>1, <3>1, Quiet DEF ServeInv, Handles
  <2>3. CASE handles[c] = g /\ g # NoRelay
    <3>1. /\ relay' = Aborted({handles[c]})
          /\ handles' = [handles EXCEPT ![c] = NoRelay]
      BY <1>5, <2>3 DEF SweepAbort
    <3>2. sessions[c].live => sessions[c].gen # handles[c]
      <4> DEFINE p == <<c, g>>
      <4>1. p[1] = c /\ p[2] = g /\ p \in sweep.expired
        BY <2>1
      <4> QED
        BY <2>1, <2>3, <4>1 DEF ServeInv, Expiring
    <3>3. /\ \A h \in Gen : relay'[h].client = relay[h].client
          /\ \A d \in Clients : sessions[d].live /\ Serves(sessions[d].gen, d)
               => relay'[sessions[d].gen] = relay[sessions[d].gen]
      BY <3>1, <3>2, AbortSpares
    <3>4. Handles' /\ \A d \in Clients : handles'[d] \in {handles[d], NoRelay}
      BY <1>0, <3>1 DEF ServeInv, Handles, NoRelay
    <3>5. Ahead'
      BY <1>0, <2>1, <3>4 DEF ServeInv, Ahead, NoRelay
    <3>6. Owned'
      <4> SUFFICES ASSUME NEW d \in Clients, handles'[d] # NoRelay
                   PROVE  relay'[handles'[d]].client = d
        BY DEF Owned
      <4>1. handles'[d] = handles[d]
        BY <3>4
      <4>2. handles[d] \in Gen
        BY <1>0, <4>1 DEF ServeInv, Ahead, Gen, NoRelay
      <4> QED
        BY <3>3, <4>1, <4>2 DEF ServeInv, Owned
    <3>7. Starting'
      BY <1>0, <2>1, <3>3, <3>4 DEF ServeInv, Starting, NoRelay, Gen
    <3>8. Expiring'
      BY <1>0, <2>1 DEF ServeInv, Expiring
    <3>9. Served'
      BY <1>0, <2>1, <3>3 DEF ServeInv, Served, Serves
    <3> QED
      BY <3>4, <3>5, <3>6, <3>7, <3>8, <3>9 DEF ServeInv
  <2> QED
    BY <2>2, <2>3
<1> QED
  BY <1>2, <1>3, <1>4, <1>5 DEF SweepStep

\* A packet arrives, a client falls silent, a forward ends, the shutdown.
LEMMA OthersServe ==
  ASSUME Shape, Shape', ServeInv,
         \/ \E c \in Clients, packet \in Packet : Receive(c, packet)
         \/ \E c \in Clients : Age(c)
         \/ ForwardEnds \/ Shutdown \/ UNCHANGED vars
  PROVE  ServeInv'
<1>1. UNCHANGED <<nextGen, relay, handles, sweep>>
  BY DEF Receive, Age, ForwardEnds, Shutdown, vars, tasks
<1>2. \A c \in Clients : /\ sessions'[c].live = sessions[c].live
                         /\ sessions'[c].gen = sessions[c].gen
  BY DEF Receive, Age, ForwardEnds, Shutdown, vars, table, Shape, Entry
<1>3. \/ rx' = rx
      \/ rx.at = "idle" /\ rx'.at \in {"echo", "probe"} /\ nextGen <= MaxGen
  BY DEF Receive, Age, ForwardEnds, Shutdown, vars
<1>4. rx.at \in {"probe", "echo", "lookup", "bind", "reserve", "insert", "spawn"} =>
        nextGen <= MaxGen
  BY DEF ServeInv, Ahead
<1> QED
  BY <1>1, <1>2, <1>3, <1>4, Quiet DEF ServeInv, Handles

\* Before the first packet there is nobody to serve.
LEMMA ServeInit == Init => ServeInv
BY ProxyAssumption
   DEF Init, ServeInv, Handles, Ahead, Owned, Starting, Expiring, Served, IdleRx, IdleSweep,
       NoSession, NoRelay

\* Both invariants, step by step.
LEMMA SessionStep ==
  ASSUME CountInv, ServeInv, [Next]_vars PROVE CountInv' /\ ServeInv'
<1>1. CountInv'
  BY ReceiveKeeps, LoopKeeps, AdmitKeeps, RelayKeeps, SweepKeeps, OthersKeep DEF Next, RxStep
<1>2. Shape /\ Shape'
  BY <1>1 DEF CountInv
<1>3. ServeInv'
  BY <1>2, LoopServes, RelayServesOn, SweepServes, OthersServe DEF Next
<1> QED
  BY <1>1, <1>3

(***************************************************************************)
(* A session never loses its relay ("it can never lose its relay",         *)
(* proxy.rs:1389): for every number of clients, sessions and relays, one    *)
(* that is in the table - re-created during a sweep, after an error or a    *)
(* replacement - has a relay that runs or is about to remove it, until the  *)
(* proxy is shut down.                                                      *)
(***************************************************************************)
THEOREM RelayServesEver == Spec => []RelayServes
<1>1. Init => CountInv /\ ServeInv
  BY CountInit, ServeInit
<1>2. CountInv /\ ServeInv /\ [Next]_vars => (CountInv /\ ServeInv)'
  BY SessionStep
<1>3. ServeInv => RelayServes
  BY DEF ServeInv, Served, Serves, RelayServes, SessionOf
<1> QED
  BY <1>1, <1>2, <1>3, PTL DEF Spec

-----------------------------------------------------------------------------
(***************************************************************************)
(* The bound of the table.  The counter itself never passes max_sessions,  *)
(* for only the loop counts up and it has looked; and the counter is exact. *)
(***************************************************************************)
LEMMA CountBounded ==
  ASSUME CountInv, count <= MaxSessions, [Next]_vars PROVE count' <= MaxSessions
<1>0. count \in Int /\ MaxSessions \in Nat
  BY ProxyAssumption DEF CountInv, Shape
<1>1. CASE RxStep
  <2>1. CASE Reserve
    <3>1. count' = count \/ (~(count >= MaxSessions) /\ count' = count + 1)
      BY <2>1 DEF Reserve
    <3> QED
      BY <1>0, <3>1
  <2>2. CASE ~Reserve
    BY <1>1, <2>2 DEF RxStep, Probe, Echo, Lookup, Bind, Insert, SpawnRelay, ReplaceHandle,
                      RegisterHandle, DropFinished, Reject, Stop, table
  <2> QED
    BY <2>1, <2>2
<1>2. CASE SweepStep
  <2>1. count' = count \/ count' = count - 1
    BY <1>2 DEF SweepStep, SweepStart, SweepDrop, SweepContains, SweepWipe, SweepEnd, SweepVisit,
                SweepAbort, table
  <2> QED
    BY <1>0, <2>1
<1>3. ASSUME NEW g \in Gen, RelayError(g) \/ RelayClean(g) PROVE count' <= MaxSessions
  BY <1>0, <1>3 DEF RelayError, RelayClean, RelayRemove, RelayUncount, RelayWipe, RelayEnd, table
<1> QED
  BY <1>1, <1>2, <1>3 DEF Next, Receive, Age, ForwardEnds, Shutdown, vars, table

\* max_sessions (session.rs, get_or_create) bounds the table at every moment, up
\* to the one entry the sweeper has counted out and not yet erased.
THEOREM SessionsBoundedEver == Spec => []SessionsBounded
<1>1. Init => CountInv /\ count <= MaxSessions
  BY CountInit, ProxyAssumption DEF Init
<1>2. CountInv /\ count <= MaxSessions /\ [Next]_vars => (CountInv /\ count <= MaxSessions)'
  BY ReceiveKeeps, LoopKeeps, AdmitKeeps, RelayKeeps, SweepKeeps, OthersKeep, CountBounded
  DEF Next, RxStep
<1>3. CountInv /\ count <= MaxSessions => SessionsBounded
  BY Sizes, ProxyAssumption DEF CountInv, Shape, CountExact, SessionsBounded
<1> QED
  BY <1>1, <1>2, <1>3, PTL DEF Spec

-----------------------------------------------------------------------------
(***************************************************************************)
(* Running relays are registered.  While the loop replaces a handle, the   *)
(* client's older relay has been aborted and no handle of it is left.      *)
(***************************************************************************)
Registered ==
  RelayRegistered /\ (rx.at = "register" => handles[rx.client] = NoRelay)

\* Steps that start no relay, and take away only handles of relays that have
\* ended.
LEMMA RegisteredQuiet ==
  ASSUME Registered, nextGen' = nextGen,
         \A g \in Gen : relay'[g].at = "run" =>
           relay[g].at = "run" /\ relay'[g].client = relay[g].client,
         \A c \in Clients : \/ handles'[c] = handles[c]
                            \/ /\ handles'[c] = NoRelay
                               /\ \A g \in Gen : g = handles[c] => relay'[g].at # "run",
         \A g \in Gen : relay[g].client \in Clients, rx.client \in Clients,
         rx.at \in {"replace", "register"} => rx' = rx,
         rx'.at = "register" => rx' = rx
  PROVE  Registered'
<1>1. ASSUME NEW g \in Gen, relay'[g].at = "run"
      PROVE  \/ handles'[relay'[g].client] = g
             \/ rx'.at \in {"replace", "register"} /\ g = nextGen - 1
  <2>1. relay[g].at = "run" /\ relay'[g].client = relay[g].client
    BY <1>1
  <2>2. CASE handles[relay[g].client] = g
    BY <1>1, <2>1, <2>2
  <2>3. CASE rx.at \in {"replace", "register"} /\ g = nextGen - 1
    BY <2>3
  <2> QED
    BY <2>1, <2>2, <2>3 DEF Registered, RelayRegistered
<1>2. rx'.at = "register" => handles'[rx'.client] = NoRelay
  BY DEF Registered
<1> QED
  BY <1>1, <1>2 DEF Registered, RelayRegistered

\* The loop: a relay is started, its predecessor aborted, its handle entered.
LEMMA LoopRegisters == ASSUME CountInv, ServeInv, Registered, RxStep PROVE Registered'
<1>0. /\ nextGen \in Nat /\ rx.client \in Clients /\ rx \in Rx /\ relay \in [Gen -> Relay]
      /\ handles \in [Clients -> Nat]
      /\ \A g \in Gen : relay[g].client \in Clients /\ g \in Nat /\ g # NoRelay
  BY Known DEF CountInv, ServeInv, Shape, Handles
<1>1. CASE (\E token \in BOOLEAN : Probe(token)) \/ Echo \/ Lookup \/ Bind \/ Reserve \/ Insert
           \/ Reject \/ DropFinished
  <2>1. UNCHANGED <<nextGen, relay>> /\ rx.at \notin {"replace", "register"}
    BY <1>1 DEF Probe, Echo, Lookup, Bind, Reserve, Insert, Reject, DropFinished, tasks
  <2>2. \E at \in {"idle", "echo", "lookup", "bind", "reserve", "insert", "reject", "spawn"} : RxGoto(at)
    BY <1>1 DEF Probe, Echo, Lookup, Bind, Reserve, Insert, Reject, DropFinished
  <2>3. rx'.at # "register"
    BY <1>0, <2>2, RxMoves
  <2>4. \A c \in Clients : \/ handles'[c] = handles[c]
                           \/ handles'[c] = NoRelay
                              /\ \A g \in Gen : g = handles[c] => relay'[g].at # "run"
    <3>1. CASE DropFinished
      BY <1>0, <2>1, <3>1 DEF DropFinished
    <3>2. CASE ~DropFinished
      BY <1>1, <3>2 DEF Probe, Echo, Lookup, Bind, Reserve, Insert, Reject, tasks
    <3> QED
      BY <3>1, <3>2
  <2> QED
    BY <1>0, <2>1, <2>3, <2>4, RegisteredQuiet
<1>2. CASE SpawnRelay
  <2>1. /\ rx.at = "spawn" /\ nextGen' = nextGen + 1 /\ UNCHANGED handles /\ RxGoto("replace")
        /\ relay' = [relay EXCEPT ![nextGen] = [client |-> rx.client, at |-> "run"]]
    BY <1>2 DEF SpawnRelay
  <2>2. rx'.at = "replace"
    BY <1>0, <2>1, RxMoves
  <2>3. ASSUME NEW g \in Gen, g # nextGen, relay'[g].at = "run"
        PROVE  handles[relay'[g].client] = g
    BY <1>0, <2>1, <2>3 DEF Registered, RelayRegistered
  <2> QED
    BY <1>0, <2>1, <2>2, <2>3 DEF Registered, RelayRegistered
<1>3. CASE ReplaceHandle
  <2>1. /\ rx.at = "replace" /\ UNCHANGED nextGen /\ RxGoto("register")
        /\ relay' = Aborted({handles[rx.client]})
        /\ handles' = [handles EXCEPT ![rx.client] = NoRelay]
    BY <1>3 DEF ReplaceHandle
  <2>2. rx'.at = "register" /\ rx'.client = rx.client
    BY <1>0, <2>1, RxMoves
  <2>3. ASSUME NEW g \in Gen, relay'[g].at = "run"
        PROVE  relay' [g] = relay[g] /\ g # handles[rx.client]
    BY <1>0, <2>1, <2>3 DEF Aborted, Relay
  <2>4. ASSUME NEW g \in Gen, relay'[g].at = "run", g # nextGen - 1
        PROVE  handles'[relay'[g].client] = g
    <3>1. relay[g].at = "run" /\ relay'[g].client = relay[g].client /\ g # handles[rx.client]
      BY <2>3, <2>4
    <3>2. handles[relay[g].client] = g
      BY <2>4, <3>1 DEF Registered, RelayRegistered
    <3> QED
      BY <1>0, <2>1, <3>1, <3>2
  <2>5. handles'[rx'.client] = NoRelay
    BY <1>0, <2>1, <2>2
  <2> QED
    BY <2>1, <2>2, <2>4, <2>5 DEF Registered, RelayRegistered
<1>4. CASE RegisterHandle
  <2>1. /\ rx.at = "register" /\ UNCHANGED <<nextGen, relay>> /\ RxGoto("settle")
        /\ handles' = [handles EXCEPT ![rx.client] = nextGen - 1]
    BY <1>4 DEF RegisterHandle
  <2>2. rx'.at = "settle"
    BY <1>0, <2>1, RxMoves
  <2>3. /\ handles[rx.client] = NoRelay /\ nextGen - 1 \in Gen
        /\ relay[nextGen - 1].client = rx.client
    BY <2>1 DEF Registered, ServeInv, Starting
  <2>4. ASSUME NEW g \in Gen, relay[g].at = "run" PROVE handles'[relay[g].client] = g
    <3>1. CASE g = nextGen - 1
      BY <1>0, <2>1, <2>3, <3>1
    <3>2. CASE g # nextGen - 1
      <4>1. handles[relay[g].client] = g
        BY <2>4, <3>2 DEF Registered, RelayRegistered
      <4> QED
        BY <1>0, <2>1, <2>3, <4>1
    <3> QED
      BY <3>1, <3>2
  <2> QED
    BY <2>1, <2>2, <2>4 DEF Registered, RelayRegistered
<1>5. CASE Stop
  <2>1. rx.at = "idle" /\ RxGoto("stopped") /\ relay' = Aborted({handles[c] : c \in Clients})
    BY <1>5 DEF Stop
  <2>2. rx'.at = "stopped"
    BY <1>0, <2>1, RxMoves
  <2>3. ASSUME NEW g \in Gen PROVE relay'[g].at # "run"
    <3>1. relay[g].at = "run" => g \in {handles[c] : c \in Clients}
      BY <1>0, <2>1 DEF Registered, RelayRegistered
    <3> QED
      BY <1>0, <2>1, <3>1 DEF Aborted, Relay
  <2> QED
    BY <2>2, <2>3 DEF Registered, RelayRegistered
<1> QED
  BY <1>1, <1>2, <1>3, <1>4, <1>5 DEF RxStep

\* Relays that fail, and the sweep: a handle goes with the relay it is of.
LEMMA OthersRegister ==
  ASSUME CountInv, ServeInv, Registered,
         \/ \E g \in Gen : RelayError(g) \/ RelayClean(g)
         \/ SweepStep
         \/ \E c \in Clients, packet \in Packet : Receive(c, packet)
         \/ \E c \in Clients : Age(c)
         \/ ForwardEnds \/ Shutdown \/ UNCHANGED vars
  PROVE  Registered'
<1>0. /\ nextGen \in Nat /\ rx.client \in Clients /\ relay \in [Gen -> Relay]
      /\ handles \in [Clients -> Nat]
      /\ \A g \in Gen : relay[g].client \in Clients /\ g \in Nat /\ g # NoRelay
  BY Known DEF CountInv, ServeInv, Shape, Handles
<1>1. ASSUME NEW g \in Gen, RelayError(g) \/ RelayClean(g) PROVE Registered'
  <2>1. /\ UNCHANGED <<nextGen, rx>>
        /\ \E at \in {"session", "uncount", "wipe", "handle", "done"} : RelayGoto(g, at)
    BY <1>1 DEF RelayError, RelayClean, RelayRemove, RelayUncount, RelayWipe, RelayEnd
  <2>2. /\ \A h \in Gen \ {g} : relay'[h] = relay[h]
        /\ relay'[g].at # "run"
    BY <1>0, <2>1 DEF RelayGoto, Relay
  <2>3. \A c \in Clients : handles'[c] = handles[c] \/ (handles'[c] = NoRelay /\ handles[c] = g)
    <3>1. CASE RelayEnd(g)
      BY <1>0, <3>1 DEF RelayEnd
    <3>2. CASE ~RelayEnd(g)
      BY <1>1, <3>2 DEF RelayError, RelayClean, RelayRemove, RelayUncount, RelayWipe
    <3> QED
      BY <3>1, <3>2
  <2> QED
    BY <1>0, <2>1, <2>2, <2>3, RegisteredQuiet
<1>2. CASE SweepStep
  <2>1. UNCHANGED <<nextGen, rx>>
    BY <1>2 DEF SweepStep, SweepStart, SweepDrop, SweepContains, SweepWipe, SweepEnd, SweepVisit,
                SweepAbort, tasks
  <2>2. CASE UNCHANGED <<relay, handles>>
    BY <1>0, <2>1, <2>2, RegisteredQuiet
  <2>3. ASSUME NEW c \in Clients, NEW g \in 0..MaxGen, handles[c] = g, relay' = Aborted({g}),
               handles' = [handles EXCEPT ![c] = NoRelay]
        PROVE  Registered'
    <3>1. \A h \in Gen : relay'[h].at = "run" => relay'[h] = relay[h] /\ h # g
      BY <1>0, <2>3 DEF Aborted, Relay
    <3>2. \A d \in Clients : handles'[d] = handles[d] \/ (handles'[d] = NoRelay /\ handles[d] = g)
      BY <1>0, <2>3
    <3> QED
      BY <1>0, <2>1, <3>1, <3>2, RegisteredQuiet
  <2> QED
    BY <1>2, <2>2, <2>3 DEF SweepStep, SweepStart, SweepDrop, SweepContains, SweepWipe, SweepEnd,
                            SweepVisit, SweepAbort, tasks
<1>3. ASSUME NEW c \in Clients, NEW packet \in Packet, Receive(c, packet) PROVE Registered'
  <2>1. UNCHANGED <<nextGen, relay, handles>> /\ rx.at = "idle" /\ rx'.at \in {"echo", "probe"}
    BY <1>3 DEF Receive, tasks
  <2> QED
    BY <1>0, <2>1, RegisteredQuiet
<1>4. CASE (\E c \in Clients : Age(c)) \/ ForwardEnds \/ Shutdown \/ UNCHANGED vars
  <2>1. UNCHANGED <<nextGen, relay, handles, rx>>
    BY <1>4 DEF Age, ForwardEnds, Shutdown, vars, tasks
  <2> QED
    BY <1>0, <2>1, RegisteredQuiet
<1> QED
  BY <1>1, <1>2, <1>3, <1>4

\* relay_handles (proxy.rs:1304, "so we don't leak orphaned tasks"): every relay
\* that runs is in the map, or about to be entered, so that the shutdown and
\* the client's next relay can abort it.
THEOREM RelayRegisteredEver == Spec => []RelayRegistered
<1>1. Init => CountInv /\ ServeInv /\ Registered
  BY CountInit, ServeInit DEF Init, Registered, RelayRegistered, IdleRx
<1>2. CountInv /\ ServeInv /\ Registered /\ [Next]_vars => (CountInv /\ ServeInv /\ Registered)'
  BY SessionStep, LoopRegisters, OthersRegister DEF Next
<1>3. Registered => RelayRegistered
  BY DEF Registered
<1> QED
  BY <1>1, <1>2, <1>3, PTL DEF Spec

-----------------------------------------------------------------------------
(***************************************************************************)
(* Auxiliary state.  Whoever has metrics, a protocol lock or an echo is in *)
(* hand: has a session, or the loop is at a packet of it, which ends in a  *)
(* session or in a removal, or a relay or the sweep is about to look.      *)
(***************************************************************************)
HasAux(c) == c \in metrics \/ c \in echo \/ protocol[c] # "none"

LoopHas(c) ==
  rx.client = c /\ rx.at \in {"probe", "echo", "lookup", "bind", "reserve", "insert", "reject"}

RelayHas(c) ==
  \E g \in Gen : relay[g].client = c /\ relay[g].at \in {"session", "uncount", "wipe"}

SweepHas(c) ==
  \/ \E p \in sweep.expired : p[1] = c
  \/ sweep.at \in {"contains", "wipe"} /\ sweep.now[1] = c

InHand(c) == sessions[c].live \/ LoopHas(c) \/ RelayHas(c) \/ SweepHas(c)

\* What the sweep erases it has noted; between two sweeps it has noted nothing.
Noted ==
  /\ sweep.at = "drop" => sweep.now \in sweep.expired
  /\ sweep.at \in {"idle", "stopped"} => sweep.expired = {}

AuxShape ==
  metrics \subseteq Clients /\ echo \subseteq Clients
    /\ protocol \in [Clients -> Protocols \union {"none"}]

AuxInv == AuxShape /\ Noted /\ \A c \in Clients : HasAux(c) => InHand(c)

\* The removals leave nothing of one client, and touch no other.
LEMMA WipedFact ==
  ASSUME AuxInv, NEW c \in Clients, Wiped(c)
  PROVE  /\ AuxShape'
         /\ \A d \in Clients : HasAux(d)' => d # c /\ HasAux(d)
BY DEF AuxInv, AuxShape, Wiped, HasAux

\* The loop.
LEMMA LoopAux == ASSUME CountInv, CountInv', AuxInv, RxStep PROVE AuxInv'
<1>0. /\ rx \in Rx /\ rx.client \in Clients /\ sweep \in Sweeper /\ relay \in [Gen -> Relay]
      /\ sessions \in [Clients -> Entry] /\ AuxShape
  BY DEF CountInv, Shape, Rx, AuxInv
<1>1. Noted' /\ \A c \in Clients : SweepHas(c) => SweepHas(c)'
  <2>1. sweep' = sweep \/ (sweep' = [sweep EXCEPT !.at = "stopped"] /\ sweep.at = "idle")
    BY DEF RxStep, Probe, Echo, Lookup, Bind, Reserve, Insert, SpawnRelay, ReplaceHandle,
           RegisterHandle, DropFinished, Reject, Stop
  <2>2. CASE sweep' = sweep
    <3>1. Noted'
      BY <2>2 DEF AuxInv, Noted
    <3> QED
      BY <2>2, <3>1 DEF SweepHas
  <2>3. CASE sweep' = [sweep EXCEPT !.at = "stopped"] /\ sweep.at = "idle"
    <3>1. sweep'.at = "stopped" /\ sweep'.expired = sweep.expired
      BY <1>0, <2>3 DEF Sweeper
    <3> QED
      BY <2>3, <3>1 DEF AuxInv, Noted, SweepHas
  <2> QED
    BY <2>1, <2>2, <2>3
<1>2. \A c \in Clients : RelayHas(c) => RelayHas(c)'
  <2>1. \A g \in Gen : relay[g].at \in {"session", "uncount", "wipe"} => relay'[g] = relay[g]
    <3>1. CASE SpawnRelay
      <4>1. \A g \in Gen : g # nextGen => relay'[g] = relay[g]
        BY <1>0, <3>1 DEF SpawnRelay
      <4>2. \A g \in Gen : g = nextGen => relay[g].at = "new"
        BY DEF CountInv, Locked, Unborn, Shape, Gen
      <4> QED
        BY <4>1, <4>2
    <3>2. CASE ReplaceHandle \/ Stop
      BY <1>0, <3>2 DEF ReplaceHandle, Stop, Aborted
    <3>3. CASE ~SpawnRelay /\ ~(ReplaceHandle \/ Stop)
      BY <3>3 DEF RxStep, Probe, Echo, Lookup, Bind, Reserve, Insert, RegisterHandle, DropFinished,
                  Reject, tasks
    <3> QED
      BY <3>1, <3>2, <3>3
  <2> QED
    BY <2>1 DEF RelayHas
<1>3. \A c \in Clients : sessions[c].live => sessions'[c].live
  <2>1. CASE Lookup \/ Insert \/ SpawnRelay
    BY <1>0, <2>1 DEF Lookup, Insert, SpawnRelay, Entry
  <2>2. CASE ~(Lookup \/ Insert \/ SpawnRelay)
    BY <2>2 DEF RxStep, Probe, Echo, Bind, Reserve, ReplaceHandle, RegisterHandle, DropFinished,
                Reject, Stop, table
  <2> QED
    BY <2>1, <2>2
<1>4. SUFFICES ASSUME NEW c \in Clients, HasAux(c)', LoopHas(c) \/ ~HasAux(c)
               PROVE  InHand(c)'
  <2>1. AuxShape'
    <3>1. CASE Reject
      BY <1>0, <3>1, WipedFact DEF Reject
    <3>2. ASSUME NEW token \in BOOLEAN, Probe(token)
          PROVE  AuxShape'
      <4>1. Selected(rx.client, rx.packet.looks) \in Protocols \union {"none"}
        BY <1>0 DEF Selected, Rx, Packet
      <4> QED
        BY <1>0, <3>2, <4>1 DEF Probe, AuxShape
    <3>3. CASE ~Reject /\ \A token \in BOOLEAN : ~Probe(token)
      BY <1>0, <3>3 DEF RxStep, Echo, Lookup, Bind, Reserve, Insert, SpawnRelay, ReplaceHandle,
                        RegisterHandle, DropFinished, Stop, aux, AuxShape
    <3> QED
      BY <3>1, <3>2, <3>3
  <2> QED
    BY <1>1, <1>2, <1>3, <1>4, <2>1 DEF AuxInv, InHand
<1>5. CASE (\E token \in BOOLEAN : Probe(token)) \/ Echo
  <2>1. HasAux(c) \/ c = rx.client
    BY <1>0, <1>4, <1>5 DEF Probe, Echo, HasAux, AuxShape
  <2>2. rx'.at \in {"echo", "lookup"} /\ rx'.client = rx.client
    BY <1>0, <1>5, RxMoves DEF Probe, Echo
  <2> QED
    BY <1>4, <2>1, <2>2 DEF InHand, LoopHas
<1>6. CASE Lookup \/ Bind \/ Reserve \/ Insert
  <2>1. c = rx.client
    BY <1>4, <1>6 DEF Lookup, Bind, Reserve, Insert, aux, HasAux, LoopHas
  <2>2. CASE Lookup /\ sessions[c].live
    BY <1>3, <2>2 DEF InHand
  <2>3. CASE Insert
    BY <1>0, <2>1, <2>3 DEF Insert, InHand
  <2>4. CASE ~Insert /\ ~(Lookup /\ sessions[c].live)
    <3>1. \E at \in {"bind", "reserve", "insert", "reject"} : RxGoto(at)
      BY <1>6, <2>1, <2>4 DEF Lookup, Bind, Reserve
    <3>2. rx'.at \in {"bind", "reserve", "insert", "reject"} /\ rx'.client = rx.client
      BY <1>0, <3>1, RxMoves
    <3> QED
      BY <2>1, <3>2 DEF InHand, LoopHas
  <2> QED
    BY <2>2, <2>3, <2>4
<1>7. CASE Reject
  <2>1. HasAux(c) /\ c # rx.client
    BY <1>0, <1>4, <1>7, WipedFact DEF Reject
  <2> QED
    BY <1>4, <2>1 DEF LoopHas
<1>8. CASE SpawnRelay \/ ReplaceHandle \/ RegisterHandle \/ DropFinished \/ Stop
  BY <1>4, <1>8 DEF SpawnRelay, ReplaceHandle, RegisterHandle, DropFinished, Stop, aux, HasAux, LoopHas
<1> QED
  BY <1>5, <1>6, <1>7, <1>8 DEF RxStep

\* A relay that fails removes the session and then what is left of its client.
LEMMA RelayAux ==
  ASSUME CountInv, AuxInv, NEW g \in Gen, RelayError(g) \/ RelayClean(g) PROVE AuxInv'
<1>0. /\ relay[g].client \in Clients /\ relay \in [Gen -> Relay] /\ UNCHANGED <<rx, sweep>>
      /\ sessions \in [Clients -> Entry]
  BY DEF CountInv, Shape, Relay, RelayError, RelayClean, RelayRemove, RelayUncount, RelayWipe, RelayEnd
<1>c. PICK c \in Clients : c = relay[g].client
  BY <1>0
<1>1. ASSUME NEW at, RelayGoto(g, at)
      PROVE  /\ relay'[g].client = c /\ relay'[g].at = at
             /\ \A h \in Gen : h # g => relay'[h] = relay[h]
  BY <1>0, <1>c, <1>1 DEF RelayGoto, Relay
<1>2. Noted' /\ \A d \in Clients : (LoopHas(d) => LoopHas(d)') /\ (SweepHas(d) => SweepHas(d)')
  BY <1>0 DEF AuxInv, Noted, LoopHas, SweepHas
<1>3. CASE RelayError(g) \/ RelayRemove(g) \/ RelayUncount(g)
  <2>1. UNCHANGED aux
    BY <1>3 DEF RelayError, RelayRemove, RelayUncount
  <2>2. \E at \in {"session", "uncount", "wipe"} : RelayGoto(g, at)
    BY <1>3 DEF RelayError, RelayRemove, RelayUncount
  <2>3. RelayHas(c)' /\ \A d \in Clients : RelayHas(d) => RelayHas(d)'
    <3>1. PICK at \in {"session", "uncount", "wipe"} : RelayGoto(g, at)
      BY <2>2
    <3>2. /\ relay'[g].client = c /\ relay'[g].at \in {"session", "uncount", "wipe"}
          /\ \A h \in Gen : h # g => relay'[h] = relay[h]
      BY <1>1, <3>1
    <3> QED
      BY <1>c, <3>2 DEF RelayHas
  <2>4. \A d \in Clients : d # c => sessions'[d] = sessions[d]
    <3>1. CASE RelayRemove(g)
      BY <1>0, <1>c, <3>1 DEF RelayRemove
    <3>2. CASE ~RelayRemove(g)
      BY <1>3, <3>2 DEF RelayError, RelayUncount, table
    <3> QED
      BY <3>1, <3>2
  <2>5. ASSUME NEW d \in Clients, HasAux(d)' PROVE InHand(d)'
    <3>1. HasAux(d)
      BY <2>1, <2>5 DEF aux, HasAux
    <3>2. CASE d = c
      BY <2>3, <3>2 DEF InHand
    <3>3. CASE d # c
      <4>1. InHand(d) /\ sessions'[d] = sessions[d]
        BY <2>4, <3>1, <3>3 DEF AuxInv
      <4> QED
        BY <1>2, <2>3, <4>1 DEF InHand
    <3> QED
      BY <3>2, <3>3
  <2> QED
    BY <1>2, <2>1, <2>5 DEF AuxInv, AuxShape, aux
<1>4. CASE RelayWipe(g)
  <2>1. Wiped(c) /\ UNCHANGED table /\ RelayGoto(g, "handle")
    BY <1>c, <1>4 DEF RelayWipe
  <2>2. /\ AuxShape'
        /\ \A d \in Clients : HasAux(d)' => d # c /\ HasAux(d)
    BY <1>0, <2>1, WipedFact
  <2>3. \A d \in Clients : d # c /\ RelayHas(d) => RelayHas(d)'
    BY <1>c, <1>1, <2>1 DEF RelayHas
  <2> QED
    BY <1>2, <2>1, <2>2, <2>3 DEF AuxInv, InHand, table
<1>5. CASE RelayEnd(g)
  <2>1. UNCHANGED <<aux, table>> /\ RelayGoto(g, "done") /\ relay[g].at = "handle"
    BY <1>5 DEF RelayEnd
  <2>2. \A d \in Clients : RelayHas(d) => RelayHas(d)'
    BY <1>c, <1>1, <2>1 DEF RelayHas
  <2> QED
    BY <1>2, <2>1, <2>2 DEF AuxInv, AuxShape, InHand, HasAux, aux, table
<1> QED
  BY <1>3, <1>4, <1>5 DEF RelayClean

\* The sweep, which leaves an address alone only if it has a session again.
LEMMA SweepAux == ASSUME CountInv, AuxInv, SweepStep PROVE AuxInv'
<1>0. /\ sweep \in Sweeper /\ sweep.now[1] \in Clients /\ relay \in [Gen -> Relay]
      /\ sessions \in [Clients -> Entry] /\ UNCHANGED rx
  BY DEF CountInv, Shape, Sweeper, SweepStep, SweepStart, SweepDrop, SweepContains, SweepWipe,
         SweepEnd, SweepVisit, SweepAbort
<1>1. \A c \in Clients : (LoopHas(c) => LoopHas(c)') /\ (RelayHas(c) => RelayHas(c)')
  <2>1. \A h \in Gen : relay[h].at \in {"session", "uncount", "wipe"} => relay'[h] = relay[h]
    <3>1. CASE relay' = relay
      BY <3>1
    <3>2. ASSUME NEW h, relay' = Aborted({h})
          PROVE  \A k \in Gen : relay[k].at \in {"session", "uncount", "wipe"} => relay'[k] = relay[k]
      BY <1>0, <3>2 DEF Aborted
    <3> QED
      BY <3>1, <3>2 DEF SweepStep, SweepStart, SweepDrop, SweepContains, SweepWipe, SweepEnd,
                        SweepVisit, SweepAbort, tasks
  <2> QED
    BY <1>0, <2>1 DEF LoopHas, RelayHas
<1>2. ASSUME UNCHANGED <<aux, sessions>>, Noted',
             \A c \in Clients : SweepHas(c) => SweepHas(c)' \/ sessions[c].live
      PROVE  AuxInv'
  <2>1. ASSUME NEW c \in Clients, HasAux(c)' PROVE InHand(c)'
    <3>1. InHand(c)
      BY <1>2, <2>1 DEF AuxInv, HasAux, aux
    <3> QED
      BY <1>1, <1>2, <3>1 DEF InHand
  <2> QED
    BY <1>2, <2>1 DEF AuxInv, AuxShape, aux
<1>3. CASE SweepStart \/ SweepEnd
  <2>1. UNCHANGED <<aux, sessions>> /\ sweep.at \in {"idle", "scan"} /\ sweep.expired = {}
    BY <1>3 DEF SweepStart, SweepEnd, table, AuxInv, Noted
  <2>2. sweep'.expired = {} /\ sweep'.at # "drop"
    BY <1>0, <1>3, <2>1 DEF SweepStart, SweepEnd, SweepGoto, Sweeper
  <2> QED
    BY <1>2, <2>1, <2>2 DEF Noted, SweepHas
<1>4. ASSUME NEW c \in Clients, SweepVisit(c) PROVE AuxInv'
  <2> DEFINE it == <<c, sessions[c].gen>>
  <2>1. UNCHANGED <<aux, sessions>> /\ sweep.at = "scan"
    BY <1>4 DEF SweepVisit
  <2>2. \/ sweep' = [sweep EXCEPT !.due = @ \ {c}]
        \/ sweep' = [sweep EXCEPT !.at = "drop", !.due = @ \ {c}, !.now = it,
                                  !.expired = @ \union {it}]
    BY <1>4 DEF SweepVisit
  <2> HIDE DEF it
  <2>3. \/ sweep'.at = "scan" /\ sweep'.expired = sweep.expired
        \/ sweep'.at = "drop" /\ sweep'.expired = sweep.expired \union {it} /\ sweep'.now = it
    BY <1>0, <2>1, <2>2 DEF Sweeper
  <2> QED
    BY <1>2, <2>1, <2>3 DEF Noted, SweepHas
<1>5. CASE SweepDrop
  <2>1. /\ UNCHANGED aux /\ sweep.at = "drop" /\ sweep.now \in sweep.expired
        /\ sessions' = [sessions EXCEPT ![sweep.now[1]] = NoSession]
        /\ sweep'.at = "scan" /\ sweep'.expired = sweep.expired
    BY <1>0, <1>5 DEF SweepDrop, SweepGoto, Sweeper, AuxInv, Noted
  <2>2. \A c \in Clients : (SweepHas(c) => SweepHas(c)') /\ (c = sweep.now[1] => SweepHas(c)')
    BY <2>1 DEF SweepHas
  <2>3. \A c \in Clients : c # sweep.now[1] => sessions'[c] = sessions[c]
    BY <1>0, <2>1
  <2>4. ASSUME NEW c \in Clients, HasAux(c)' PROVE InHand(c)'
    <3>1. InHand(c)
      BY <2>1, <2>4 DEF AuxInv, HasAux, aux
    <3> QED
      BY <1>1, <2>2, <2>3, <3>1 DEF InHand
  <2> QED
    BY <2>1, <2>4 DEF AuxInv, AuxShape, Noted, aux
<1>6. ASSUME NEW c \in Clients, NEW g \in 0..MaxGen, SweepAbort(c, g) PROVE AuxInv'
  <2> DEFINE it == <<c, g>>
  <2>1. /\ UNCHANGED <<aux, sessions>> /\ sweep.at = "scan"
        /\ sweep' = [sweep EXCEPT !.at = "contains", !.now = it, !.expired = @ \ {it}]
    BY <1>6 DEF SweepAbort, table
  <2>2. it[1] = c
    OBVIOUS
  <2> HIDE DEF it
  <2>3. sweep'.at = "contains" /\ sweep'.now = it /\ sweep'.expired = sweep.expired \ {it}
    BY <1>0, <2>1 DEF Sweeper
  <2>4. \A d \in Clients : SweepHas(d) => SweepHas(d)'
    BY <2>1, <2>2, <2>3 DEF SweepHas
  <2> QED
    BY <1>2, <2>1, <2>3, <2>4 DEF Noted
<1>7. CASE SweepContains
  <2>1. UNCHANGED <<aux, sessions>> /\ sweep.at = "contains"
    BY <1>7 DEF SweepContains, table
  <2>2. CASE sessions[sweep.now[1]].live
    <3>1. sweep'.at = "scan" /\ sweep'.expired = sweep.expired
      BY <1>0, <1>7, <2>2 DEF SweepContains, SweepGoto, Sweeper
    <3> QED
      BY <1>2, <2>1, <2>2, <3>1 DEF Noted, SweepHas
  <2>3. CASE ~sessions[sweep.now[1]].live
    <3>1. sweep'.at = "wipe" /\ sweep'.expired = sweep.expired /\ sweep'.now = sweep.now
      BY <1>0, <1>7, <2>3 DEF SweepContains, SweepGoto, Sweeper
    <3> QED
      BY <1>2, <2>1, <3>1 DEF Noted, SweepHas
  <2> QED
    BY <2>2, <2>3
<1>8. CASE SweepWipe
  <2>1. /\ Wiped(sweep.now[1]) /\ UNCHANGED sessions /\ sweep.at = "wipe"
        /\ sweep'.at = "scan" /\ sweep'.expired = sweep.expired
    BY <1>0, <1>8 DEF SweepWipe, SweepGoto, Sweeper, table
  <2>2. /\ AuxShape'
        /\ \A d \in Clients : HasAux(d)' => d # sweep.now[1] /\ HasAux(d)
    BY <1>0, <2>1, WipedFact
  <2>3. \A d \in Clients : d # sweep.now[1] /\ SweepHas(d) => SweepHas(d)'
    BY <2>1 DEF SweepHas
  <2>4. Noted'
    BY <2>1 DEF Noted
  <2> QED
    BY <1>1, <2>1, <2>2, <2>3, <2>4 DEF AuxInv, InHand
<1> QED
  BY <1>3, <1>4, <1>5, <1>6, <1>7, <1>8 DEF SweepStep

\* A packet arrives, a client falls silent, a forward ends, the shutdown.
LEMMA OthersAux ==
  ASSUME CountInv, AuxInv,
         \/ \E c \in Clients, packet \in Packet : Receive(c, packet)
         \/ \E c \in Clients : Age(c)
         \/ ForwardEnds \/ Shutdown \/ UNCHANGED vars
  PROVE  AuxInv'
<1>1. UNCHANGED <<relay, sweep, protocol, echo>>
  BY DEF Receive, Age, ForwardEnds, Shutdown, vars, tasks, aux
<1>2. \A c \in Clients : sessions'[c].live = sessions[c].live
  BY DEF Receive, Age, ForwardEnds, Shutdown, vars, table, CountInv, Shape, Entry
<1>3. Noted' /\ \A d \in Clients : (RelayHas(d) <=> RelayHas(d)') /\ (SweepHas(d) <=> SweepHas(d)')
  BY <1>1 DEF AuxInv, Noted, RelayHas, SweepHas
<1>4. CASE UNCHANGED <<metrics, rx>>
  BY <1>1, <1>2, <1>3, <1>4 DEF AuxInv, AuxShape, InHand, HasAux, LoopHas
<1>5. ASSUME NEW c \in Clients, NEW packet \in Packet, Receive(c, packet) PROVE AuxInv'
  <2>1. /\ rx.at = "idle" /\ rx'.at \in {"echo", "probe"} /\ rx'.client = c
        /\ metrics' \subseteq metrics \union {c}
    BY <1>5 DEF Receive
  <2>2. \A d \in Clients : HasAux(d)' => HasAux(d) \/ LoopHas(d)'
    BY <1>1, <2>1 DEF HasAux, LoopHas
  <2>3. \A d \in Clients : ~LoopHas(d)
    BY <2>1 DEF LoopHas
  <2> QED
    BY <1>1, <1>2, <1>3, <2>1, <2>2, <2>3 DEF AuxInv, AuxShape, InHand
<1> QED
  BY <1>4, <1>5 DEF Age, ForwardEnds, Shutdown, vars, aux

\* No handler leaves auxiliary state behind (handle_client_packet's error arm,
\* teardown_expired_client): with nobody at work on the maps, whoever has
\* metrics, a protocol lock or an echo has a session.
THEOREM AuxHasSessionEver == Spec => []AuxHasSession
<1>1. Init => CountInv /\ AuxInv
  <2>1. Init => AuxInv
    BY DEF Init, AuxInv, AuxShape, Noted, HasAux, IdleSweep
  <2> QED
    BY <2>1, CountInit
<1>2. CountInv /\ AuxInv /\ [Next]_vars => (CountInv /\ AuxInv)'
  <2> SUFFICES ASSUME CountInv, AuxInv, [Next]_vars PROVE CountInv' /\ AuxInv'
    OBVIOUS
  <2>1. CountInv'
    BY ReceiveKeeps, LoopKeeps, AdmitKeeps, RelayKeeps, SweepKeeps, OthersKeep DEF Next, RxStep
  <2>2. AuxInv'
    BY <2>1, LoopAux, RelayAux, SweepAux, OthersAux DEF Next
  <2> QED
    BY <2>1, <2>2
<1>3. CountInv /\ AuxInv => AuxHasSession
  <2> SUFFICES ASSUME AuxInv, rx.at = "idle", sweep.at = "idle",
                      \A g \in Gen : relay[g].at \in {"new", "run", "done"},
                      NEW c \in Clients, HasAux(c)
               PROVE  sessions[c].live
    BY DEF AuxHasSession, AuxInv, AuxShape, HasAux, SessionOf
  <2> QED
    BY DEF AuxInv, Noted, InHand, LoopHas, RelayHas, SweepHas
<1> QED
  BY <1>1, <1>2, <1>3, PTL DEF Spec
=============================================================================
