------------------------ MODULE ProxyLifecycleProofs ------------------------
(***************************************************************************)
(* What a request that ran alone leaves behind, for every number of        *)
(* handlers, requests, proxies and crashes, and every range of ports: the  *)
(* proxy its settings ask for, AmneziaWG on the configured port, and the   *)
(* backend port closed unless its restart deleted the chain again.  What   *)
(* the requests before it did at once does not matter.                     *)
(***************************************************************************)
EXTENDS ProxyLifecycle, TLAPS

USE DEF locks

IsConfig(c) ==
  c = [listen |-> c.listen, backend |-> c.backend, protocol |-> c.protocol,
       domain |-> c.domain, params |-> c.params, caps |-> c.caps]

IsRequest(r) ==
  /\ r = [pc |-> r.pc, cfg |-> r.cfg, gen |-> r.gen, alone |-> r.alone]
  /\ r.alone \in BOOLEAN /\ r.pc # "idle"
  /\ r.cfg = NoConfig \/ (IsConfig(r.cfg) /\ r.cfg # NoConfig)
  /\ r.pc \in {"save", "lock", "restart", "relock", "read"} => r.cfg = NoConfig
  /\ r.pc \in {"check", "bind", "register"} => r.cfg # NoConfig

Shape ==
  /\ iface \in Interface
  /\ req = [t \in Tasks |-> req[t]] /\ \A t \in Tasks : req[t] = Idle \/ IsRequest(req[t])
  /\ proxy = [g \in Gens |-> proxy[g]]
  /\ \A g \in Gens : \/ proxy[g] = NoProxy
                     \/ proxy[g] = [stage |-> proxy[g].stage, cfg |-> proxy[g].cfg]
  /\ binds \in 0..MaxBinds

\* A generation belongs to one: to STATE, or to the task about to put it there.
Starting(t) == req[t].pc = "register"

Owned ==
  /\ live = NoLive \/ /\ live = [gen |-> live.gen, hash |-> live.hash]
                      /\ live.gen \in 1..binds /\ proxy[live.gen].stage = "runs"
                      /\ IsConfig(proxy[live.gen].cfg) /\ live.hash = Hash(proxy[live.gen].cfg)
  /\ \A t \in Tasks : Starting(t) =>
       /\ req[t].gen \in 1..binds /\ req[t].gen # live.gen
       /\ proxy[req[t].gen] = [stage |-> "runs", cfg |-> req[t].cfg]
       /\ \A u \in Tasks \ {t} : Starting(u) => req[u].gen # req[t].gen

\* A request that runs alone has the system to itself since it arrived ...
Alone(t) == Busy(t) /\ req[t].alone

Private == \A t \in Tasks : Alone(t) => \A u \in Tasks \ {t} : ~Busy(u)

\* ... so what it has done so far fits the rows as they are now.
Closed == lock = IF Active /\ ~wiped THEN EffectiveListenPort(settings, iface) ELSE 0
Placed == wg \in {0, EffectiveListenPort(settings, iface)}
Wanted == IF Active THEN Config(settings, iface) ELSE NoConfig

Reconciling == {"read", "check", "take", "join", "bind", "register"}

Fits(t) ==
  /\ req[t].pc \in Reconciling \union {"lock", "restart", "relock"} =>
       conf = EffectiveListenPort(settings, iface)
  /\ req[t].pc \in Reconciling \union {"restart"} => Closed
  /\ req[t].pc \in Reconciling \union {"relock"} => Placed
  /\ req[t].pc \in {"check", "take", "join", "bind", "register"} => req[t].cfg = Wanted
  /\ req[t].pc \in {"join", "bind", "register"} => live = NoLive

\* Nobody is at work once a lone request has answered.
Served ==
  /\ Closed /\ Placed
  /\ IF Active THEN live # NoLive /\ live.hash = Hash(Wanted) ELSE live = NoLive

Rests == settled => Served /\ \A t \in Tasks : ~Busy(t)

LifeInv == Shape /\ Owned /\ Private /\ (\A t \in Tasks : Alone(t) => Fits(t)) /\ Rests

-----------------------------------------------------------------------------
(***************************************************************************)
(* Configurations and requests.                                            *)
(***************************************************************************)
\* A real configuration has a port.
LEMMA ConfigFacts ==
  ASSUME iface \in Interface
  PROVE  /\ IsConfig(Config(settings, iface)) /\ Config(settings, iface) # NoConfig
         /\ (Wanted # NoConfig) <=> Active
         /\ IF Active THEN EffectiveListenPort(settings, iface) # iface.port
                      ELSE EffectiveListenPort(settings, iface) = iface.port
<1>1. iface.port # 0
  BY ProxyLifecycleAssumption DEF Interface
<1>2. IsConfig(Config(settings, iface))
  BY DEF Config, IsConfig
<1>3. Config(settings, iface).listen = iface.port /\ NoConfig.listen = 0
  BY DEF Config, NoConfig
<1>4. IF Active THEN EffectiveListenPort(settings, iface) # iface.port
                ELSE EffectiveListenPort(settings, iface) = iface.port
  BY DEF Active, EffectiveListenPort, ShouldRemainDisabled
<1> QED
  BY <1>1, <1>2, <1>3, <1>4 DEF Wanted

\* Equal hashes: equal but for the session caps.
LEMMA HashFact ==
  ASSUME NEW c, NEW d, IsConfig(c), IsConfig(d), Hash(c) = Hash(d)
  PROVE  [c EXCEPT !.caps = d.caps] = d
<1>1. \A e : IsConfig(e) =>
        Hash(e) = [listen |-> e.listen, backend |-> e.backend, protocol |-> e.protocol,
                   domain |-> e.domain, params |-> e.params, caps |-> 0]
  BY DEF IsConfig, Hash
<1>2. c.listen = d.listen /\ c.backend = d.backend /\ c.protocol = d.protocol
      /\ c.domain = d.domain /\ c.params = d.params
  BY <1>1
<1> QED
  BY <1>2 DEF IsConfig

\* Requests built and moved on.
LEMMA RequestFacts ==
  /\ \A pc : /\ Request(pc).pc = pc /\ Request(pc).cfg = NoConfig /\ Request(pc).alone = TRUE
             /\ Request(pc).gen = 0 /\ NoConfig.listen = 0 /\ Idle.pc = "idle"
  /\ \A r, pc : IsRequest(r) =>
       /\ [r EXCEPT !.pc = pc].pc = pc /\ [r EXCEPT !.pc = pc].cfg = r.cfg
       /\ [r EXCEPT !.pc = pc].gen = r.gen /\ [r EXCEPT !.pc = pc].alone = r.alone
  /\ \A r, b : IsRequest(r) =>
       /\ [r EXCEPT !.alone = b].pc = r.pc /\ [r EXCEPT !.alone = b].cfg = r.cfg
       /\ [r EXCEPT !.alone = b].gen = r.gen /\ [r EXCEPT !.alone = b].alone = b
BY DEF Request, IsRequest, NoConfig, Idle

\* The request of a task at work.
LEMMA BusyFact ==
  ASSUME Shape, NEW t \in Tasks, Busy(t) PROVE IsRequest(req[t])
BY DEF Shape, Busy, Idle

(***************************************************************************)
(* A step of one task, and what is left to show of it.                     *)
(***************************************************************************)
LEMMA TaskStep ==
  ASSUME LifeInv, NEW t \in Tasks, Busy(t), NEW r, req' = [req EXCEPT ![t] = r],
         r = Idle \/ (IsRequest(r) /\ r.alone = req[t].alone),
         UNCHANGED <<settings, iface>>, Owned',
         (/\ proxy = [g \in Gens |-> proxy[g]]
          /\ \A g \in Gens : \/ proxy[g] = NoProxy
                             \/ proxy[g] = [stage |-> proxy[g].stage, cfg |-> proxy[g].cfg]
          /\ binds \in 0..MaxBinds)',
         Alone(t) /\ r # Idle => Fits(t)',
         settled' = settled \/ (r = Idle /\ (settled' => req[t].alone /\ Served'))
  PROVE  LifeInv'
<1>1. \A u \in Tasks : req'[u] = IF u = t THEN r ELSE req[u]
  BY DEF LifeInv, Shape
<1>2. Shape'
  BY <1>1 DEF LifeInv, Shape
<1>3. Idle.pc = "idle"
  BY DEF Idle
<1>4. \A u \in Tasks : Busy(u)' => Busy(u)
  BY <1>1, <1>3 DEF Busy
<1>5. \A u \in Tasks : Alone(u)' => Alone(u)
  BY <1>1, <1>3, <1>4 DEF Alone, Busy
<1>6. Private'
  BY <1>4, <1>5 DEF Private, LifeInv
<1>7. ASSUME NEW u \in Tasks, Alone(u)' PROVE Fits(u)'
  <2>1. u = t
    BY <1>5, <1>7 DEF LifeInv, Private
  <2>2. r # Idle
    BY <1>1, <1>3, <1>7, <2>1 DEF Alone, Busy
  <2> QED
    BY <1>5, <1>7, <2>1, <2>2
<1>8. ~settled
  BY DEF LifeInv, Rests
<1>9. ASSUME settled' PROVE Served' /\ \A u \in Tasks : ~Busy(u)'
  <2>1. r = Idle /\ req[t].alone /\ Served'
    BY <1>8, <1>9
  <2>2. Alone(t)
    BY <2>1 DEF Alone
  <2> QED
    BY <1>1, <1>3, <2>1, <2>2 DEF LifeInv, Private, Busy
<1>10. Rests'
  BY <1>9 DEF Rests
<1> QED
  BY <1>2, <1>6, <1>7, <1>10 DEF LifeInv

\* STATE and the proxies left alone, and nobody about to register who was not.
LEMMA OwnedKeeps ==
  ASSUME LifeInv, UNCHANGED <<live, proxy, binds>>,
         \A u \in Tasks : Starting(u)' =>
           Starting(u) /\ req'[u].gen = req[u].gen /\ req'[u].cfg = req[u].cfg
  PROVE  Owned'
BY DEF LifeInv, Owned, Starting

\* The request of t after Go(t, pc).
LEMMA GoFact ==
  ASSUME LifeInv, NEW t \in Tasks, Busy(t), NEW pc, Go(t, pc)
  PROVE  /\ req'[t].pc = pc /\ req'[t].cfg = req[t].cfg /\ req'[t].gen = req[t].gen
         /\ req'[t].alone = req[t].alone
<1>1. IsRequest(req[t])
  BY BusyFact DEF LifeInv
<1>2. req' = [req EXCEPT ![t] = [req[t] EXCEPT !.pc = pc]]
  BY DEF Go, LifeInv, Shape
<1>3. req'[t] = [req[t] EXCEPT !.pc = pc]
  BY <1>2 DEF LifeInv, Shape
<1> QED
  BY <1>1, <1>3, RequestFacts

\* Answer(t, good) and Go(t, pc), as the steps need them.
LEMMA AnswerStep ==
  ASSUME LifeInv, NEW t \in Tasks, Busy(t), NEW good \in BOOLEAN, Answer(t, good),
         UNCHANGED <<settings, iface, live, proxy, binds>>, good /\ req[t].alone => Served'
  PROVE  LifeInv'
<1>1. req' = [req EXCEPT ![t] = Idle] /\ settled' = (good /\ req[t].alone)
  BY DEF Answer
<1>2. \A u \in Tasks : req'[u] = IF u = t THEN Idle ELSE req[u]
  BY <1>1 DEF LifeInv, Shape
<1>3. Owned'
  BY <1>2, OwnedKeeps DEF Starting, Idle
<1>4. (/\ proxy = [g \in Gens |-> proxy[g]]
       /\ \A g \in Gens : \/ proxy[g] = NoProxy
                          \/ proxy[g] = [stage |-> proxy[g].stage, cfg |-> proxy[g].cfg]
       /\ binds \in 0..MaxBinds)'
  BY DEF LifeInv, Shape
<1> QED
  BY <1>1, <1>3, <1>4, TaskStep

LEMMA GoStep ==
  ASSUME LifeInv, NEW t \in Tasks, Busy(t), NEW pc, Go(t, pc),
         IsRequest([req[t] EXCEPT !.pc = pc]), pc # "register",
         UNCHANGED <<settings, iface, live, proxy, binds, settled>>, Alone(t) => Fits(t)'
  PROVE  LifeInv'
<1> DEFINE r == [req[t] EXCEPT !.pc = pc]
<1>1. IsRequest(req[t])
  BY BusyFact DEF LifeInv
<1>2. req' = [req EXCEPT ![t] = r]
  BY DEF Go, LifeInv, Shape
<1>3. r.pc = pc /\ r.alone = req[t].alone
  BY <1>1, RequestFacts
<1>4. \A u \in Tasks : req'[u] = IF u = t THEN r ELSE req[u]
  BY <1>2 DEF LifeInv, Shape
<1>5. Owned'
  BY <1>3, <1>4, OwnedKeeps DEF Starting
<1>6. (/\ proxy = [g \in Gens |-> proxy[g]]
       /\ \A g \in Gens : \/ proxy[g] = NoProxy
                          \/ proxy[g] = [stage |-> proxy[g].stage, cfg |-> proxy[g].cfg]
       /\ binds \in 0..MaxBinds)'
  BY DEF LifeInv, Shape
<1> HIDE DEF r
<1> QED
  BY <1>2, <1>3, <1>5, <1>6, TaskStep DEF r

-----------------------------------------------------------------------------
(***************************************************************************)
(* apply_and_reconcile, step by step.                                      *)
(***************************************************************************)
LEMMA SaveKeeps == ASSUME LifeInv, NEW t \in Tasks, Save(t) PROVE LifeInv'
<1>1. /\ Busy(t) /\ UNCHANGED <<settings, iface, live, proxy, binds, lock>>
      /\ conf' = EffectiveListenPort(settings, iface)
  BY DEF Save, Busy
<1>2. CASE req[t].pc = "save"
  <2>1. Go(t, "lock") /\ UNCHANGED settled
    BY <1>2 DEF Save
  <2>2. IsRequest(req[t])
    BY <1>1, BusyFact DEF LifeInv
  <2>3. IsRequest([req[t] EXCEPT !.pc = "lock"])
    BY <1>2, <2>2, RequestFacts DEF IsRequest
  <2>4. req'[t].pc = "lock"
    BY <1>1, <2>1, GoFact
  <2>5. Fits(t)'
    BY <1>1, <2>4 DEF Fits, Reconciling, EffectiveListenPort, ShouldRemainDisabled
  <2> QED
    BY <1>1, <2>1, <2>3, <2>5, GoStep
<1>3. CASE req[t].pc # "save"
  BY <1>1, <1>3, AnswerStep DEF Save
<1> QED
  BY <1>2, <1>3

\* Whatever the chain held, it closes what it should once it is locked.
LEMMA LockFact ==
  ASSUME LifeInv, Lock(EffectiveListenPort(settings, iface)), UNCHANGED <<settings, iface>>
  PROVE  Closed'
<1>1. lock' = IF EffectiveListenPort(settings, iface) = iface.port THEN 0
              ELSE EffectiveListenPort(settings, iface)
  BY DEF Lock
<1>2. lock' = IF Active THEN EffectiveListenPort(settings, iface) ELSE 0
  BY <1>1, ConfigFacts DEF LifeInv, Shape
<1>3. wiped' = FALSE
  BY DEF Lock
<1> QED
  BY <1>2, <1>3 DEF Closed, Active, EffectiveListenPort

LEMMA LockdownKeeps == ASSUME LifeInv, NEW t \in Tasks, Lockdown(t) PROVE LifeInv'
<1>1. /\ Busy(t) /\ req[t].pc = "lock" /\ Go(t, "restart")
      /\ UNCHANGED <<settings, iface, live, proxy, binds, conf, settled>>
  BY DEF Lockdown, Busy
<1>2. IsRequest(req[t])
  BY <1>1, BusyFact DEF LifeInv
<1>3. IsRequest([req[t] EXCEPT !.pc = "restart"])
  BY <1>1, <1>2, RequestFacts DEF IsRequest
<1>4. req'[t].pc = "restart"
  BY <1>1, GoFact
<1>5. Closed'
  BY <1>1, LockFact DEF Lockdown
<1>6. Alone(t) => Fits(t)'
  BY <1>1, <1>4, <1>5 DEF Fits, Reconciling, LifeInv, EffectiveListenPort
<1> QED
  BY <1>1, <1>3, <1>6, GoStep

LEMMA LockAgainKeeps == ASSUME LifeInv, NEW t \in Tasks, LockAgain(t) PROVE LifeInv'
<1>1. /\ Busy(t) /\ req[t].pc = "relock" /\ Go(t, "read")
      /\ UNCHANGED <<settings, iface, live, proxy, binds, conf, wg, settled>>
  BY DEF LockAgain, Busy
<1>2. IsRequest(req[t])
  BY <1>1, BusyFact DEF LifeInv
<1>3. IsRequest([req[t] EXCEPT !.pc = "read"])
  BY <1>1, <1>2, RequestFacts DEF IsRequest
<1>4. req'[t].pc = "read"
  BY <1>1, GoFact
<1>5. Closed'
  BY <1>1, LockFact DEF LockAgain
<1>6. Alone(t) => Fits(t)'
  BY <1>1, <1>4, <1>5 DEF Fits, Reconciling, LifeInv, Placed, EffectiveListenPort
<1> QED
  BY <1>1, <1>3, <1>6, GoStep

\* The restart leaves the port closed, or deletes the chain.
LEMMA RestartWgKeeps == ASSUME LifeInv, NEW t \in Tasks, RestartWg(t) PROVE LifeInv'
<1>1. /\ Busy(t) /\ UNCHANGED <<settings, iface, live, proxy, binds, conf>>
      /\ wg' \in {0, conf}
      /\ (lock' = 0 /\ wiped' = TRUE) \/ UNCHANGED <<lock, wiped>>
  BY DEF RestartWg, Busy, locks
<1>2. CASE req[t].pc = "restart"
  <2> DEFINE pc == IF t = Main THEN "relock" ELSE "read"
  <2>1. Go(t, pc) /\ UNCHANGED settled
    BY <1>2 DEF RestartWg
  <2>2. IsRequest(req[t])
    BY <1>1, BusyFact DEF LifeInv
  <2>3. IsRequest([req[t] EXCEPT !.pc = pc])
    BY <1>2, <2>2, RequestFacts DEF IsRequest
  <2>4. req'[t].pc = pc
    BY <1>1, <2>1, GoFact
  <2>5. ASSUME Alone(t) PROVE Fits(t)'
    <3>1. conf = EffectiveListenPort(settings, iface) /\ Closed
      BY <1>2, <2>5 DEF LifeInv, Fits
    <3>2. Closed'
      BY <1>1, <3>1 DEF Closed, Active, EffectiveListenPort
    <3>3. Placed' /\ conf' = EffectiveListenPort(settings, iface)'
      BY <1>1, <3>1 DEF Placed, EffectiveListenPort
    <3> QED
      BY <2>4, <3>2, <3>3 DEF Fits, Reconciling
  <2> QED
    BY <1>1, <2>1, <2>3, <2>5, GoStep
<1>3. CASE req[t].pc # "restart"
  BY <1>1, <1>3, AnswerStep DEF RestartWg
<1> QED
  BY <1>2, <1>3

\* What the rows ask for is asked of them alone.
LEMMA RowsKeep ==
  ASSUME UNCHANGED <<settings, iface>>
  PROVE  /\ Wanted' = Wanted /\ (Active' <=> Active)
         /\ EffectiveListenPort(settings, iface)' = EffectiveListenPort(settings, iface)
         /\ (UNCHANGED <<lock, wiped>> => (Closed' <=> Closed)) /\ (wg' = wg => (Placed' <=> Placed))
BY DEF Wanted, Active, Config, EffectiveListenPort, Closed, Placed

\* A lone request past its restart finds the ports as it left them.
LEMMA FitsOn ==
  ASSUME LifeInv, NEW t \in Tasks, Alone(t), req[t].pc \in Reconciling,
         UNCHANGED <<settings, iface, conf, lock, wiped, wg>>,
         req'[t].pc \in {"check", "take", "join", "bind", "register"} => req'[t].cfg = Wanted,
         req'[t].pc \in {"join", "bind", "register"} => live' = NoLive
  PROVE  Fits(t)'
<1>0. Fits(t)
  BY DEF LifeInv
<1>1. conf' = EffectiveListenPort(settings, iface)' /\ Closed' /\ Placed' /\ Wanted' = Wanted
  BY <1>0, RowsKeep DEF Fits
<1> QED
  BY <1>1 DEF Fits

LEMMA ReadKeeps == ASSUME LifeInv, NEW t \in Tasks, Read(t) PROVE LifeInv'
<1>1. /\ Busy(t) /\ req[t].pc = "read"
      /\ UNCHANGED <<settings, iface, live, proxy, binds, conf, lock, wiped, wg, settled>>
  BY DEF Read, Busy
<1>2. IsRequest(req[t]) /\ req[t].cfg = NoConfig
  BY <1>1, BusyFact DEF LifeInv, IsRequest
<1>3. iface \in Interface
  BY DEF LifeInv, Shape
<1>4. CASE ~Active
  <2>1. Go(t, "take")
    BY <1>4 DEF Read, Go, Active
  <2>2. IsRequest([req[t] EXCEPT !.pc = "take"])
    BY <1>1, <1>2, RequestFacts DEF IsRequest
  <2>3. req'[t].pc = "take" /\ req'[t].cfg = NoConfig
    BY <1>1, <1>2, <2>1, GoFact
  <2>4. Alone(t) => Fits(t)'
    <3>1. req[t].pc \in Reconciling /\ Wanted = NoConfig
      BY <1>1, <1>4 DEF Wanted, Reconciling
    <3> QED
      BY <1>1, <2>3, <3>1, FitsOn
  <2> QED
    BY <1>1, <2>1, <2>2, <2>4, GoStep
<1>5. CASE Active
  <2> DEFINE r == [req[t] EXCEPT !.pc = "check", !.cfg = Config(settings, iface)]
  <2>1. req' = [req EXCEPT ![t] = r]
    BY <1>5 DEF Read, Active, LifeInv, Shape
  <2>2. /\ r = [pc |-> "check", cfg |-> Config(settings, iface), gen |-> req[t].gen,
                alone |-> req[t].alone]
        /\ req[t].alone \in BOOLEAN
    <3> DEFINE q == [req[t] EXCEPT !.pc = "check"]
    <3>1. /\ q = [pc |-> "check", cfg |-> req[t].cfg, gen |-> req[t].gen, alone |-> req[t].alone]
          /\ req[t].alone \in BOOLEAN
      BY <1>2 DEF IsRequest
    <3>2. r = [q EXCEPT !.cfg = Config(settings, iface)]
      OBVIOUS
    <3> HIDE DEF q
    <3>3. [q EXCEPT !.cfg = Config(settings, iface)] =
            [pc |-> "check", cfg |-> Config(settings, iface), gen |-> req[t].gen,
             alone |-> req[t].alone]
      BY <3>1
    <3> HIDE DEF r
    <3> QED
      BY <3>1, <3>2, <3>3
  <2>3. IsConfig(Config(settings, iface)) /\ Config(settings, iface) # NoConfig
    BY <1>3, ConfigFacts
  <2>4. /\ r.pc = "check" /\ r.cfg = Config(settings, iface) /\ r.alone = req[t].alone
        /\ IsRequest(r)
    BY <2>2, <2>3 DEF IsRequest
  <2> HIDE DEF r
  <2>5. \A u \in Tasks : req'[u] = IF u = t THEN r ELSE req[u]
    BY <2>1 DEF LifeInv, Shape
  <2>6. Owned'
    BY <1>1, <2>4, <2>5, OwnedKeeps DEF Starting
  <2>7. Alone(t) => Fits(t)'
    <3>1. req[t].pc \in Reconciling /\ Wanted = Config(settings, iface)
      BY <1>1, <1>5 DEF Wanted, Reconciling
    <3>2. req'[t].pc = "check" /\ req'[t].cfg = Config(settings, iface)
      BY <2>4, <2>5
    <3> QED
      BY <1>1, <3>1, <3>2, FitsOn
  <2>8. (/\ proxy = [g \in Gens |-> proxy[g]]
         /\ \A g \in Gens : \/ proxy[g] = NoProxy
                            \/ proxy[g] = [stage |-> proxy[g].stage, cfg |-> proxy[g].cfg]
         /\ binds \in 0..MaxBinds)'
    BY <1>1 DEF LifeInv, Shape
  <2> QED
    BY <1>1, <2>1, <2>4, <2>6, <2>7, <2>8, TaskStep
<1> QED
  BY <1>4, <1>5

LEMMA CheckKeeps == ASSUME LifeInv, NEW t \in Tasks, Check(t) PROVE LifeInv'
<1>1. /\ Busy(t) /\ req[t].pc = "check"
      /\ UNCHANGED <<settings, iface, live, proxy, binds, conf, lock, wiped, wg>>
  BY DEF Check, Busy
<1>2. IsRequest(req[t]) /\ req[t].cfg # NoConfig
  BY <1>1, BusyFact DEF LifeInv, IsRequest
<1>3. CASE live # NoLive /\ live.hash = Hash(req[t].cfg)
  <2>1. Answer(t, TRUE)
    BY <1>3 DEF Check
  <2>2. ASSUME req[t].alone PROVE Served'
    <3>1. Closed /\ Placed /\ req[t].cfg = Wanted
      BY <1>1, <2>2 DEF LifeInv, Alone, Fits, Reconciling
    <3>2. Active
      BY <1>2, <3>1 DEF Wanted
    <3> QED
      BY <1>1, <1>3, <3>1, <3>2, RowsKeep DEF Served
  <2> QED
    BY <1>1, <2>1, <2>2, AnswerStep
<1>4. CASE ~(live # NoLive /\ live.hash = Hash(req[t].cfg))
  <2>1. Go(t, "take") /\ UNCHANGED settled
    BY <1>4 DEF Check
  <2>2. IsRequest([req[t] EXCEPT !.pc = "take"])
    BY <1>1, <1>2, RequestFacts DEF IsRequest
  <2>3. req'[t].pc = "take" /\ req'[t].cfg = req[t].cfg
    BY <1>1, <1>2, <2>1, GoFact
  <2>4. Alone(t) => Fits(t)'
    <3>1. req[t].pc \in Reconciling
      BY <1>1 DEF Reconciling
    <3>2. Alone(t) => req[t].cfg = Wanted
      BY <1>1 DEF LifeInv, Fits
    <3> QED
      BY <1>1, <2>3, <3>1, <3>2, FitsOn
  <2> QED
    BY <1>1, <2>1, <2>2, <2>4, GoStep
<1> QED
  BY <1>3, <1>4

\* Taken out of STATE and told to stop, a proxy is still registered by nobody.
LEMMA TakeKeeps == ASSUME LifeInv, NEW t \in Tasks, Take(t) PROVE LifeInv'
<1>1. /\ Busy(t) /\ req[t].pc = "take" /\ live' = NoLive
      /\ UNCHANGED <<settings, iface, binds, conf, lock, wiped, wg>>
  BY DEF Take, Busy
<1>2. IsRequest(req[t])
  BY <1>1, BusyFact DEF LifeInv
<1>3. CASE live = NoLive /\ req[t].cfg = NoConfig
  <2>1. Answer(t, TRUE) /\ UNCHANGED <<live, proxy>>
    BY <1>1, <1>3 DEF Take
  <2>2. ASSUME req[t].alone PROVE Served'
    <3>1. Closed /\ Placed /\ req[t].cfg = Wanted
      BY <1>1, <2>2 DEF LifeInv, Alone, Fits, Reconciling
    <3>2. ~Active
      BY <1>3, <3>1, ConfigFacts DEF LifeInv, Shape
    <3> QED
      BY <1>1, <3>1, <3>2, RowsKeep DEF Served
  <2> QED
    BY <1>1, <2>1, <2>2, AnswerStep
<1>4. CASE live = NoLive /\ req[t].cfg # NoConfig
  <2>1. Go(t, "bind") /\ UNCHANGED <<live, proxy, settled>>
    BY <1>1, <1>4 DEF Take
  <2>2. IsRequest([req[t] EXCEPT !.pc = "bind"])
    BY <1>2, <1>4, RequestFacts DEF IsRequest
  <2>3. req'[t].pc = "bind" /\ req'[t].cfg = req[t].cfg
    BY <1>1, <1>2, <2>1, GoFact
  <2>4. Alone(t) => Fits(t)'
    <3>1. req[t].pc \in Reconciling
      BY <1>1 DEF Reconciling
    <3>2. Alone(t) => req[t].cfg = Wanted
      BY <1>1 DEF LifeInv, Fits
    <3> QED
      BY <1>1, <2>3, <3>1, <3>2, FitsOn
  <2> QED
    BY <1>1, <2>1, <2>2, <2>4, GoStep
<1>5. CASE live # NoLive
  <2> DEFINE g == live.gen
             r == [req[t] EXCEPT !.pc = "join", !.gen = g]
  <2>1. /\ proxy' = [proxy EXCEPT ![g].stage = "told"] /\ UNCHANGED settled
        /\ req' = [req EXCEPT ![t] = r]
    BY <1>5 DEF Take, LifeInv, Shape
  <2>2. g \in Gens /\ g \in 1..binds
    <3>1. g \in 1..binds /\ binds \in 0..MaxBinds
      BY <1>5 DEF LifeInv, Owned, Shape
    <3> HIDE DEF g
    <3> QED
      BY <3>1, ProxyLifecycleAssumption DEF Gens
  <2>3. r.pc = "join" /\ r.cfg = req[t].cfg /\ r.alone = req[t].alone /\ IsRequest(r)
    <3> DEFINE q == [req[t] EXCEPT !.pc = "join"]
    <3>1. q = [pc |-> "join", cfg |-> req[t].cfg, gen |-> req[t].gen, alone |-> req[t].alone]
      BY <1>2 DEF IsRequest
    <3>2. r = [q EXCEPT !.gen = g]
      OBVIOUS
    <3> HIDE DEF q, g
    <3>3. [q EXCEPT !.gen = g] =
            [pc |-> "join", cfg |-> req[t].cfg, gen |-> g, alone |-> req[t].alone]
      BY <3>1
    <3> HIDE DEF r
    <3> QED
      BY <1>2, <3>2, <3>3 DEF IsRequest
  <2> HIDE DEF r
  <2>4. \A u \in Tasks : req'[u] = IF u = t THEN r ELSE req[u]
    BY <2>1 DEF LifeInv, Shape
  <2>5. proxy[g] = [stage |-> "runs", cfg |-> proxy[g].cfg]
    <3>1. proxy[g].stage = "runs"
      BY <1>5 DEF LifeInv, Owned
    <3>2. proxy[g] = NoProxy \/ proxy[g] = [stage |-> proxy[g].stage, cfg |-> proxy[g].cfg]
      BY <2>2 DEF LifeInv, Shape
    <3>3. NoProxy.stage = "none"
      BY DEF NoProxy
    <3> QED
      BY <3>1, <3>2, <3>3
  <2>6. /\ proxy' = [h \in Gens |-> proxy'[h]]
        /\ \A h \in Gens : proxy'[h] = IF h = g THEN [stage |-> "told", cfg |-> proxy[g].cfg]
                                       ELSE proxy[h]
    BY <2>1, <2>2, <2>5 DEF LifeInv, Shape
  <2>7. Owned'
    <3>1. \A u \in Tasks : Starting(u)' => Starting(u) /\ req'[u] = req[u]
      BY <2>3, <2>4 DEF Starting
    <3>2. ASSUME NEW u \in Tasks, Starting(u)'
          PROVE  /\ req'[u].gen \in 1..binds' /\ req'[u].gen # live'.gen
                 /\ proxy'[req'[u].gen] = [stage |-> "runs", cfg |-> req'[u].cfg]
                 /\ \A v \in Tasks \ {u} : Starting(v)' => req'[v].gen # req'[u].gen
      <4>1. /\ Starting(u) /\ req'[u] = req[u] /\ req[u].gen \in 1..binds /\ req[u].gen # g
            /\ proxy[req[u].gen] = [stage |-> "runs", cfg |-> req[u].cfg]
        BY <3>1, <3>2 DEF LifeInv, Owned
      <4>2. req[u].gen \in Gens /\ req[u].gen # 0
        <5>1. binds \in 0..MaxBinds
          BY DEF LifeInv, Shape
        <5> QED
          BY <4>1, <5>1, ProxyLifecycleAssumption DEF Gens
      <4>3. \A v \in Tasks \ {u} : Starting(v)' => req'[v].gen # req'[u].gen
        BY <3>1, <4>1 DEF LifeInv, Owned
      <4>4. live'.gen = 0
        BY <1>1 DEF NoLive
      <4> QED
        BY <1>1, <2>6, <4>1, <4>2, <4>3, <4>4
    <3> QED
      BY <1>1, <3>2 DEF Owned, Starting
  <2>8. \A h \in Gens : \/ proxy'[h] = NoProxy
                        \/ proxy'[h] = [stage |-> proxy'[h].stage, cfg |-> proxy'[h].cfg]
    <3> TAKE h \in Gens
    <3>1. CASE h = g
      <4>1. proxy'[h] = [stage |-> "told", cfg |-> proxy[g].cfg]
        BY <2>6, <3>1
      <4> QED
        BY <4>1
    <3>2. CASE h # g
      BY <2>6, <3>2 DEF LifeInv, Shape
    <3> QED
      BY <3>1, <3>2
  <2>9. (/\ proxy = [h \in Gens |-> proxy[h]]
         /\ \A h \in Gens : \/ proxy[h] = NoProxy
                            \/ proxy[h] = [stage |-> proxy[h].stage, cfg |-> proxy[h].cfg]
         /\ binds \in 0..MaxBinds)'
    BY <1>1, <2>6, <2>8 DEF LifeInv, Shape
  <2>10. Alone(t) => Fits(t)'
    <3>1. req[t].pc \in Reconciling
      BY <1>1 DEF Reconciling
    <3>2. Alone(t) => req[t].cfg = Wanted
      BY <1>1 DEF LifeInv, Fits
    <3>3. req'[t].pc = "join" /\ req'[t].cfg = req[t].cfg
      BY <2>3, <2>4
    <3> QED
      BY <1>1, <3>1, <3>2, <3>3, FitsOn
  <2> QED
    BY <1>1, <2>1, <2>3, <2>7, <2>9, <2>10, TaskStep
<1> QED
  BY <1>3, <1>4, <1>5

LEMMA JoinKeeps == ASSUME LifeInv, NEW t \in Tasks, Join(t) PROVE LifeInv'
<1>1. /\ Busy(t) /\ req[t].pc = "join"
      /\ UNCHANGED <<settings, iface, live, proxy, binds, conf, lock, wiped, wg>>
  BY DEF Join, Busy
<1>2. IsRequest(req[t])
  BY <1>1, BusyFact DEF LifeInv
<1>3. Alone(t) => Closed /\ Placed /\ req[t].cfg = Wanted /\ live = NoLive
  BY <1>1 DEF LifeInv, Fits, Reconciling
<1>4. CASE req[t].cfg = NoConfig
  <2>1. Answer(t, TRUE)
    BY <1>4 DEF Join
  <2>2. ASSUME req[t].alone PROVE Served'
    <3>1. ~Active
      BY <1>1, <1>3, <1>4, <2>2, ConfigFacts DEF LifeInv, Shape, Alone
    <3> QED
      BY <1>1, <1>3, <2>2, <3>1, RowsKeep DEF Served, Alone
  <2> QED
    BY <1>1, <2>1, <2>2, AnswerStep
<1>5. CASE req[t].cfg # NoConfig
  <2>1. Go(t, "bind") /\ UNCHANGED settled
    BY <1>5 DEF Join
  <2>2. IsRequest([req[t] EXCEPT !.pc = "bind"])
    BY <1>2, <1>5, RequestFacts DEF IsRequest
  <2>3. req'[t].pc = "bind" /\ req'[t].cfg = req[t].cfg
    BY <1>1, <1>2, <2>1, GoFact
  <2>4. Alone(t) => Fits(t)'
    <3>1. req[t].pc \in Reconciling
      BY <1>1 DEF Reconciling
    <3> QED
      BY <1>1, <1>3, <2>3, <3>1, FitsOn
  <2> QED
    BY <1>1, <2>1, <2>2, <2>4, GoStep
<1> QED
  BY <1>4, <1>5

\* A generation is new: nobody else is about to register it.
LEMMA BindKeeps == ASSUME LifeInv, NEW t \in Tasks, Bind(t) PROVE LifeInv'
<1>1. /\ Busy(t) /\ req[t].pc = "bind" /\ binds < MaxBinds
      /\ UNCHANGED <<settings, iface, live, conf, lock, wiped, wg>>
  BY DEF Bind, Busy
<1>2. IsRequest(req[t]) /\ req[t].cfg # NoConfig
  BY <1>1, BusyFact DEF LifeInv, IsRequest
<1>3. CASE req[t].cfg.listen \in Held \union {wg}
  <2>1. Answer(t, FALSE) /\ UNCHANGED <<proxy, binds>>
    BY <1>3 DEF Bind
  <2> QED
    BY <1>1, <2>1, AnswerStep
<1>4. CASE req[t].cfg.listen \notin Held \union {wg}
  <2> DEFINE b == binds + 1
             r == [req[t] EXCEPT !.pc = "register", !.gen = b]
  <2>1. /\ binds' = b /\ UNCHANGED settled
        /\ proxy' = [proxy EXCEPT ![b] = [stage |-> "runs", cfg |-> req[t].cfg]]
        /\ req' = [req EXCEPT ![t] = r]
    BY <1>4 DEF Bind, LifeInv, Shape
  <2>2. /\ b \in Gens /\ b \in 1..b /\ b \in 0..MaxBinds /\ binds \in Nat
        /\ b \notin 1..binds /\ 1..binds \subseteq 1..b /\ 1..binds \subseteq Gens
    <3>1. binds \in 0..MaxBinds
      BY DEF LifeInv, Shape
    <3> QED
      BY <1>1, <3>1, ProxyLifecycleAssumption DEF Gens
  <2>3. /\ r.pc = "register" /\ r.cfg = req[t].cfg /\ r.gen = b /\ r.alone = req[t].alone
        /\ IsRequest(r)
    <3> DEFINE q == [req[t] EXCEPT !.pc = "register"]
    <3>1. q = [pc |-> "register", cfg |-> req[t].cfg, gen |-> req[t].gen, alone |-> req[t].alone]
      BY <1>2 DEF IsRequest
    <3>2. r = [q EXCEPT !.gen = b]
      OBVIOUS
    <3> HIDE DEF q, b
    <3>3. [q EXCEPT !.gen = b] =
            [pc |-> "register", cfg |-> req[t].cfg, gen |-> b, alone |-> req[t].alone]
      BY <3>1
    <3> HIDE DEF r
    <3> QED
      BY <1>2, <3>2, <3>3 DEF IsRequest
  <2> HIDE DEF r, b
  <2>4. \A u \in Tasks : req'[u] = IF u = t THEN r ELSE req[u]
    BY <2>1 DEF LifeInv, Shape
  <2>5. /\ proxy' = [h \in Gens |-> proxy'[h]]
        /\ \A h \in Gens : proxy'[h] = IF h = b THEN [stage |-> "runs", cfg |-> req[t].cfg]
                                       ELSE proxy[h]
    BY <2>1, <2>2 DEF LifeInv, Shape
  <2>6. IsConfig(req[t].cfg)
    BY <1>2 DEF IsRequest
  <2>7. Owned'
    <3>1. ASSUME live # NoLive
          PROVE  /\ live = [gen |-> live.gen, hash |-> live.hash] /\ live.gen \in 1..binds'
                 /\ proxy'[live.gen].stage = "runs" /\ IsConfig(proxy'[live.gen].cfg)
                 /\ live.hash = Hash(proxy'[live.gen].cfg)
      <4>1. /\ live = [gen |-> live.gen, hash |-> live.hash] /\ live.gen \in 1..binds
            /\ proxy[live.gen].stage = "runs" /\ IsConfig(proxy[live.gen].cfg)
            /\ live.hash = Hash(proxy[live.gen].cfg)
        BY <3>1 DEF LifeInv, Owned
      <4>2. proxy'[live.gen] = proxy[live.gen] /\ live.gen \in 1..binds'
        BY <2>1, <2>2, <2>5, <4>1
      <4> QED
        BY <4>1, <4>2
    <3>2. ASSUME NEW u \in Tasks, u # t, Starting(u)'
          PROVE  /\ req'[u].gen \in 1..binds' /\ req'[u].gen \in 1..binds /\ req'[u].gen # live.gen
                 /\ proxy'[req'[u].gen] = [stage |-> "runs", cfg |-> req'[u].cfg]
                 /\ \A v \in Tasks \ {u} : v # t /\ Starting(v)' => req'[v].gen # req'[u].gen
      <4>1. /\ req'[u] = req[u] /\ Starting(u) /\ req[u].gen \in 1..binds
            /\ req[u].gen # live.gen /\ proxy[req[u].gen] = [stage |-> "runs", cfg |-> req[u].cfg]
        BY <2>4, <3>2 DEF LifeInv, Owned, Starting
      <4>2. proxy'[req[u].gen] = proxy[req[u].gen] /\ req[u].gen \in 1..binds'
        BY <2>1, <2>2, <2>5, <4>1
      <4>3. \A v \in Tasks \ {u} : v # t /\ Starting(v)' => req[v].gen # req[u].gen /\ req'[v] = req[v]
        BY <2>4, <4>1 DEF LifeInv, Owned, Starting
      <4> QED
        BY <4>1, <4>2, <4>3
    <3>3. live.gen # b
      <4>1. live = NoLive \/ live.gen \in 1..binds
        BY DEF LifeInv, Owned
      <4>2. NoLive.gen = 0
        BY DEF NoLive
      <4> QED
        BY <2>2, <4>1, <4>2
    <3>4. /\ req'[t].gen = b /\ req'[t].cfg = req[t].cfg
          /\ proxy'[b] = [stage |-> "runs", cfg |-> req[t].cfg]
      BY <2>2, <2>3, <2>4, <2>5
    <3>5. \A v \in Tasks \ {t} : Starting(v)' => req'[v].gen # b
      BY <2>2, <3>2
    <3>6. ASSUME NEW u \in Tasks, Starting(u)'
          PROVE  /\ req'[u].gen \in 1..binds' /\ req'[u].gen # live'.gen
                 /\ proxy'[req'[u].gen] = [stage |-> "runs", cfg |-> req'[u].cfg]
                 /\ \A v \in Tasks \ {u} : Starting(v)' => req'[v].gen # req'[u].gen
      <4>1. CASE u = t
        BY <1>1, <2>1, <2>2, <3>3, <3>4, <3>5, <4>1
      <4>2. CASE u # t
        BY <1>1, <3>2, <3>4, <3>5, <3>6, <4>2
      <4> QED
        BY <4>1, <4>2
    <3> QED
      BY <1>1, <3>1, <3>6 DEF Owned, Starting
  <2>8. \A h \in Gens : \/ proxy'[h] = NoProxy
                        \/ proxy'[h] = [stage |-> proxy'[h].stage, cfg |-> proxy'[h].cfg]
    <3> TAKE h \in Gens
    <3>1. CASE h = b
      <4>1. proxy'[h] = [stage |-> "runs", cfg |-> req[t].cfg]
        BY <2>5, <3>1
      <4> QED
        BY <4>1
    <3>2. CASE h # b
      BY <2>5, <3>2 DEF LifeInv, Shape
    <3> QED
      BY <3>1, <3>2
  <2>9. (/\ proxy = [h \in Gens |-> proxy[h]]
         /\ \A h \in Gens : \/ proxy[h] = NoProxy
                            \/ proxy[h] = [stage |-> proxy[h].stage, cfg |-> proxy[h].cfg]
         /\ binds \in 0..MaxBinds)'
    BY <2>1, <2>2, <2>5, <2>8
  <2>10. Alone(t) => Fits(t)'
    <3>1. req[t].pc \in Reconciling
      BY <1>1 DEF Reconciling
    <3>2. Alone(t) => req[t].cfg = Wanted /\ live = NoLive
      BY <1>1 DEF LifeInv, Fits
    <3>3. req'[t].pc = "register" /\ req'[t].cfg = req[t].cfg
      BY <2>3, <2>4
    <3> QED
      BY <1>1, <3>1, <3>2, <3>3, FitsOn
  <2> QED
    BY <1>1, <2>1, <2>3, <2>7, <2>9, <2>10, TaskStep
<1> QED
  BY <1>3, <1>4

LEMMA RegisterKeeps == ASSUME LifeInv, NEW t \in Tasks, Register(t) PROVE LifeInv'
<1>1. /\ Busy(t) /\ Starting(t) /\ req[t].pc = "register"
      /\ UNCHANGED <<settings, iface, proxy, binds, conf, lock, wiped, wg>>
      /\ live' = [gen |-> req[t].gen, hash |-> Hash(req[t].cfg)]
      /\ req' = [req EXCEPT ![t] = Idle] /\ (settled' => req[t].alone)
  BY DEF Register, Busy, Starting, Answer
<1>2. IsRequest(req[t]) /\ req[t].cfg # NoConfig /\ IsConfig(req[t].cfg) /\ req[t].alone \in BOOLEAN
  BY <1>1, BusyFact DEF LifeInv, IsRequest
<1>3. /\ req[t].gen \in 1..binds /\ proxy[req[t].gen] = [stage |-> "runs", cfg |-> req[t].cfg]
      /\ \A u \in Tasks \ {t} : Starting(u) => req[u].gen # req[t].gen
  BY <1>1 DEF LifeInv, Owned
<1>4. \A u \in Tasks : req'[u] = IF u = t THEN Idle ELSE req[u]
  BY <1>1 DEF LifeInv, Shape
<1>5. \A u \in Tasks : Starting(u)' => u # t /\ Starting(u) /\ req'[u] = req[u]
  BY <1>4 DEF Starting, Idle
<1>6. live'.gen = req[t].gen /\ live'.hash = Hash(req[t].cfg)
  BY <1>1
<1>7. live' # NoLive
  <2>1. NoLive.gen = 0 /\ binds \in Nat
    BY ProxyLifecycleAssumption DEF NoLive, LifeInv, Shape
  <2> QED
    BY <1>3, <1>6, <2>1
<1>8. Owned'
  <2>1. /\ live' = [gen |-> live'.gen, hash |-> live'.hash] /\ live'.gen \in 1..binds'
        /\ proxy'[live'.gen].stage = "runs" /\ IsConfig(proxy'[live'.gen].cfg)
        /\ live'.hash = Hash(proxy'[live'.gen].cfg)
    BY <1>1, <1>2, <1>3, <1>6
  <2>2. ASSUME NEW u \in Tasks, Starting(u)'
        PROVE  /\ req'[u].gen \in 1..binds' /\ req'[u].gen # live'.gen
               /\ proxy'[req'[u].gen] = [stage |-> "runs", cfg |-> req'[u].cfg]
               /\ \A v \in Tasks \ {u} : Starting(v)' => req'[v].gen # req'[u].gen
    <3>1. u # t /\ Starting(u) /\ req'[u] = req[u]
      BY <1>5, <2>2
    <3>2. \A v \in Tasks \ {u} : Starting(v)' => Starting(v) /\ req'[v] = req[v]
      BY <1>5
    <3> QED
      BY <1>1, <1>3, <1>6, <3>1, <3>2 DEF LifeInv, Owned
  <2> QED
    BY <2>1, <2>2 DEF Owned, Starting
<1>9. ASSUME settled' PROVE req[t].alone /\ Served'
  <2>1. Alone(t)
    BY <1>1, <1>9 DEF Alone
  <2>2. Closed /\ Placed /\ req[t].cfg = Wanted
    BY <1>1, <2>1 DEF LifeInv, Fits, Reconciling
  <2>3. Active
    BY <1>2, <2>2 DEF Wanted
  <2> QED
    BY <1>1, <1>6, <1>7, <2>1, <2>2, <2>3, RowsKeep DEF Served, Alone
<1>10. (/\ proxy = [g \in Gens |-> proxy[g]]
        /\ \A g \in Gens : \/ proxy[g] = NoProxy
                           \/ proxy[g] = [stage |-> proxy[g].stage, cfg |-> proxy[g].cfg]
        /\ binds \in 0..MaxBinds)'
  BY <1>1 DEF LifeInv, Shape
<1> QED
  BY <1>1, <1>8, <1>9, <1>10, TaskStep

LEMMA DropKeeps == ASSUME LifeInv, NEW w \in Workers, Drop(w) PROVE LifeInv'
<1>1. w \in Tasks /\ Busy(w) /\ Answer(w, FALSE) /\ UNCHANGED <<settings, iface, live, proxy, binds>>
  BY DEF Drop, Busy, Tasks
<1> QED
  BY <1>1, AnswerStep

-----------------------------------------------------------------------------
(***************************************************************************)
(* Arrivals, the proxy's task, crashes.                                    *)
(***************************************************************************)
\* Whoever was at work is not alone any more, and a newcomer has read nothing.
LEMMA ArriveKeeps ==
  ASSUME LifeInv, NEW w \in Workers, NEW pc \in {"save", "saveOnly", "restartOnly"}, Arrive(w, pc),
         iface' \in Interface, UNCHANGED <<live, proxy, binds>>
  PROVE  LifeInv'
<1>1. /\ w \in Tasks /\ ~Busy(w) /\ settled' = FALSE
      /\ \A t \in Tasks : req'[t] = IF t = w THEN [Request(pc) EXCEPT !.alone = ~Serving]
                                    ELSE IF Busy(t) THEN [req[t] EXCEPT !.alone = FALSE] ELSE req[t]
      /\ req' = [t \in Tasks |-> req'[t]]
  BY DEF Arrive, Tasks
<1>2. \A t \in Tasks : Busy(t) => IsRequest(req[t])
  BY BusyFact DEF LifeInv
<1>3. /\ req'[w].pc = pc /\ req'[w].alone = ~Serving /\ IsRequest(req'[w])
  <2>1. Serving \in BOOLEAN
    BY DEF Serving
  <2>2. Request(pc) = [pc |-> pc, cfg |-> NoConfig, gen |-> 0, alone |-> TRUE]
    BY DEF Request
  <2>3. [Request(pc) EXCEPT !.alone = ~Serving] =
          [pc |-> pc, cfg |-> NoConfig, gen |-> 0, alone |-> ~Serving]
    BY <2>2
  <2>4. req'[w] = [pc |-> pc, cfg |-> NoConfig, gen |-> 0, alone |-> ~Serving]
    BY <1>1, <2>3
  <2>5. (~Serving) \in BOOLEAN
    BY <2>1
  <2> QED
    BY <2>4, <2>5 DEF IsRequest
<1>4. ASSUME NEW t \in Tasks, t # w, Busy(t)
      PROVE  /\ req'[t].pc = req[t].pc /\ req'[t].cfg = req[t].cfg /\ req'[t].gen = req[t].gen
             /\ req'[t].alone = FALSE /\ IsRequest(req'[t])
  <2>1. /\ req[t] = [pc |-> req[t].pc, cfg |-> req[t].cfg, gen |-> req[t].gen,
                     alone |-> req[t].alone]
        /\ IsRequest(req[t])
    BY <1>2, <1>4 DEF IsRequest
  <2>2. [req[t] EXCEPT !.alone = FALSE] =
          [pc |-> req[t].pc, cfg |-> req[t].cfg, gen |-> req[t].gen, alone |-> FALSE]
    <3> DEFINE q == req[t]
    <3>1. q = [pc |-> q.pc, cfg |-> q.cfg, gen |-> q.gen, alone |-> q.alone]
      BY <2>1
    <3> HIDE DEF q
    <3>2. ASSUME NEW b
          PROVE  [q EXCEPT !.alone = b] = [pc |-> q.pc, cfg |-> q.cfg, gen |-> q.gen, alone |-> b]
      BY <3>1
    <3>3. [q EXCEPT !.alone = FALSE] =
            [pc |-> q.pc, cfg |-> q.cfg, gen |-> q.gen, alone |-> FALSE]
      BY <3>2, Zenon
    <3> QED
      BY <3>3, Zenon DEF q
  <2>3. req'[t] = [pc |-> req[t].pc, cfg |-> req[t].cfg, gen |-> req[t].gen, alone |-> FALSE]
    BY <1>1, <1>4, <2>2
  <2> QED
    BY <2>1, <2>3 DEF IsRequest
<1>5. \A t \in Tasks : t # w /\ ~Busy(t) => req'[t] = req[t] /\ req[t] = Idle
  <2>1. \A t \in Tasks : IsRequest(req[t]) => Busy(t)
    BY DEF IsRequest, Busy
  <2> QED
    BY <1>1, <2>1 DEF LifeInv, Shape
<1>6. Idle.pc = "idle"
  BY DEF Idle
<1>7. Shape'
  <2>1. \A t \in Tasks : req'[t] = Idle \/ IsRequest(req'[t])
    BY <1>3, <1>4, <1>5
  <2> QED
    BY <1>1, <2>1 DEF LifeInv, Shape
<1>8. Owned'
  <2>1. \A u \in Tasks : Starting(u)' => Starting(u) /\ req'[u].gen = req[u].gen /\ req'[u].cfg = req[u].cfg
    BY <1>3, <1>4, <1>5, <1>6 DEF Starting
  <2> QED
    BY <2>1, OwnedKeeps
<1>9. \A t \in Tasks : Alone(t)' => t = w /\ ~Serving
  BY <1>3, <1>4, <1>5, <1>6 DEF Alone, Busy
<1>10. Private'
  <2> SUFFICES ASSUME NEW t \in Tasks, Alone(t)', NEW u \in Tasks \ {t} PROVE ~Busy(u)'
    BY DEF Private
  <2>1. t = w /\ ~Busy(u)
    BY <1>9 DEF Serving
  <2> QED
    BY <1>5, <1>6, <2>1 DEF Busy
<1>11. \A t \in Tasks : Alone(t)' => Fits(t)'
  BY <1>3, <1>9 DEF Fits, Reconciling
<1> QED
  BY <1>1, <1>7, <1>8, <1>10, <1>11 DEF LifeInv, Rests

LEMMA RequestKeeps ==
  ASSUME LifeInv, NEW w \in Workers,
         UpdateSettings(w) \/ RestartProxy(w) \/ UpdateInterface(w) \/ RestartInterface(w)
  PROVE  LifeInv'
<1>1. iface \in Interface
  BY DEF LifeInv, Shape
<1>2. CASE UpdateSettings(w) \/ RestartProxy(w)
  <2>1. Arrive(w, "save") /\ UNCHANGED <<iface, live, proxy, binds>>
    BY <1>2 DEF UpdateSettings, RestartProxy
  <2> QED
    BY <1>1, <2>1, ArriveKeeps
<1>3. CASE UpdateInterface(w)
  <2>1. Arrive(w, "saveOnly") /\ iface' \in Interface /\ UNCHANGED <<live, proxy, binds>>
    BY <1>3 DEF UpdateInterface
  <2> QED
    BY <2>1, ArriveKeeps
<1>4. CASE RestartInterface(w)
  <2>1. Arrive(w, "restartOnly") /\ UNCHANGED <<iface, live, proxy, binds>>
    BY <1>4 DEF RestartInterface
  <2> QED
    BY <1>1, <2>1, ArriveKeeps
<1> QED
  BY <1>2, <1>3, <1>4

\* A proxy that was told to stop is neither in STATE nor about to be.
LEMMA ProxyKeeps ==
  ASSUME LifeInv, NEW g \in Gens, TaskEnds(g) \/ SocketCloses(g)
  PROVE  LifeInv'
<1>1. /\ proxy[g].stage \in {"told", "lingers"}
      /\ UNCHANGED <<settings, iface, conf, wg, lock, wiped, req, binds, settled>>
  BY DEF TaskEnds, SocketCloses
<1>2. proxy[g].stage # "runs" /\ proxy[g] # NoProxy
      /\ proxy[g] = [stage |-> proxy[g].stage, cfg |-> proxy[g].cfg]
  <2>1. NoProxy.stage = "none"
    BY DEF NoProxy
  <2>2. proxy[g] # NoProxy
    BY <1>1, <2>1
  <2> QED
    BY <1>1, <2>2 DEF LifeInv, Shape
<1>3. live.gen # g
  <2>1. CASE live = NoLive
    BY <2>1, ProxyLifecycleAssumption DEF NoLive, Gens
  <2>2. CASE live # NoLive
    BY <1>2, <2>2 DEF LifeInv, Owned
  <2> QED
    BY <2>1, <2>2
<1>4. live' = live
  BY <1>3 DEF TaskEnds, SocketCloses
<1>5. /\ proxy' = [h \in Gens |-> proxy'[h]]
      /\ \A h \in Gens \ {g} : proxy'[h] = proxy[h]
      /\ proxy'[g] = NoProxy \/ proxy'[g] = [stage |-> "lingers", cfg |-> proxy[g].cfg]
  <2>1. CASE TaskEnds(g)
    <3>1. proxy' = [proxy EXCEPT ![g] = [proxy[g] EXCEPT !.stage = "lingers"]]
      BY <2>1 DEF TaskEnds, LifeInv, Shape
    <3>2. [proxy[g] EXCEPT !.stage = "lingers"] = [stage |-> "lingers", cfg |-> proxy[g].cfg]
      BY <1>2
    <3> QED
      BY <3>1, <3>2 DEF LifeInv, Shape
  <2>2. CASE SocketCloses(g)
    BY <2>2 DEF SocketCloses, LifeInv, Shape
  <2> QED
    BY <2>1, <2>2
<1>6. Shape'
  <2>1. \A h \in Gens : \/ proxy'[h] = NoProxy
                        \/ proxy'[h] = [stage |-> proxy'[h].stage, cfg |-> proxy'[h].cfg]
    <3> TAKE h \in Gens
    <3>1. CASE h = g
      <4>1. ASSUME proxy'[h] = [stage |-> "lingers", cfg |-> proxy[g].cfg]
            PROVE  proxy'[h] = [stage |-> proxy'[h].stage, cfg |-> proxy'[h].cfg]
        BY <4>1
      <4> QED
        BY <1>5, <3>1, <4>1
    <3>2. CASE h # g
      BY <1>5, <3>2 DEF LifeInv, Shape
    <3> QED
      BY <3>1, <3>2
  <2> QED
    BY <1>1, <1>5, <2>1 DEF LifeInv, Shape
<1>7. 1..binds \subseteq Gens
  BY ProxyLifecycleAssumption DEF LifeInv, Shape, Gens
<1>8. Owned'
  <2>1. ASSUME live # NoLive
        PROVE  /\ live = [gen |-> live.gen, hash |-> live.hash] /\ live.gen \in 1..binds
               /\ proxy'[live.gen].stage = "runs" /\ IsConfig(proxy'[live.gen].cfg)
               /\ live.hash = Hash(proxy'[live.gen].cfg)
    <3>1. /\ live = [gen |-> live.gen, hash |-> live.hash] /\ live.gen \in 1..binds
          /\ proxy[live.gen].stage = "runs" /\ IsConfig(proxy[live.gen].cfg)
          /\ live.hash = Hash(proxy[live.gen].cfg)
      BY <2>1 DEF LifeInv, Owned
    <3>2. proxy'[live.gen] = proxy[live.gen]
      BY <1>3, <1>5, <1>7, <3>1
    <3> QED
      BY <3>1, <3>2
  <2>2. ASSUME NEW t \in Tasks, Starting(t)
        PROVE  /\ req[t].gen \in 1..binds /\ req[t].gen # live.gen
               /\ proxy'[req[t].gen] = [stage |-> "runs", cfg |-> req[t].cfg]
               /\ \A u \in Tasks \ {t} : Starting(u) => req[u].gen # req[t].gen
    <3>1. /\ req[t].gen \in 1..binds /\ req[t].gen # live.gen
          /\ proxy[req[t].gen] = [stage |-> "runs", cfg |-> req[t].cfg]
          /\ \A u \in Tasks \ {t} : Starting(u) => req[u].gen # req[t].gen
      BY <2>2 DEF LifeInv, Owned
    <3>2. req[t].gen # g
      BY <1>2, <3>1
    <3>3. proxy'[req[t].gen] = proxy[req[t].gen]
      BY <1>5, <1>7, <3>1, <3>2
    <3> QED
      BY <3>1, <3>3
  <2> QED
    BY <1>1, <1>4, <2>1, <2>2 DEF Owned, Starting
<1>9. Private' /\ (\A t \in Tasks : Alone(t)' => Fits(t)') /\ Rests'
  BY <1>1, <1>4, RowsKeep
  DEF LifeInv, Private, Alone, Busy, Fits, Rests, Served
<1> QED
  BY <1>6, <1>8, <1>9 DEF LifeInv

\* Only startup is at work after Init or a crash, and it is alone.
LEMMA FreshStart ==
  ASSUME iface \in Interface, binds \in 0..MaxBinds, live = NoLive, proxy = [g \in Gens |-> NoProxy],
         req = [t \in Tasks |-> IF t = Main THEN Request("save") ELSE Idle], settled = FALSE
  PROVE  LifeInv
<1>1. /\ \A t \in Tasks : req[t] = IF t = Main THEN Request("save") ELSE Idle
      /\ req = [t \in Tasks |-> req[t]] /\ Idle.pc = "idle"
      /\ Request("save").pc = "save" /\ Request("save").alone = TRUE
  BY DEF Idle, Request
<1>2. IsRequest(Request("save"))
  BY DEF IsRequest, Request
<1>3. Shape
  BY <1>1, <1>2 DEF Shape
<1>4. Owned
  BY <1>1 DEF Owned, Starting
<1>5. Private /\ \A t \in Tasks : Alone(t) => Fits(t)
  BY <1>1 DEF Private, Alone, Busy, Fits, Reconciling
<1> QED
  BY <1>3, <1>4, <1>5 DEF LifeInv, Rests

LEMMA LifeInit == Init => LifeInv
<1> SUFFICES ASSUME Init PROVE LifeInv
  OBVIOUS
<1>1. iface \in Interface /\ binds \in 0..MaxBinds
  BY ProxyLifecycleAssumption DEF Init
<1> QED
  BY <1>1, FreshStart DEF Init

LEMMA CrashKeeps == ASSUME LifeInv, Crash PROVE LifeInv'
<1>1. /\ iface' \in Interface /\ binds' \in 0..MaxBinds /\ live' = NoLive
      /\ proxy' = [g \in Gens |-> NoProxy] /\ settled' = FALSE
      /\ req' = [t \in Tasks |-> IF t = Main THEN Request("save") ELSE Idle]
  BY DEF Crash, LifeInv, Shape
<1>2. /\ \A t \in Tasks : req'[t] = IF t = Main THEN Request("save") ELSE Idle
      /\ req' = [t \in Tasks |-> req'[t]] /\ Idle.pc = "idle"
      /\ Request("save").pc = "save" /\ Request("save").alone = TRUE
  BY <1>1 DEF Idle, Request
<1>3. IsRequest(Request("save"))
  BY DEF IsRequest, Request
<1>4. Shape'
  BY <1>1, <1>2, <1>3 DEF Shape
<1>5. Owned'
  BY <1>1, <1>2 DEF Owned, Starting
<1>6. Private' /\ \A t \in Tasks : Alone(t)' => Fits(t)'
  BY <1>2 DEF Private, Alone, Busy, Fits, Reconciling
<1> QED
  BY <1>1, <1>4, <1>5, <1>6 DEF LifeInv, Rests

LEMMA LifeStep == LifeInv /\ [Next]_vars => LifeInv'
<1> SUFFICES ASSUME LifeInv, [Next]_vars PROVE LifeInv'
  OBVIOUS
<1>1. CASE UNCHANGED vars
  <2>1. UNCHANGED <<settings, iface, conf, wg, lock, wiped, live, proxy, req, binds, settled>>
    BY <1>1 DEF vars
  <2>2. Shape' /\ Owned' /\ Private'
    BY <2>1 DEF LifeInv, Shape, Owned, Starting, Private, Alone, Busy
  <2>3. (\A t \in Tasks : Alone(t)' => Fits(t)') /\ Rests'
    BY <2>1, RowsKeep DEF LifeInv, Alone, Busy, Fits, Rests, Served
  <2> QED
    BY <2>2, <2>3 DEF LifeInv
<1>2. ASSUME NEW t \in Tasks, Step(t) PROVE LifeInv'
  BY <1>2, SaveKeeps, LockdownKeeps, LockAgainKeeps, RestartWgKeeps, ReadKeeps, CheckKeeps, TakeKeeps, JoinKeeps,
     BindKeeps, RegisterKeeps DEF Step
<1>3. ASSUME NEW w \in Workers, \/ UpdateSettings(w) \/ RestartProxy(w) \/ UpdateInterface(w)
                                \/ RestartInterface(w) \/ Drop(w)
      PROVE  LifeInv'
  BY <1>3, RequestKeeps, DropKeeps
<1> QED
  BY <1>1, <1>2, <1>3, ProxyKeeps, CrashKeeps DEF Next

-----------------------------------------------------------------------------
\* "Reconcile the running proxy task with desired DB state"
\* (proxy/supervisor.rs:296), for every instance: when a request that ran alone
\* has answered, STATE has the proxy its settings ask for, the session caps
\* apart.
THEOREM ReconciledEver == Spec => []Reconciled
<1>1. LifeInv => Reconciled
  <2> SUFFICES ASSUME LifeInv, settled
               PROVE  IF Active
                      THEN /\ live # NoLive
                           /\ [proxy[live.gen].cfg EXCEPT !.caps = Config(settings, iface).caps] =
                                Config(settings, iface)
                      ELSE live = NoLive
    BY DEF Reconciled
  <2>1. Served
    BY DEF LifeInv, Rests
  <2>2. CASE Active
    <3>1. live # NoLive /\ live.hash = Hash(Config(settings, iface))
      BY <2>1, <2>2 DEF Served, Wanted
    <3>2. IsConfig(proxy[live.gen].cfg) /\ live.hash = Hash(proxy[live.gen].cfg)
      BY <3>1 DEF LifeInv, Owned
    <3>3. IsConfig(Config(settings, iface))
      BY ConfigFacts DEF LifeInv, Shape
    <3> QED
      BY <2>2, <3>1, <3>2, <3>3, HashFact
  <2>3. CASE ~Active
    BY <2>1, <2>3 DEF Served
  <2> QED
    BY <2>2, <2>3
<1> QED
  BY <1>1, LifeInit, LifeStep, PTL DEF Spec

\* In the same states AmneziaWG, if it is up, is on the configured port and
\* the firewall (firewall.rs, apply_proxy_lockdown) closes the backend port and
\* no other, or nothing once a restart has run PostDown, whatever was half done
\* before.
THEOREM ConfinedEver == Spec => []Confined
<1>1. LifeInv => Confined
  BY DEF LifeInv, Rests, Served, Closed, Placed, Confined
<1> QED
  BY <1>1, LifeInit, LifeStep, PTL DEF Spec

-----------------------------------------------------------------------------
(***************************************************************************)
(* Proxies that nobody was told to stop.  Requests that stop and start a   *)
(* proxy at once are kept apart by its port: they all read the same one    *)
(* unless it was edited meanwhile, and a socket is bound once.             *)
(***************************************************************************)
Bound(g) == proxy[g].stage # "none"
Midway == {"join", "bind", "register"}

PortsApart ==
  \A g, h \in Gens : g # h /\ Bound(g) /\ Bound(h) => proxy[g].cfg.listen # proxy[h].cfg.listen

\* What a request has read, and what another one may have put into STATE since
\* it took the proxy out of it.
SamePort ==
  /\ \A t \in Tasks : Busy(t) /\ req[t].cfg # NoConfig => req[t].cfg.listen = iface.port
  /\ \A t \in Tasks : req[t].pc \in Midway /\ live # NoLive =>
       proxy[live.gen].cfg.listen = iface.port

TrackInv == PortsApart /\ (raced \/ SamePort) /\ TasksTracked

\* The proxy in STATE.
LEMMA LiveFact ==
  ASSUME LifeInv
  PROVE  /\ 1..binds \subseteq Gens /\ NoLive.gen = 0 /\ 0 \notin Gens
         /\ live # NoLive => live.gen \in Gens /\ proxy[live.gen].stage = "runs"
         /\ \A t \in Tasks : Starting(t) =>
              req[t].gen \in Gens /\ proxy[req[t].gen] = [stage |-> "runs", cfg |-> req[t].cfg]
              /\ req[t].cfg # NoConfig
<1>1. 1..binds \subseteq Gens /\ NoLive.gen = 0 /\ 0 \notin Gens
  BY ProxyLifecycleAssumption DEF LifeInv, Shape, Gens, NoLive
<1>2. ASSUME NEW t \in Tasks, Starting(t) PROVE req[t].cfg # NoConfig
  BY <1>2, BusyFact DEF LifeInv, Starting, Busy, IsRequest
<1> QED
  BY <1>1, <1>2 DEF LifeInv, Owned

\* Steps that leave STATE and the proxies alone.
LEMMA TrackQuiet ==
  ASSUME LifeInv, TrackInv, UNCHANGED <<live, proxy>>,
         \/ raced'
         \/ /\ ~raced /\ (iface' = iface \/ ~Serving)
            /\ \A t \in Tasks : Busy(t)' /\ req'[t].cfg # NoConfig =>
                 \/ Busy(t) /\ req'[t].cfg = req[t].cfg
                 \/ req'[t].cfg.listen = iface'.port
            /\ \A t \in Tasks : req'[t].pc \in Midway =>
                 Busy(t) /\ (req[t].pc \in Midway \/ live = NoLive)
            /\ \A t \in Tasks : Starting(t) => Starting(t)' /\ req'[t].gen = req[t].gen
  PROVE  TrackInv'
<1>1. PortsApart'
  BY DEF TrackInv, PortsApart, Bound
<1>2. CASE raced'
  BY <1>1, <1>2 DEF TrackInv, TasksTracked
<1>3. CASE ~raced'
  <2>1. ~raced /\ SamePort
    BY <1>3 DEF TrackInv
  <2>2. ASSUME NEW t \in Tasks, Busy(t) PROVE iface' = iface
    BY <1>3, <2>2 DEF Serving
  <2>3. SamePort'
    <3>1. ASSUME NEW t \in Tasks, Busy(t)', req'[t].cfg # NoConfig
          PROVE  req'[t].cfg.listen = iface'.port
      BY <1>3, <2>1, <2>2, <3>1 DEF SamePort
    <3>2. ASSUME NEW t \in Tasks, req'[t].pc \in Midway, live # NoLive
          PROVE  proxy[live.gen].cfg.listen = iface'.port
      BY <1>3, <2>1, <2>2, <3>2 DEF SamePort
    <3> QED
      BY <3>1, <3>2 DEF SamePort
  <2>4. TasksTracked'
    BY <1>3, <2>1 DEF TrackInv, TasksTracked, Starting
  <2> QED
    BY <1>1, <2>3, <2>4 DEF TrackInv
<1> QED
  BY <1>2, <1>3

\* A request that goes on, or answers, and has read nothing new.
LEMMA TrackGo ==
  ASSUME LifeInv, TrackInv, NEW t \in Tasks, Busy(t), UNCHANGED <<live, proxy, iface, raced>>,
         NEW pc, NEW good, Go(t, pc) \/ Answer(t, good), pc # "register", ~Starting(t),
         pc \in Midway => req[t].pc \in Midway \/ live = NoLive
  PROVE  TrackInv'
<1>1. \A u \in Tasks \ {t} : req'[u] = req[u]
  BY DEF Go, Answer, LifeInv, Shape
<1>2. CASE Go(t, pc)
  <2>1. req'[t].pc = pc /\ req'[t].cfg = req[t].cfg
    BY <1>2, GoFact
  <2> QED
    BY <1>1, <2>1, TrackQuiet DEF Starting, Busy, Midway
<1>3. CASE Answer(t, good)
  <2>1. req'[t] = Idle /\ Idle.pc = "idle"
    BY <1>3 DEF Answer, LifeInv, Shape, Idle
  <2> QED
    BY <1>1, <2>1, TrackQuiet DEF Starting, Busy, Midway
<1> QED
  BY <1>2, <1>3

LEMMA TrackTask ==
  ASSUME LifeInv, TrackInv, NEW t \in Tasks,
         \/ Save(t) \/ Lockdown(t) \/ RestartWg(t) \/ LockAgain(t)
         \/ Read(t) \/ Check(t) \/ Join(t)
  PROVE  TrackInv'
<1>1. CASE Save(t)
  BY <1>1, TrackGo DEF Save, Busy, Starting, Midway
<1>2. CASE Lockdown(t)
  BY <1>2, TrackGo DEF Lockdown, Busy, Starting, Midway
<1>3. CASE RestartWg(t)
  BY <1>3, TrackGo DEF RestartWg, Busy, Starting, Midway
<1>4. CASE Check(t)
  BY <1>4, TrackGo DEF Check, Busy, Starting, Midway
<1>5. CASE Join(t)
  BY <1>5, TrackGo DEF Join, Busy, Starting, Midway
<1>6. CASE Read(t)
  <2>1. /\ UNCHANGED <<live, proxy, iface, raced, settings>> /\ Busy(t) /\ ~Starting(t)
        /\ req[t].pc = "read"
    BY <1>6 DEF Read, Busy, Starting
  <2>2. CASE ShouldRemainDisabled(settings, iface)
    <3>1. Go(t, "take")
      BY <1>6, <2>2 DEF Read, Go
    <3> QED
      BY <2>1, <3>1, TrackGo DEF Midway
  <2>3. CASE ~ShouldRemainDisabled(settings, iface)
    <3> DEFINE r == [req[t] EXCEPT !.pc = "check", !.cfg = Config(settings, iface)]
    <3>1. \A u \in Tasks : req'[u] = IF u = t THEN r ELSE req[u]
      BY <1>6, <2>3 DEF Read, LifeInv, Shape
    <3>2. IsRequest(req[t])
      BY <2>1, BusyFact DEF LifeInv
    <3>3. r.pc = "check" /\ r.cfg = Config(settings, iface)
      BY <3>2 DEF IsRequest
    <3>4. r.cfg.listen = iface.port
      BY <3>3 DEF Config
    <3> HIDE DEF r
    <3> QED
      BY <2>1, <3>1, <3>3, <3>4, TrackQuiet DEF Starting, Busy, Midway
  <2> QED
    BY <2>2, <2>3
<1>7. CASE LockAgain(t)
  BY <1>7, TrackGo DEF LockAgain, Busy, Starting, Midway
<1> QED
  BY <1>1, <1>2, <1>3, <1>4, <1>5, <1>6, <1>7

\* The proxy taken out of STATE was told to stop.
LEMMA TrackTake == ASSUME LifeInv, TrackInv, NEW t \in Tasks, Take(t) PROVE TrackInv'
<1>1. Busy(t) /\ ~Starting(t) /\ live' = NoLive /\ UNCHANGED <<iface, raced>> /\ req[t].pc = "take"
  BY DEF Take, Busy, Starting
<1>2. CASE live = NoLive
  BY <1>1, <1>2, TrackGo DEF Take
<1>3. CASE live # NoLive
  <2> DEFINE r == [req[t] EXCEPT !.pc = "join", !.gen = live.gen]
  <2>1. /\ proxy' = [proxy EXCEPT ![live.gen] = [proxy[live.gen] EXCEPT !.stage = "told"]]
        /\ \A u \in Tasks : req'[u] = IF u = t THEN r ELSE req[u]
    BY <1>3 DEF Take, LifeInv, Shape
  <2>2. IsRequest(req[t])
    BY <1>1, BusyFact DEF LifeInv
  <2>3. r.pc = "join" /\ r.cfg = req[t].cfg
    BY <2>2 DEF IsRequest
  <2>4. live.gen \in Gens /\ proxy[live.gen].stage = "runs"
    BY <1>3, LiveFact
  <2>5. proxy[live.gen] = [stage |-> proxy[live.gen].stage, cfg |-> proxy[live.gen].cfg]
    BY <2>4 DEF LifeInv, Shape, NoProxy
  <2>6. \A g \in Gens : /\ g # live.gen => proxy'[g] = proxy[g]
                        /\ g = live.gen => /\ proxy'[g].stage = "told"
                                           /\ proxy'[g].cfg = proxy[g].cfg
    BY <2>1, <2>4, <2>5 DEF LifeInv, Shape
  <2> HIDE DEF r
  <2>7. PortsApart'
    BY <2>4, <2>6 DEF TrackInv, PortsApart, Bound
  <2>8. raced' \/ SamePort'
    BY <1>1, <2>1, <2>3 DEF TrackInv, SamePort, Busy
  <2>9. TasksTracked'
    <3> SUFFICES ASSUME ~raced', NEW g \in Gens, proxy'[g].stage = "runs"
                 PROVE  \E u \in Tasks : req'[u].pc = "register" /\ req'[u].gen = g
      BY DEF TasksTracked
    <3>1. g # live.gen /\ proxy[g].stage = "runs"
      BY <2>6
    <3>2. PICK u \in Tasks : req[u].pc = "register" /\ req[u].gen = g
      BY <1>1, <3>1 DEF TrackInv, TasksTracked
    <3> QED
      BY <1>1, <2>1, <3>2
  <2> QED
    BY <2>7, <2>8, <2>9 DEF TrackInv
<1> QED
  BY <1>2, <1>3

\* A port is bound when nobody holds it.
LEMMA TrackBind == ASSUME LifeInv, TrackInv, NEW t \in Tasks, Bind(t) PROVE TrackInv'
<1>1. /\ Busy(t) /\ ~Starting(t) /\ req[t].pc = "bind" /\ binds < MaxBinds
      /\ UNCHANGED <<live, iface, raced>>
  BY DEF Bind, Busy, Starting
<1>2. CASE req[t].cfg.listen \in Held \union {wg}
  <2>1. Answer(t, FALSE) /\ UNCHANGED proxy
    BY <1>2 DEF Bind
  <2> QED
    BY <1>1, <2>1, TrackGo DEF Midway
<1>3. CASE req[t].cfg.listen \notin Held \union {wg}
  <2> DEFINE b == binds + 1
             r == [req[t] EXCEPT !.pc = "register", !.gen = b]
             p == [stage |-> "runs", cfg |-> req[t].cfg]
  <2>1. proxy' = [proxy EXCEPT ![b] = p] /\ \A u \in Tasks : req'[u] = IF u = t THEN r ELSE req[u]
    BY <1>3 DEF Bind, LifeInv, Shape
  <2>2. b \in Gens /\ b \notin 1..binds
    BY <1>1, ProxyLifecycleAssumption DEF LifeInv, Shape, Gens
  <2>3. IsRequest(req[t])
    BY <1>1, BusyFact DEF LifeInv
  <2>4. r.pc = "register" /\ r.cfg = req[t].cfg /\ r.gen = b
    BY <2>3 DEF IsRequest
  <2>5. p.stage = "runs" /\ p.cfg = req[t].cfg
    OBVIOUS
  <2> HIDE DEF r, b, p
  <2>6. \A g \in Gens : proxy'[g] = IF g = b THEN p ELSE proxy[g]
    BY <2>1, <2>2 DEF LifeInv, Shape
  <2>7. PortsApart'
    <3>1. \A g \in Gens : Bound(g) => proxy[g].cfg.listen # req[t].cfg.listen
      BY <1>3 DEF Held, Bound
    <3> QED
      BY <2>5, <2>6, <3>1 DEF TrackInv, PortsApart, Bound
  <2>8. live # NoLive => live.gen \in Gens /\ live.gen # b
    BY <2>2, LiveFact DEF LifeInv, Owned
  <2>9. raced' \/ SamePort'
    BY <1>1, <2>1, <2>4, <2>6, <2>8 DEF TrackInv, SamePort, Busy, Midway
  <2>10. TasksTracked'
    BY <1>1, <2>1, <2>4, <2>6 DEF TrackInv, TasksTracked
  <2> QED
    BY <2>7, <2>9, <2>10 DEF TrackInv
<1> QED
  BY <1>2, <1>3

\* STATE is empty when a proxy is registered: what could be in it has the same
\* port.
LEMMA TrackRegister == ASSUME LifeInv, TrackInv, NEW t \in Tasks, Register(t) PROVE TrackInv'
<1>1. /\ Starting(t) /\ Busy(t) /\ UNCHANGED <<iface, raced, proxy>>
      /\ live' = [gen |-> req[t].gen, hash |-> Hash(req[t].cfg)]
      /\ \A u \in Tasks : req'[u] = IF u = t THEN Idle ELSE req[u]
  BY DEF Register, Starting, Busy, Answer, LifeInv, Shape
<1>2. Idle.pc = "idle" /\ live'.gen = req[t].gen
  BY <1>1 DEF Idle
<1>3. /\ req[t].gen \in Gens /\ req[t].gen # live.gen /\ req[t].cfg # NoConfig
      /\ proxy[req[t].gen] = [stage |-> "runs", cfg |-> req[t].cfg]
  BY <1>1, LiveFact DEF LifeInv, Owned
<1>4. PortsApart'
  BY <1>1 DEF TrackInv, PortsApart, Bound
<1>5. CASE raced
  BY <1>1, <1>4, <1>5 DEF TrackInv, TasksTracked
<1>6. CASE ~raced
  <2>1. proxy[req[t].gen].cfg.listen = iface.port /\ Bound(req[t].gen)
    BY <1>1, <1>3, <1>6 DEF TrackInv, SamePort, Bound
  <2>2. live = NoLive
    <3> SUFFICES ASSUME live # NoLive PROVE FALSE
      OBVIOUS
    <3>1. proxy[live.gen].cfg.listen = iface.port
      BY <1>1, <1>6 DEF TrackInv, SamePort, Starting, Midway
    <3>2. live.gen \in Gens /\ Bound(live.gen)
      BY LiveFact DEF Bound
    <3> QED
      BY <1>3, <2>1, <3>1, <3>2 DEF TrackInv, PortsApart
  <2>3. SamePort'
    BY <1>1, <1>2, <1>6, <2>1 DEF TrackInv, SamePort, Busy, Midway
  <2>4. TasksTracked'
    <3> SUFFICES ASSUME NEW g \in Gens, proxy[g].stage = "runs", g # req[t].gen
                 PROVE  \E u \in Tasks : req'[u].pc = "register" /\ req'[u].gen = g
      BY <1>1, <1>2 DEF TasksTracked
    <3>1. live.gen # g
      BY <2>2, LiveFact
    <3>2. PICK u \in Tasks : req[u].pc = "register" /\ req[u].gen = g
      BY <1>6, <3>1 DEF TrackInv, TasksTracked
    <3>3. req'[u] = req[u]
      BY <1>1, <3>2
    <3> QED
      BY <3>2, <3>3
  <2> QED
    BY <1>4, <2>3, <2>4 DEF TrackInv
<1> QED
  BY <1>5, <1>6

\* A request dropped while it joins has only stopped a proxy.
LEMMA TrackDrop == ASSUME LifeInv, TrackInv, NEW w \in Workers, Drop(w) PROVE TrackInv'
<1>1. w \in Tasks /\ Answer(w, FALSE) /\ UNCHANGED <<live, proxy, iface>>
  BY DEF Drop, Tasks
<1>2. CASE raced'
  BY <1>1, <1>2, TrackQuiet
<1>3. CASE ~raced'
  <2>1. req[w].pc = "join" /\ UNCHANGED raced
    BY <1>3 DEF Drop
  <2> QED
    BY <1>1, <2>1, TrackGo DEF Busy, Starting, Midway
<1> QED
  BY <1>2, <1>3

\* The port is edited while nobody is at work, or the race is on record.
LEMMA TrackArrive ==
  ASSUME LifeInv, TrackInv, NEW w \in Workers,
         UpdateSettings(w) \/ RestartProxy(w) \/ UpdateInterface(w) \/ RestartInterface(w)
  PROVE  TrackInv'
<1>1. /\ UNCHANGED <<live, proxy>>
      /\ (UNCHANGED <<iface, raced>>) \/ raced' = (raced \/ Serving)
      /\ \E pc \in {"save", "saveOnly", "restartOnly"} : Arrive(w, pc)
  BY DEF UpdateSettings, RestartProxy, UpdateInterface, RestartInterface
<1>2. PICK pc \in {"save", "saveOnly", "restartOnly"} : Arrive(w, pc)
  BY <1>1
<1>3. /\ w \in Tasks /\ ~Busy(w)
      /\ req' = [t \in Tasks |->
           IF t = w THEN [Request(pc) EXCEPT !.alone = ~Serving]
           ELSE IF Busy(t) THEN [req[t] EXCEPT !.alone = FALSE] ELSE req[t]]
  BY <1>2 DEF Arrive, Tasks
<1>4. req'[w].pc = pc /\ req'[w].cfg = NoConfig
  BY <1>3 DEF Request
<1>5. ASSUME NEW t \in Tasks, t # w
      PROVE  req'[t].pc = req[t].pc /\ (Busy(t) => req'[t].cfg = req[t].cfg /\ req'[t].gen = req[t].gen)
  <2>1. CASE Busy(t)
    <3>1. IsRequest(req[t])
      BY <2>1, BusyFact DEF LifeInv
    <3>2. req'[t] = [req[t] EXCEPT !.alone = FALSE]
      BY <1>3, <1>5, <2>1
    <3> QED
      BY <3>1, <3>2, RequestFacts
  <2>2. CASE ~Busy(t)
    BY <1>3, <1>5, <2>2
  <2> QED
    BY <2>1, <2>2
<1>6. \/ raced'
      \/ ~raced /\ (iface' = iface \/ ~Serving)
  BY <1>1
<1>7. \A t \in Tasks : Busy(t)' /\ req'[t].cfg # NoConfig => Busy(t) /\ req'[t].cfg = req[t].cfg
  BY <1>4, <1>5 DEF Busy
<1>8. \A t \in Tasks : req'[t].pc \in Midway => Busy(t) /\ req[t].pc \in Midway
  BY <1>4, <1>5 DEF Busy, Midway
<1>9. \A t \in Tasks : Starting(t) => Starting(t)' /\ req'[t].gen = req[t].gen
  BY <1>3, <1>5 DEF Busy, Starting
<1> QED
  BY <1>1, <1>6, <1>7, <1>8, <1>9, TrackQuiet

\* A proxy that was told to stop goes.
LEMMA TrackProxy ==
  ASSUME LifeInv, TrackInv, NEW g \in Gens, TaskEnds(g) \/ SocketCloses(g)
  PROVE  TrackInv'
<1>1. /\ proxy[g].stage \in {"told", "lingers"} /\ UNCHANGED <<iface, req, raced>>
      /\ live' = live \/ live' = NoLive
  BY DEF TaskEnds, SocketCloses
<1>2. live # NoLive => live.gen \in Gens /\ live.gen # g
  BY <1>1, LiveFact
<1>3. live' = live
  BY <1>2, LiveFact DEF TaskEnds, SocketCloses
<1>4. /\ \A h \in Gens \ {g} : proxy'[h] = proxy[h]
      /\ proxy'[g].stage # "runs" /\ (Bound(g)' => proxy'[g].cfg = proxy[g].cfg)
  <2>1. proxy[g] = [stage |-> proxy[g].stage, cfg |-> proxy[g].cfg]
    BY <1>1 DEF LifeInv, Shape, NoProxy
  <2>2. CASE TaskEnds(g)
    <3>1. proxy' = [proxy EXCEPT ![g] = [proxy[g] EXCEPT !.stage = "lingers"]]
      BY <2>2 DEF TaskEnds, LifeInv, Shape
    <3>2. [proxy[g] EXCEPT !.stage = "lingers"].stage = "lingers"
          /\ [proxy[g] EXCEPT !.stage = "lingers"].cfg = proxy[g].cfg
      BY <2>1
    <3> QED
      BY <3>1, <3>2 DEF LifeInv, Shape
  <2>3. CASE SocketCloses(g)
    BY <2>3 DEF SocketCloses, LifeInv, Shape, NoProxy, Bound
  <2> QED
    BY <2>2, <2>3
<1>5. PortsApart'
  BY <1>1, <1>4 DEF TrackInv, PortsApart, Bound
<1>6. raced' \/ SamePort'
  BY <1>1, <1>2, <1>3, <1>4 DEF TrackInv, SamePort, Busy
<1>7. TasksTracked'
  <2> SUFFICES ASSUME ~raced, NEW h \in Gens, proxy'[h].stage = "runs"
               PROVE  live.gen = h \/ \E t \in Tasks : req[t].pc = "register" /\ req[t].gen = h
    BY <1>1, <1>3 DEF TasksTracked
  <2>1. h # g /\ proxy[h].stage = "runs"
    BY <1>4
  <2> QED
    BY <2>1 DEF TrackInv, TasksTracked
<1> QED
  BY <1>5, <1>6, <1>7 DEF TrackInv

\* No proxy, and only startup at work, after Init or a crash.
LEMMA TrackFresh ==
  ASSUME live = NoLive, proxy = [g \in Gens |-> NoProxy],
         req = [t \in Tasks |-> IF t = Main THEN Request("save") ELSE Idle]
  PROVE  TrackInv
<1>1. \A g \in Gens : proxy[g].stage = "none"
  BY DEF NoProxy
<1>2. \A t \in Tasks : Busy(t) => req[t].cfg = NoConfig
  BY DEF Busy, Request, Idle
<1> QED
  BY <1>1, <1>2 DEF TrackInv, PortsApart, Bound, SamePort, TasksTracked

LEMMA TrackCrash == ASSUME Crash PROVE TrackInv'
<1>1. /\ live' = NoLive /\ proxy' = [g \in Gens |-> NoProxy]
      /\ req' = [t \in Tasks |-> IF t = Main THEN Request("save") ELSE Idle]
  BY DEF Crash
<1>2. \A g \in Gens : proxy'[g].stage = "none"
  BY <1>1 DEF NoProxy
<1>3. \A t \in Tasks : Busy(t)' => req'[t].cfg = NoConfig
  BY <1>1 DEF Busy, Request, Idle
<1> QED
  BY <1>1, <1>2, <1>3 DEF TrackInv, PortsApart, Bound, SamePort, TasksTracked

LEMMA TrackStep == LifeInv /\ TrackInv /\ [Next]_vars => TrackInv'
<1> SUFFICES ASSUME LifeInv, TrackInv, [Next]_vars PROVE TrackInv'
  OBVIOUS
<1>1. CASE UNCHANGED vars
  BY <1>1 DEF vars, TrackInv, PortsApart, Bound, SamePort, Busy, TasksTracked
<1>2. ASSUME NEW t \in Tasks, Step(t) PROVE TrackInv'
  BY <1>2, TrackTask, TrackTake, TrackBind, TrackRegister DEF Step
<1> QED
  BY <1>1, <1>2, TrackArrive, TrackDrop, TrackProxy, TrackCrash DEF Next

\* "Running" in the status (proxy/supervisor.rs, status) is never said of a
\* proxy that was told to stop or has ended.
THEOREM RunningIsLiveEver == Spec => []RunningIsLive
<1>1. LifeInv => RunningIsLive
  BY DEF LifeInv, Owned, RunningIsLive, Running
<1> QED
  BY <1>1, LifeInit, LifeStep, PTL DEF Spec

\* ensure_running never leaves a proxy behind that STATE has forgotten, unless
\* the port was edited or a start dropped while another request ran.
THEOREM TasksTrackedEver == Spec => []TasksTracked
<1>1. Init => TrackInv
  BY TrackFresh DEF Init
<1>2. TrackInv => TasksTracked
  BY DEF TrackInv
<1> QED
  BY <1>1, <1>2, LifeInit, LifeStep, TrackStep, PTL DEF Spec
=============================================================================
