---------------------------- MODULE RosterProofs ----------------------------
(***************************************************************************)
(* Theorems about the address allocator and Roster, for any number of      *)
(* clients, accounts, tasks and any width of addresses.                    *)
(***************************************************************************)
EXTENDS Roster, FiniteSetTheorems, WellFoundedInduction, TLAPS

(***************************************************************************)
(* 1. What the allocator returns, for every width, CIDR and set in use.    *)
(***************************************************************************)

\* The candidates of an allocation have a first one.
LEMMA NatMin ==
  ASSUME NEW S \in SUBSET Nat, S # {}
  PROVE  \E a \in S : \A b \in S : a <= b
<1>1. IsWellFoundedOn(OpToRel(<, Nat), Nat)
  BY NatLessThanWellFounded
<1>2. PICK x \in S : \A y \in S : ~ (<<y, x>> \in OpToRel(<, Nat))
  BY <1>1, WFMin
<1>3. ASSUME NEW y \in S PROVE x <= y
  <2>1. x \in Nat /\ y \in Nat
    OBVIOUS
  <2>2. ~ (y < x)
    BY <1>2, <2>1 DEF OpToRel
  <2> QED
    BY <2>1, <2>2
<1> QED
  BY <1>3

\* Blocks of size s tile a space whose size s divides: the block of an
\* address of the space ends within it.
LEMMA BlocksTile ==
  ASSUME NEW a \in Nat, NEW s \in Nat, s > 0,
         NEW n \in Nat, n % s = 0, a < n
  PROVE  a - (a % s) + s <= n
<1> DEFINE q == a \div s  k == n \div s
<1>1. q \in Nat /\ k \in Nat
  OBVIOUS
<1>2. a = s * q + (a % s) /\ 0 <= a % s /\ a % s < s
  OBVIOUS
<1>3. n = s * k
  OBVIOUS
<1> HIDE DEF q, k
<1>4. s * q < s * k
  BY <1>1, <1>2, <1>3
<1>5. q < k
  <2>1. SUFFICES ASSUME k <= q PROVE FALSE
    BY <1>1
  <2>2. s * k <= s * q
    BY <1>1, <2>1
  <2> QED
    BY <1>1, <1>4, <2>2
<1>6. s * q + s <= s * k
  BY <1>1, <1>5
<1> QED
  BY <1>1, <1>2, <1>3, <1>6

\* The block of a CIDR surrounds the address typed and stays in the space.
LEMMA BlockInRange ==
  ASSUME NEW c \in Cidr
  PROVE  /\ Network(c) \in 0 .. c.addr
         /\ Broadcast(c) \in c.addr .. MaxAddr
<1>1. c.size \in BlockSizes /\ c.addr \in 0 .. MaxAddr
  BY DEF Cidr, Addr
<1>2. c.size \in Nat /\ c.size > 0 /\ MaxAddr \in Nat
  <2>1. MaxAddr \in Nat /\ BlockSizes \subseteq 1 .. (MaxAddr + 1)
    BY PoolAssumption DEF PoolAssumption
  <2>2. c.size \in 1 .. (MaxAddr + 1)
    BY <1>1, <2>1
  <2> QED
    BY <2>1, <2>2
<1>3. (MaxAddr + 1) % c.size = 0
  BY <1>1, PoolAssumption DEF PoolAssumption
<1>4. c.addr \in Nat /\ c.addr < MaxAddr + 1 /\ MaxAddr + 1 \in Nat
  BY <1>1, <1>2
<1>5. c.addr % c.size \in 0 .. c.size - 1 /\ c.addr % c.size <= c.addr
  BY <1>2, <1>4
<1>6. c.addr - (c.addr % c.size) + c.size <= MaxAddr + 1
  BY <1>2, <1>3, <1>4, BlocksTile
<1> QED
  BY <1>2, <1>4, <1>5, <1>6 DEF Network, Broadcast

\* The hosts of a CIDR are addresses.
LEMMA HostsAreAddresses ==
  ASSUME NEW c \in Cidr
  PROVE  HostsV4(c) \subseteq Addr
<1>1. c.addr \in Addr /\ MaxAddr \in Nat
  BY PoolAssumption DEF Cidr, PoolAssumption
<1>2. Network(c) \in 0 .. c.addr /\ Broadcast(c) \in c.addr .. MaxAddr
  BY BlockInRange
<1> QED
  BY <1>1, <1>2 DEF HostsV4, Addr

\* FirstOf of a set of addresses is its first member, or NoAddr of none.
LEMMA FirstOfSpec ==
  ASSUME NEW S \in SUBSET Addr
  PROVE  /\ FirstOf(S) = NoAddr <=> S = {}
         /\ FirstOf(S) # NoAddr =>
              FirstOf(S) \in S /\ \A b \in S : FirstOf(S) <= b
<1>1. Addr \subseteq Nat /\ NoAddr \notin Addr
  BY PoolAssumption DEF PoolAssumption, Addr
<1>2. CASE S = {}
  BY <1>2 DEF FirstOf
<1>3. CASE S # {}
  <2>1. \E a \in S : \A b \in S : a <= b
    BY <1>1, <1>3, NatMin
  <2>2. FirstOf(S) \in S /\ \A b \in S : FirstOf(S) <= b
    BY <1>3, <2>1 DEF FirstOf
  <2> QED
    BY <1>1, <1>3, <2>2
<1> QED
  BY <1>2, <1>3

\* next_ipv4 returns the first host of the CIDR that is neither in use nor
\* the server's, and fails exactly when there is none.
THEOREM NextIpv4Sound ==
  ASSUME NEW c \in Cidr, NEW used \in SUBSET Addr
  PROVE  LET ip == NextIpv4(c, used)
             free == HostsV4(c) \ ({ServerAddr(c)} \union used)
         IN  /\ ip = NoAddr <=> free = {}
             /\ ip # NoAddr =>
                  /\ ip \in Addr /\ ip \in HostsV4(c)
                  /\ ip \notin used /\ ip # ServerAddr(c)
                  /\ \A b \in free : ip <= b
<1> DEFINE free == HostsV4(c) \ ({ServerAddr(c)} \union used)
<1>1. free \in SUBSET Addr
  BY HostsAreAddresses
<1>2. NextIpv4(c, used) = FirstOf(free)
  BY DEF NextIpv4
<1> QED
  BY <1>1, <1>2, FirstOfSpec

-----------------------------------------------------------------------------
(***************************************************************************)
(* 2. Types.                                                               *)
(***************************************************************************)

\* The parts of a row and of an update keep their types.
LEMMA ChangeType ==
  ASSUME NEW r \in [ClientId -> Row \union {Absent}], NEW id, NEW change \in Change
  PROVE  WithChange(r, id, change) \in [ClientId -> Row \union {Absent}]
<1>1. CASE r[id] = Absent
  BY <1>1 DEF WithChange
<1>2. CASE r[id] # Absent
  <2>1. ASSUME id \in ClientId PROVE Changed(r[id], change) \in Row
    <3>1. r[id] \in Row
      BY <1>2, <2>1
    <3>2. /\ change.ip # Keep => change.ip \in Addr
          /\ change.enabled # Keep => change.enabled \in BOOLEAN
          /\ change.expiry # Keep => change.expiry \in Expiry
      BY DEF Change
    <3> QED
      BY <3>1, <3>2 DEF Changed, Row
  <2> QED
    BY <1>2, <2>1 DEF WithChange
<1> QED
  BY <1>1, <1>2

LEMMA NoJobType == NoJob \in Job
<1>1. (CHOOSE c \in Cidrs : TRUE) \in Cidr
  BY RosterAssumption DEF RosterAssumption
<1>2. NoChange \in Change
  BY DEF NoChange, Change
<1> QED
  BY <1>1, <1>2 DEF NoJob, Job, Actors

LEMMA TypeInit == Init => TypeOK
<1> SUFFICES ASSUME Init PROVE TypeOK
  OBVIOUS
<1>1. iface \in Cidr
  BY RosterAssumption DEF Init, RosterAssumption
<1>2. pc \in [Tasks -> PC]
  BY DEF Init, PC
<1>3. job \in [Tasks -> Job]
  BY NoJobType DEF Init
<1> QED
  BY <1>1, <1>2, <1>3 DEF Init, TypeOK

\* The locals of a task that starts over.
LEMMA JobTypes ==
  ASSUME job \in [Tasks -> Job], NEW t \in Tasks
  PROVE  /\ [job EXCEPT ![t] = NoJob] \in [Tasks -> Job]
         /\ \A u \in Users :
              [job EXCEPT ![t] = [NoJob EXCEPT !.op = "create", !.owner = u]]
                \in [Tasks -> Job]
         /\ \A c \in Cidr :
              [job EXCEPT ![t] = [@ EXCEPT !.op = "create", !.cidr = c]]
                \in [Tasks -> Job]
         /\ \A op \in Requests, id \in ClientId, change \in Change :
              [job EXCEPT ![t] = [NoJob EXCEPT !.op = op, !.id = id, !.change = change]]
                \in [Tasks -> Job]
         /\ \A c \in Cidr :
              [job EXCEPT ![t] = [NoJob EXCEPT !.op = "cidr", !.cidr = c]]
                \in [Tasks -> Job]
         /\ \A op \in Requests : [job EXCEPT ![t].op = op] \in [Tasks -> Job]
         /\ \A S \in SUBSET ClientId :
              /\ [job EXCEPT ![t].todo = S] \in [Tasks -> Job]
              /\ [job EXCEPT ![t] = [NoJob EXCEPT !.op = "cron", !.todo = S]]
                   \in [Tasks -> Job]
         /\ \A S \in SUBSET ClientId, T \in SUBSET Addr :
              [job EXCEPT ![t].todo = S, ![t].given = T] \in [Tasks -> Job]
<1>1. job[t] \in Job
  OBVIOUS
<1> QED
  BY <1>1, NoJobType DEF Job, Requests, Actors

LEMMA AnswerType ==
  ASSUME TypeOK, NEW t \in Tasks, Answer(t)
  PROVE  pc' \in [Tasks -> PC] /\ job' \in [Tasks -> Job]
  BY JobTypes DEF TypeOK, Answer, Goto, PC

LEMMA RequestType ==
  ASSUME TypeOK, NEW t \in Workers, Request(t)
  PROVE  TypeOK'
<1>1. t \in Tasks
  BY DEF Tasks
<1>2. ASSUME NEW u \in Users, CreateCheckQuota(t, u)
      PROVE  TypeOK'
  BY <1>1, <1>2, JobTypes
  DEF TypeOK, CreateCheckQuota, Goto, PC, db, files, ghosts
<1>3. CASE CreateReadIface(t)
  BY <1>1, <1>3, JobTypes DEF TypeOK, CreateReadIface, Goto, PC, db, files, ghosts
<1>4. ASSUME NEW op \in Requests, NEW id \in ClientId, NEW change \in Change,
             NEW label \in PC, Begin(t, op, id, change, label)
      PROVE  TypeOK'
  BY <1>1, <1>4, JobTypes DEF TypeOK, Begin, Goto, db, files, ghosts
<1>5. CASE UpdateCheck(t)
  BY <1>4, <1>5, RosterAssumption
  DEF RosterAssumption, UpdateCheck, Requests, PC, Ids
<1>6. ASSUME NEW on \in BOOLEAN, ToggleCheck(t, on)
      PROVE  TypeOK'
  <2>1. [NoChange EXCEPT !.enabled = on] \in Change
    BY DEF NoChange, Change
  <2> QED
    BY <1>4, <1>6, <2>1 DEF ToggleCheck, Requests, PC, Ids
<1>7. CASE DeleteCheck(t)
  <2>1. NoChange \in Change
    BY DEF NoChange, Change
  <2> QED
    BY <1>4, <1>7, <2>1 DEF DeleteCheck, Requests, PC, Ids
<1>8. ASSUME NEW c \in Cidrs, ChangeCidrBegin(t, c)
      PROVE  TypeOK'
  BY <1>1, <1>8, JobTypes, RosterAssumption
  DEF RosterAssumption, TypeOK, ChangeCidrBegin, Goto, PC, files, ghosts
<1>9. ASSUME NEW c \in Cidrs, SetInterfaceCidr(t, c)
      PROVE  TypeOK'
  BY <1>1, <1>9, JobTypes, RosterAssumption
  DEF RosterAssumption, TypeOK, SetInterfaceCidr, Goto, PC, files, ghosts, Requests
<1>10. CASE RestartArrives(t)
  BY <1>1, <1>10, JobTypes
  DEF TypeOK, RestartArrives, Goto, PC, db, files, ghosts, Requests
<1> QED
  BY <1>2, <1>3, <1>5, <1>6, <1>7, <1>8, <1>9, <1>10 DEF Request

LEMMA ProceedType ==
  ASSUME TypeOK, NEW t \in Workers, Proceed(t)
  PROVE  TypeOK'
<1>1. t \in Tasks /\ job[t] \in Job
  BY DEF Tasks, TypeOK
<1>2. UsedAddrs(roster) \subseteq Addr
  BY DEF UsedAddrs, Ids, TypeOK, Row
<1>3. ASSUME NEW e \in Expiries \union {"none"}, CreateAlloc(t, e)
      PROVE  TypeOK'
  <2> DEFINE ip  == NextIpv4(job[t].cidr, UsedAddrs(roster))
             row == [ip |-> ip, enabled |-> TRUE, expiry |-> e, owner |-> job[t].owner]
  <2>1. ip \in Addr
    BY <1>1, <1>2, <1>3, NextIpv4Sound DEF Job, CreateAlloc
  <2>2. row \in Row
    BY <1>1, <2>1, RosterAssumption DEF RosterAssumption, Row, Job, Expiry
  <2> HIDE DEF row
  <2>3. roster' = [roster EXCEPT ![nextId] = row]
    BY <1>3 DEF CreateAlloc, row
  <2>4. roster' \in [ClientId -> Row \union {Absent}]
    BY <2>2, <2>3 DEF TypeOK
  <2> QED
    BY <1>1, <1>3, <2>4 DEF TypeOK, CreateAlloc, Goto, PC, files, ghosts
<1>4. CASE CreateExhausted(t)
  BY <1>1, <1>4, AnswerType DEF TypeOK, CreateExhausted, db, files, ghosts
<1>5. CASE UpdateCommit(t)
  <2>1. CASE Answer(t) /\ UNCHANGED roster
    BY <1>1, <1>5, <2>1, AnswerType DEF TypeOK, UpdateCommit, files, ghosts
  <2>2. CASE /\ roster' = WithChange(roster, job[t].id, job[t].change)
             /\ Goto(t, "save.render") /\ UNCHANGED job
    <3>1. roster' \in [ClientId -> Row \union {Absent}]
      BY <1>1, <2>2, ChangeType DEF TypeOK, Job
    <3> QED
      BY <1>1, <1>5, <2>2, <3>1 DEF TypeOK, UpdateCommit, Goto, PC, files, ghosts
  <2> QED
    BY <1>5, <2>1, <2>2 DEF UpdateCommit
<1>6. CASE DeleteCommit(t)
  <2>1. CASE Answer(t) /\ UNCHANGED roster
    BY <1>1, <1>6, <2>1, AnswerType DEF TypeOK, DeleteCommit, files, ghosts
  <2>2. CASE /\ roster' = [roster EXCEPT ![job[t].id] = Absent]
             /\ Goto(t, "save.render") /\ UNCHANGED job
    BY <1>1, <1>6, <2>2 DEF TypeOK, DeleteCommit, Goto, PC, files, ghosts
  <2> QED
    BY <1>6, <2>1, <2>2 DEF DeleteCommit
<1>7. CASE ChangeCidrList(t)
  BY <1>1, <1>7, JobTypes DEF TypeOK, ChangeCidrList, Goto, PC, db, files, ghosts, Ids
<1>8. CASE ChangeCidrAssign(t)
  <2> DEFINE id == Smallest(job[t].todo)
             ip == NextIpv4(job[t].cidr, job[t].given)
  <2>1. CASE ip = NoAddr \/ Conflicts(roster, id, ip)
    <3>1. Answer(t) /\ UNCHANGED <<db, files, ghosts>>
      BY <1>8, <2>1 DEF ChangeCidrAssign, db
    <3>2. pc' \in [Tasks -> PC] /\ job' \in [Tasks -> Job]
      BY <1>1, <3>1, AnswerType
    <3> QED
      BY <3>1, <3>2 DEF TypeOK, db, files, ghosts
  <2>2. CASE ~ (ip = NoAddr \/ Conflicts(roster, id, ip))
    <3>1. ip \in Addr
      BY <1>1, <2>2, NextIpv4Sound DEF Job
    <3>2. [NoChange EXCEPT !.ip = ip] \in Change
      BY <3>1 DEF NoChange, Change
    <3>3. WithChange(roster, id, [NoChange EXCEPT !.ip = ip])
            \in [ClientId -> Row \union {Absent}]
      BY <3>2, ChangeType DEF TypeOK
    <3>4. /\ roster' = WithChange(roster, id, [NoChange EXCEPT !.ip = ip])
          /\ job' = [job EXCEPT ![t].todo = job[t].todo \ {id},
                                ![t].given = job[t].given \union {ip}]
          /\ Goto(t, IF job[t].todo = {id} THEN "save.render" ELSE "cidr.assign")
          /\ UNCHANGED <<iface, nextId, files, ghosts>>
      BY <1>8, <2>2 DEF ChangeCidrAssign
    <3>5. job' \in [Tasks -> Job]
      BY <1>1, <3>1, <3>4 DEF TypeOK, Job
    <3>6. pc' \in [Tasks -> PC]
      BY <1>1, <3>4 DEF TypeOK, Goto, PC
    <3> QED
      BY <3>3, <3>4, <3>5, <3>6 DEF TypeOK, files, ghosts
  <2> QED
    BY <2>1, <2>2
<1> QED
  BY <1>3, <1>4, <1>5, <1>6, <1>7, <1>8 DEF Proceed

LEMMA CronType ==
  ASSUME TypeOK, CronScan \/ CronDisable
  PROVE  TypeOK'
<1>1. Cron \in Tasks /\ job[Cron] \in Job
  BY DEF Tasks, TypeOK
<1>2. CASE CronScan
  <2> DEFINE late == {i \in Ids(roster) : Overdue(roster[i])}
  <2>1. late \in SUBSET ClientId
    BY DEF Ids
  <2> HIDE DEF late
  <2>2. /\ job' = [job EXCEPT ![Cron] = [NoJob EXCEPT !.op = "cron", !.todo = late]]
        /\ Goto(Cron, "cron.disable") /\ UNCHANGED <<db, files, ghosts>>
    BY <1>2 DEF CronScan, late
  <2>3. job' \in [Tasks -> Job]
    BY <1>1, <2>1, <2>2, JobTypes DEF TypeOK
  <2> QED
    BY <1>1, <2>2, <2>3 DEF TypeOK, Goto, PC, db, files, ghosts
<1>3. CASE CronDisable
  <2> DEFINE id == Smallest(job[Cron].todo)
  <2>1. [NoChange EXCEPT !.enabled = FALSE] \in Change
    BY DEF NoChange, Change
  <2>2. WithChange(roster, id, [NoChange EXCEPT !.enabled = FALSE])
          \in [ClientId -> Row \union {Absent}]
    BY <2>1, ChangeType DEF TypeOK
  <2>3. job[Cron].todo \ {id} \in SUBSET ClientId
    BY <1>1 DEF Job
  <2> HIDE DEF id
  <2>4. /\ roster' = WithChange(roster, id, [NoChange EXCEPT !.enabled = FALSE])
        /\ job' = [job EXCEPT ![Cron].todo = job[Cron].todo \ {id}]
        /\ Goto(Cron, IF job[Cron].todo = {id} THEN "save.render" ELSE "cron.disable")
        /\ UNCHANGED <<iface, nextId, files, ghosts>>
    BY <1>3 DEF CronDisable, id
  <2>5. job' \in [Tasks -> Job]
    BY <1>1, <2>3, <2>4, JobTypes DEF TypeOK
  <2> QED
    BY <1>1, <2>2, <2>4, <2>5 DEF TypeOK, Goto, PC, files, ghosts
<1> QED
  BY <1>2, <1>3

\* A row's rank is a number: the rendered blocks are blocks.
LEMMA BlocksType ==
  ASSUME roster \in [ClientId -> Row \union {Absent}]
  PROVE  Blocks(roster) \subseteq Block
<1>1. ASSUME NEW i \in EnabledIds(roster)
      PROVE  RankIn(EnabledIds(roster), i) \in Nat
  <2>1. IsFiniteSet(1 .. MaxClients)
    BY RosterAssumption, FS_Interval DEF RosterAssumption
  <2>2. {j \in EnabledIds(roster) : j <= i} \subseteq 1 .. MaxClients
    BY DEF EnabledIds, Ids, ClientId
  <2> QED
    BY <2>1, <2>2, FS_Subset, FS_CardinalityType DEF RankIn
<1>2. ASSUME NEW i \in EnabledIds(roster)
      PROVE  i \in ClientId /\ roster[i].ip \in Addr
  <2>1. i \in ClientId /\ roster[i] \in Row
    BY DEF EnabledIds, Ids
  <2> QED
    BY <2>1 DEF Row
<1> QED
  BY <1>1, <1>2 DEF Blocks, Block

LEMMA SaveReturnsType ==
  ASSUME TypeOK, NEW t \in Tasks, SaveReturns(t)
  PROVE  pc' \in [Tasks -> PC] /\ job' \in [Tasks -> Job]
<1>1. CASE job[t].op = "boot"
  <2>1. [job[t] EXCEPT !.op = "bringup"] \in Job
    BY DEF TypeOK, Job
  <2> QED
    BY <1>1, <2>1 DEF TypeOK, SaveReturns, Goto, PC
<1>2. CASE job[t].op # "boot"
  BY <1>2, AnswerType DEF SaveReturns
<1> QED
  BY <1>1, <1>2

LEMMA PublishType ==
  ASSUME TypeOK, NEW t \in Tasks,
         Render(t) \/ LinkDown(t) \/ Publish(t) \/ SaveFails(t)
  PROVE  TypeOK'
<1>1. /\ body[t] \subseteq Block
      /\ job[t].id \in ClientId \union {0}
  <2>1. job[t] \in Job /\ body[t] \in SUBSET Block
    BY DEF TypeOK
  <2> QED
    BY <2>1 DEF Job
<1>2. CASE Render(t)
  BY <1>2, BlocksType DEF TypeOK, Render, Goto, PC, db, ghosts
<1>3. CASE LinkDown(t)
  BY <1>3 DEF TypeOK, LinkDown, Goto, PC, db, ghosts
<1>4. CASE OpenTrunc(t)
  BY <1>4 DEF TypeOK, OpenTrunc, Goto, PC, db, ghosts
<1>5. CASE WriteConf(t)
  BY <1>1, <1>5 DEF TypeOK, WriteConf, Overlay, Goto, PC, db, ghosts
<1>6. CASE Strip(t)
  BY <1>6 DEF TypeOK, Strip, Goto, PC, db, ghosts
<1>7. CASE SyncConf(t)
  <2>1. PeersOf(body[t]) \subseteq Peer
    BY <1>1 DEF PeersOf, Block, Peer
  <2>2. revoked' \subseteq ClientId \union {0}
    BY <1>1, <1>7 DEF TypeOK, SyncConf
  <2> QED
    BY <1>7, <2>1, <2>2, SaveReturnsType DEF TypeOK, SyncConf, db
<1>8. CASE SyncNoLink(t)
  BY <1>8, SaveReturnsType DEF TypeOK, SyncNoLink, db, ghosts
<1>9. CASE LinkRead(t)
  <2>1. CASE linkUp
    <3>1. Answer(t) /\ UNCHANGED <<linkUp, body, db, conf, kernel, ghosts>>
      BY <1>9, <2>1 DEF LinkRead
    <3>2. pc' \in [Tasks -> PC] /\ job' \in [Tasks -> Job]
      BY <3>1, AnswerType
    <3> QED
      BY <3>1, <3>2 DEF TypeOK, db, ghosts
  <2>2. CASE ~linkUp
    <3>1. body' = [body EXCEPT ![t] = conf] /\ conf \in SUBSET Block
      BY <1>9, <2>2 DEF TypeOK, LinkRead
    <3> QED
      BY <1>9, <2>2, <3>1 DEF TypeOK, LinkRead, Goto, PC, db, ghosts
  <2> QED
    BY <2>1, <2>2
<1>10. CASE LinkSet(t)
  <2>1. PeersOf(body[t]) \subseteq Peer
    BY <1>1 DEF PeersOf, Block, Peer
  <2>2. pc' \in [Tasks -> PC] /\ job' \in [Tasks -> Job]
    <3>1. CASE job[t].op = "bringup"
      BY <1>10, <3>1 DEF TypeOK, LinkSet, Goto, PC
    <3>2. CASE job[t].op # "bringup"
      BY <1>10, <3>2, AnswerType DEF LinkSet
    <3> QED
      BY <3>1, <3>2
  <2> QED
    BY <1>10, <2>1, <2>2 DEF TypeOK, LinkSet, db, ghosts
<1>11. CASE SaveFails(t)
  BY <1>11, SaveReturnsType DEF TypeOK, SaveFails, db
<1> QED
  BY <1>2, <1>3, <1>4, <1>5, <1>6, <1>7, <1>8, <1>9, <1>10, <1>11 DEF Publish

LEMMA CrashType ==
  ASSUME TypeOK, Crash
  PROVE  TypeOK'
<1>1. [NoJob EXCEPT !.op = "boot"] \in Job
  BY NoJobType DEF Job
<1>2. pc' \in [Tasks -> PC] /\ job' \in [Tasks -> Job]
  BY <1>1, NoJobType DEF Crash, PC
<1>3. linkUp' \in BOOLEAN /\ kernel' \subseteq Peer
  BY DEF TypeOK, Crash
<1>4. body' \in [Tasks -> SUBSET Block]
  BY DEF Crash
<1>5. faults' \in Nat /\ UNCHANGED <<iface, roster, nextId, conf, revoked>>
  BY DEF TypeOK, Crash, db
<1> QED
  BY <1>2, <1>3, <1>4, <1>5 DEF TypeOK

LEMMA TimeType ==
  ASSUME TypeOK, NEW i \in ClientId, TimePasses(i)
  PROVE  TypeOK'
<1>1. roster[i] \in Row
  BY DEF TypeOK, TimePasses, Ids
<1>2. roster' \in [ClientId -> Row \union {Absent}]
  BY <1>1 DEF TypeOK, TimePasses, Row, Expiry
<1> QED
  BY <1>2 DEF TypeOK, TimePasses, files, ghosts

LEMMA TypeStep ==
  ASSUME TypeOK, [Next]_vars
  PROVE  TypeOK'
<1>1. CASE \E t \in Workers : Request(t) \/ Proceed(t)
  BY <1>1, RequestType, ProceedType
<1>2. CASE CronScan \/ CronDisable
  BY <1>2, CronType
<1>3. CASE \E t \in Tasks : Render(t) \/ LinkDown(t) \/ Publish(t) \/ SaveFails(t)
  BY <1>3, PublishType
<1>4. CASE Crash
  BY <1>4, CrashType
<1>5. CASE \E i \in ClientId : TimePasses(i)
  BY <1>5, TimeType
<1>6. CASE UNCHANGED vars
  BY <1>6 DEF vars, TypeOK
<1> QED
  BY <1>1, <1>2, <1>3, <1>4, <1>5, <1>6 DEF Next

\* Type correctness: rows, files, peers and the locals of every task keep the
\* shape their columns and variables have in the code.
THEOREM TypeCorrect == Spec => []TypeOK
<1>1. Init => TypeOK
  BY TypeInit
<1>2. TypeOK /\ [Next]_vars => TypeOK'
  BY TypeStep
<1> QED
  BY <1>1, <1>2, PTL DEF Spec

-----------------------------------------------------------------------------
(***************************************************************************)
(* 3. One save or restart at a time.                                       *)
(***************************************************************************)
\* With a single publisher the file is empty when it is written, a task that
\* is not publishing holds no rendered text, an idle task has no locals.
OnePublisher == \A t, u \in Tasks : Publishing(t) /\ Publishing(u) => t = u
Truncated    == \A t \in Tasks : At(t, "save.write") => conf = {}
NoStaleBody  == \A t \in Tasks : ~Publishing(t) \/ At(t, "link.read") => body[t] = {}
IdleClean    == \A t \in Tasks : At(t, "idle") => job[t] = NoJob

SerialInv == OnePublisher /\ Truncated /\ NoStaleBody /\ IdleClean

\* The labels outside save_config's file work and awg-quick up.
Quiet == {"idle", "create.iface", "create.alloc", "update.commit",
          "delete.commit", "cidr.list", "cidr.assign", "cron.disable",
          "save.render", "link.down"}

LEMMA QuietLabels ==
  ASSUME TypeOK, NEW t \in Tasks
  PROVE  pc[t] \in Quiet <=> ~Publishing(t)
<1>1. pc[t] \in PC
  BY DEF TypeOK
<1> QED
  BY <1>1 DEF PC, Quiet, Publishing

\* A task outside the file work moves from a quiet label to a quiet label, and
\* leaves the file, the interface and every rendered text alone.
QuietStep(t) ==
  /\ UNCHANGED <<conf, linkUp, kernel, body, faults, revoked>>
  /\ pc[t] \in Quiet
  /\ \E label \in Quiet : Goto(t, label) /\ (label = "idle" => job'[t] = NoJob)
  /\ \A u \in Tasks \ {t} : job'[u] = job[u]

LEMMA RequestQuiet ==
  ASSUME TypeOK, NEW t \in Workers, Request(t)
  PROVE  QuietStep(t)
<1>1. t \in Tasks /\ job \in [Tasks -> Job]
  BY DEF Tasks, TypeOK
<1>2. ASSUME NEW u \in Users, CreateCheckQuota(t, u)
      PROVE  QuietStep(t)
  BY <1>1, <1>2 DEF QuietStep, CreateCheckQuota, Arrives, Goto, Quiet, files, ghosts
<1>3. CASE CreateReadIface(t)
  BY <1>1, <1>3 DEF QuietStep, CreateReadIface, Arrives, At, Goto, Quiet, files, ghosts
<1>4. ASSUME NEW op, NEW id, NEW change, NEW label \in Quiet \ {"idle"},
             pc[t] = "idle", Begin(t, op, id, change, label)
      PROVE  QuietStep(t)
  BY <1>1, <1>4 DEF QuietStep, Begin, Goto, Quiet, files, ghosts
<1>5. CASE UpdateCheck(t)
  BY <1>4, <1>5 DEF UpdateCheck, Arrives, Quiet
<1>6. ASSUME NEW on \in BOOLEAN, ToggleCheck(t, on)
      PROVE  QuietStep(t)
  BY <1>4, <1>6 DEF ToggleCheck, Arrives, Quiet
<1>7. CASE DeleteCheck(t)
  BY <1>4, <1>7 DEF DeleteCheck, Arrives, Quiet
<1>8. ASSUME NEW c \in Cidrs, ChangeCidrBegin(t, c)
      PROVE  QuietStep(t)
  BY <1>1, <1>8 DEF QuietStep, ChangeCidrBegin, Arrives, Goto, Quiet, files, ghosts
<1>9. ASSUME NEW c \in Cidrs, SetInterfaceCidr(t, c)
      PROVE  QuietStep(t)
  BY <1>1, <1>9 DEF QuietStep, SetInterfaceCidr, Arrives, Goto, Quiet, files, ghosts
<1>10. CASE RestartArrives(t)
  BY <1>1, <1>10 DEF QuietStep, RestartArrives, Arrives, Goto, Quiet, files, ghosts
<1> QED
  BY <1>2, <1>3, <1>5, <1>6, <1>7, <1>8, <1>9, <1>10 DEF Request

LEMMA AnswerQuiet ==
  ASSUME TypeOK, NEW t \in Tasks, Answer(t), pc[t] \in Quiet,
         UNCHANGED <<conf, linkUp, kernel, body, faults, revoked>>
  PROVE  QuietStep(t)
<1>1. job' = [job EXCEPT ![t] = NoJob] /\ job \in [Tasks -> Job]
  BY DEF Answer, TypeOK
<1> QED
  BY <1>1 DEF QuietStep, Answer, Quiet

LEMMA ProceedQuiet ==
  ASSUME TypeOK, NEW t \in Workers, Proceed(t)
  PROVE  QuietStep(t)
<1>1. t \in Tasks /\ job \in [Tasks -> Job]
  BY DEF Tasks, TypeOK
<1>2. ASSUME NEW e \in Expiries \union {"none"}, CreateAlloc(t, e)
      PROVE  QuietStep(t)
  BY <1>1, <1>2 DEF QuietStep, CreateAlloc, At, Goto, Quiet, files, ghosts
<1>3. CASE CreateExhausted(t)
  BY <1>1, <1>3, AnswerQuiet DEF CreateExhausted, At, Quiet, files, ghosts
<1>4. CASE UpdateCommit(t)
  <2>1. pc[t] \in Quiet /\ UNCHANGED <<conf, linkUp, kernel, body, faults, revoked>>
    BY <1>4 DEF UpdateCommit, At, Quiet, files, ghosts
  <2>2. CASE Answer(t)
    BY <1>1, <2>1, <2>2, AnswerQuiet
  <2>3. CASE Goto(t, "save.render") /\ UNCHANGED job
    BY <1>1, <2>1, <2>3 DEF QuietStep, Quiet
  <2> QED
    BY <1>4, <2>2, <2>3 DEF UpdateCommit
<1>5. CASE DeleteCommit(t)
  <2>1. pc[t] \in Quiet /\ UNCHANGED <<conf, linkUp, kernel, body, faults, revoked>>
    BY <1>5 DEF DeleteCommit, At, Quiet, files, ghosts
  <2>2. CASE Answer(t)
    BY <1>1, <2>1, <2>2, AnswerQuiet
  <2>3. CASE Goto(t, "save.render") /\ UNCHANGED job
    BY <1>1, <2>1, <2>3 DEF QuietStep, Quiet
  <2> QED
    BY <1>5, <2>2, <2>3 DEF DeleteCommit
<1>6. CASE ChangeCidrList(t)
  BY <1>1, <1>6 DEF QuietStep, ChangeCidrList, At, Goto, Quiet, files, ghosts
<1>7. CASE ChangeCidrAssign(t)
  <2> DEFINE id == Smallest(job[t].todo)
             ip == NextIpv4(job[t].cidr, job[t].given)
  <2>1. pc[t] \in Quiet /\ UNCHANGED <<conf, linkUp, kernel, body, faults, revoked>>
    BY <1>7 DEF ChangeCidrAssign, At, Quiet, files, ghosts
  <2>2. CASE Answer(t)
    BY <1>1, <2>1, <2>2, AnswerQuiet
  <2>3. CASE /\ job' = [job EXCEPT ![t].todo = job[t].todo \ {id},
                                   ![t].given = job[t].given \union {ip}]
             /\ Goto(t, IF job[t].todo = {id} THEN "save.render" ELSE "cidr.assign")
    BY <1>1, <2>1, <2>3 DEF QuietStep, Quiet
  <2> QED
    BY <1>7, <2>2, <2>3 DEF ChangeCidrAssign
<1> QED
  BY <1>2, <1>3, <1>4, <1>5, <1>6, <1>7 DEF Proceed

LEMMA CronQuiet ==
  ASSUME TypeOK, CronScan \/ CronDisable
  PROVE  QuietStep(Cron)
<1>1. Cron \in Tasks /\ job \in [Tasks -> Job]
  BY DEF Tasks, TypeOK
<1>2. CASE CronScan
  BY <1>1, <1>2 DEF QuietStep, CronScan, At, Goto, Quiet, files, ghosts
<1>3. CASE CronDisable
  BY <1>1, <1>3 DEF QuietStep, CronDisable, At, Goto, Quiet, files, ghosts
<1> QED
  BY <1>2, <1>3

\* Under MaxSaves = 1 a task may start to publish only when none does.
LEMMA Alone ==
  ASSUME MaxSaves = 1, MayPublish
  PROVE  \A t \in Tasks : ~Publishing(t)
<1> DEFINE S == {t \in Tasks : Publishing(t)}
<1>1. IsFiniteSet(Workers \union {Cron} \union {Main})
  BY RosterAssumption, FS_AddElement DEF RosterAssumption
<1>2. IsFiniteSet(Tasks)
  <2>1. Tasks = Workers \union {Cron} \union {Main}
    BY DEF Tasks
  <2> QED
    BY <1>1, <2>1
<1>3. S \subseteq Tasks
  OBVIOUS
<1>4. IsFiniteSet(S) /\ Cardinality(S) \in Nat
  BY <1>2, <1>3, FS_Subset, FS_CardinalityType
<1>5. Cardinality(S) < 1
  BY DEF MayPublish
<1>6. S = {}
  BY <1>4, <1>5, FS_EmptySet
<1> QED
  BY <1>6

LEMMA QuietSerial ==
  ASSUME TypeOK, SerialInv, NEW t \in Tasks, QuietStep(t)
  PROVE  SerialInv' /\ \A u \in Tasks : Publishing(u)' <=> Publishing(u)
<1>1. PICK label \in Quiet : Goto(t, label) /\ (label = "idle" => job'[t] = NoJob)
  BY DEF QuietStep
<1>2. \A u \in Tasks \ {t} : pc'[u] = pc[u]
  BY <1>1 DEF Goto, TypeOK
<1>3. pc'[t] \in Quiet /\ pc'[t] = label /\ pc[t] \in Quiet
  BY <1>1 DEF Goto, TypeOK, QuietStep
<1>4. \A u \in Tasks : Publishing(u)' <=> Publishing(u)
  BY <1>2, <1>3 DEF Publishing, Quiet
<1>5. OnePublisher' /\ NoStaleBody'
  BY <1>2, <1>3, <1>4
  DEF OnePublisher, NoStaleBody, SerialInv, QuietStep, At, Quiet
<1>6. Truncated'
  BY <1>2, <1>3 DEF Truncated, SerialInv, At, QuietStep, Quiet
<1>7. IdleClean'
  BY <1>1, <1>2, <1>3 DEF IdleClean, SerialInv, At, QuietStep
<1> QED
  BY <1>4, <1>5, <1>6, <1>7 DEF SerialInv

\* What a publishing step does to the labels.
LEMMA PublishSerial ==
  ASSUME MaxSaves = 1, TypeOK, TypeOK', SerialInv, NEW t \in Tasks,
         Render(t) \/ LinkDown(t) \/ Publish(t) \/ SaveFails(t)
  PROVE  SerialInv'
<1>1. /\ \A u \in Tasks \ {t} : pc'[u] = pc[u] /\ body'[u] = body[u] /\ job'[u] = job[u]
      /\ pc'[t] = "idle" => job'[t] = NoJob
  <2>1. ASSUME NEW label \in PC \ {"idle"}, Goto(t, label),
               job' = job \/ job' = [job EXCEPT ![t].op = "bringup"]
        PROVE  /\ \A u \in Tasks \ {t} : pc'[u] = pc[u] /\ job'[u] = job[u]
               /\ pc'[t] = "idle" => job'[t] = NoJob
    BY <2>1 DEF Goto, TypeOK
  <2>2. ASSUME Answer(t)
        PROVE  /\ \A u \in Tasks \ {t} : pc'[u] = pc[u] /\ job'[u] = job[u]
               /\ pc'[t] = "idle" => job'[t] = NoJob
    BY <2>2 DEF Answer, Goto, TypeOK
  <2>3. \A u \in Tasks \ {t} : body'[u] = body[u]
    BY DEF Render, LinkDown, Publish, OpenTrunc, WriteConf, Strip, SyncConf,
           SyncNoLink, LinkRead, LinkSet, SaveFails, TypeOK
  <2>4. SaveReturns(t) => \/ Answer(t)
                          \/ /\ Goto(t, "link.down")
                             /\ job' = [job EXCEPT ![t].op = "bringup"]
    BY DEF SaveReturns
  <2>5. \/ Answer(t)
        \/ \E label \in PC \ {"idle"} :
             /\ Goto(t, label)
             /\ job' = job \/ job' = [job EXCEPT ![t].op = "bringup"]
    BY <2>4 DEF Render, LinkDown, Publish, OpenTrunc, WriteConf, Strip, SyncConf,
           SyncNoLink, LinkRead, LinkSet, SaveFails, PC
  <2> QED
    BY <2>1, <2>2, <2>3, <2>5
<1>2. \A u \in Tasks \ {t} : ~Publishing(u)
  BY Alone DEF SerialInv, OnePublisher, Publishing, Publish, Render, LinkDown,
     OpenTrunc, WriteConf, Strip, SyncConf, SyncNoLink, LinkRead, LinkSet,
     SaveFails, At
<1>3. \A u \in Tasks \ {t} : ~Publishing(u)'
  BY <1>1, <1>2 DEF Publishing
<1>4. OnePublisher'
  BY <1>3 DEF OnePublisher
<1>5. Truncated'
  <2>1. pc'[t] = "save.write" => conf' = {}
    BY DEF SerialInv, Render, LinkDown, Publish, OpenTrunc, WriteConf, Strip,
       SyncConf, SyncNoLink, LinkRead, LinkSet, SaveFails, SaveReturns, Answer,
       Goto, TypeOK
  <2> QED
    BY <1>3, <2>1 DEF Truncated, At, Publishing
<1>6. NoStaleBody'
  <2>1. CASE Render(t) \/ OpenTrunc(t) \/ WriteConf(t) \/ Strip(t)
    <3>1. Publishing(t)' /\ pc'[t] # "link.read"
      BY <2>1 DEF Render, OpenTrunc, WriteConf, Strip, Goto, TypeOK, Publishing
    <3> QED
      BY <1>1, <1>2, <3>1 DEF SerialInv, NoStaleBody, At, Publishing
  <2>2. CASE SyncConf(t) \/ SyncNoLink(t) \/ LinkSet(t) \/ SaveFails(t)
    <3>1. body'[t] = {}
      BY <2>2 DEF SyncConf, SyncNoLink, LinkSet, SaveFails, TypeOK
    <3> QED
      BY <1>1, <1>2, <3>1 DEF SerialInv, NoStaleBody, At, Publishing
  <2>3. CASE LinkDown(t)
    BY <1>1, <1>2, <2>3
    DEF SerialInv, NoStaleBody, At, Publishing, LinkDown
  <2>4. CASE LinkRead(t)
    <3>1. CASE linkUp
      BY <1>1, <1>2, <2>4, <3>1
      DEF SerialInv, NoStaleBody, At, Publishing, LinkRead
    <3>2. CASE ~linkUp
      <4>1. Publishing(t)' /\ pc'[t] # "link.read"
        BY <2>4, <3>2 DEF LinkRead, Goto, TypeOK, Publishing
      <4> QED
        BY <1>1, <1>2, <4>1 DEF SerialInv, NoStaleBody, At, Publishing
    <3> QED
      BY <3>1, <3>2
  <2> QED
    BY <2>1, <2>2, <2>3, <2>4 DEF Publish
<1>7. IdleClean'
  BY <1>1 DEF SerialInv, IdleClean, At
<1> QED
  BY <1>4, <1>5, <1>6, <1>7 DEF SerialInv

LEMMA SerialInit == Init => SerialInv
  BY DEF Init, SerialInv, OnePublisher, Truncated, NoStaleBody, IdleClean,
     Publishing, At

LEMMA SerialStep ==
  ASSUME MaxSaves = 1, TypeOK, TypeOK', SerialInv, [Next]_vars
  PROVE  SerialInv'
<1>1. CASE \E t \in Workers : Request(t) \/ Proceed(t)
  BY <1>1, RequestQuiet, ProceedQuiet, QuietSerial DEF Tasks
<1>2. CASE CronScan \/ CronDisable
  BY <1>2, CronQuiet, QuietSerial DEF Tasks
<1>3. CASE \E t \in Tasks : Render(t) \/ LinkDown(t) \/ Publish(t) \/ SaveFails(t)
  BY <1>3, PublishSerial
<1>4. CASE Crash
  BY <1>4 DEF Crash, SerialInv, OnePublisher, Truncated, NoStaleBody, IdleClean,
     Publishing, At
<1>5. CASE UNCHANGED <<conf, body, pc, job>>
  BY <1>5 DEF SerialInv, OnePublisher, Truncated, NoStaleBody, IdleClean,
     Publishing, At
<1> QED
  BY <1>1, <1>2, <1>3, <1>4, <1>5 DEF Next, TimePasses, files, vars

-----------------------------------------------------------------------------
(***************************************************************************)
(* 4. A revoked client stays out.                                          *)
(***************************************************************************)
\* Ids handed out whose row has been deleted: AUTOINCREMENT never hands them
\* out again.
Gone == {i \in ClientId : i < nextId /\ roster[i] = Absent}

IdsOf(blocks) == {b.id : b \in blocks}

\* Where delete_client may be, and what it knows there.
DeleteAt(t) ==
  job[t].op = "delete" =>
    \/ At(t, "delete.commit") /\ job[t].id \in ClientId
    \/ /\ pc[t] \in {"save.render", "save.open", "save.write", "save.strip",
                     "save.sync"}
       /\ job[t].id \in Gone
       /\ pc[t] \in {"save.open", "save.write", "save.sync"} =>
            job[t].id \notin IdsOf(body[t])
       /\ pc[t] \in {"save.strip", "save.sync"} => job[t].id \notin IdsOf(conf)

RevokedInv ==
  /\ \A i \in Ids(roster) : i < nextId
  /\ \A t \in Tasks : DeleteAt(t)
  /\ revoked \subseteq Gone
  /\ \A i \in revoked :
       /\ i \notin KernelIds /\ i \notin IdsOf(conf)
       /\ \A t \in Tasks : i \notin IdsOf(body[t])

\* Rows come into being at nextId only, and no update brings one back.
LEMMA RowsStep ==
  ASSUME TypeOK, [Next]_vars
  PROVE  /\ nextId' \in Nat /\ nextId <= nextId'
         /\ \A i \in ClientId :
              roster[i] = Absent /\ roster'[i] # Absent => i = nextId /\ i < nextId'
<1> DEFINE Goal == /\ nextId' \in Nat /\ nextId <= nextId'
                   /\ \A i \in ClientId :
                        roster[i] = Absent /\ roster'[i] # Absent
                          => i = nextId /\ i < nextId'
<1>0. nextId \in Nat
  BY DEF TypeOK
<1>1. CASE UNCHANGED <<roster, nextId>>
  BY <1>0, <1>1
<1>2. ASSUME NEW id, NEW change, roster' = WithChange(roster, id, change),
             UNCHANGED nextId
      PROVE  Goal
  BY <1>0, <1>2 DEF WithChange, TypeOK
<1>3. ASSUME NEW t \in Workers, Request(t)
      PROVE  UNCHANGED <<roster, nextId>>
  BY <1>3 DEF Request, CreateCheckQuota, CreateReadIface, UpdateCheck, ToggleCheck,
     DeleteCheck, Begin, ChangeCidrBegin, SetInterfaceCidr, RestartArrives, db
<1>4. ASSUME NEW t \in Workers, Proceed(t)
      PROVE  Goal
  <2>1. ASSUME NEW e, CreateAlloc(t, e)
        PROVE  Goal
    BY <1>0, <2>1 DEF CreateAlloc, TypeOK
  <2>2. CASE CreateExhausted(t) \/ ChangeCidrList(t)
    BY <1>1, <2>2 DEF CreateExhausted, ChangeCidrList, db
  <2>3. CASE UpdateCommit(t)
    BY <1>1, <1>2, <2>3 DEF UpdateCommit
  <2>4. CASE DeleteCommit(t)
    BY <1>0, <2>4 DEF DeleteCommit, TypeOK
  <2>5. CASE ChangeCidrAssign(t)
    BY <1>1, <1>2, <2>5 DEF ChangeCidrAssign
  <2> QED
    BY <1>4, <2>1, <2>2, <2>3, <2>4, <2>5 DEF Proceed
<1>5. CASE CronScan \/ CronDisable
  BY <1>1, <1>2, <1>5 DEF CronScan, CronDisable, db
<1>6. ASSUME NEW t \in Tasks, Render(t) \/ LinkDown(t) \/ Publish(t) \/ SaveFails(t)
      PROVE  UNCHANGED <<roster, nextId>>
  BY <1>6 DEF Render, LinkDown, Publish, OpenTrunc, WriteConf, Strip, SyncConf,
     SyncNoLink, LinkRead, LinkSet, SaveFails, db
<1>7. CASE Crash
  BY <1>1, <1>7 DEF Crash, db
<1>8. ASSUME NEW i \in ClientId, TimePasses(i)
      PROVE  Goal
  BY <1>0, <1>8 DEF TimePasses, TypeOK, Ids
<1>9. CASE UNCHANGED vars
  BY <1>1, <1>9 DEF vars
<1> QED
  BY <1>1, <1>3, <1>4, <1>5, <1>6, <1>7, <1>8, <1>9 DEF Next

LEMMA GoneGrows ==
  ASSUME TypeOK, [Next]_vars
  PROVE  /\ Gone \subseteq Gone'
         /\ (\A i \in Ids(roster) : i < nextId) =>
              (\A i \in Ids(roster)' : i < nextId')
<1>1. nextId \in Nat /\ ClientId \subseteq Nat
  BY RosterAssumption DEF TypeOK, ClientId, RosterAssumption
<1>2. /\ nextId' \in Nat /\ nextId <= nextId'
      /\ \A i \in ClientId :
           roster[i] = Absent /\ roster'[i] # Absent => i = nextId /\ i < nextId'
  BY RowsStep
<1>3. ASSUME NEW i \in Gone
      PROVE  i \in Gone'
  BY <1>1, <1>2, <1>3 DEF Gone
<1>4. ASSUME \A i \in Ids(roster) : i < nextId, NEW i \in Ids(roster)'
      PROVE  i < nextId'
  <2>1. i \in ClientId /\ roster'[i] # Absent
    BY <1>4 DEF Ids
  <2>2. CASE roster[i] = Absent
    BY <1>2, <2>1, <2>2
  <2>3. CASE roster[i] # Absent
    <3>1. i < nextId
      BY <1>4, <2>1, <2>3 DEF Ids
    <3> QED
      BY <1>1, <1>2, <2>1, <3>1
  <2> QED
    BY <2>2, <2>3
<1> QED
  BY <1>3, <1>4

\* A request is a deletion only if it came as one.
LEMMA QuietDelete ==
  ASSUME TypeOK, SerialInv, RevokedInv, [Next]_vars,
         NEW t \in Tasks,
         \/ t \in Workers /\ (Request(t) \/ Proceed(t))
         \/ t = Cron /\ (CronScan \/ CronDisable),
         job'[t].op = "delete"
  PROVE  \/ pc'[t] = "delete.commit" /\ job'[t].id \in ClientId
         \/ pc'[t] = "save.render" /\ job'[t].id \in Gone'
<1>0. /\ job \in [Tasks -> Job] /\ pc \in [Tasks -> PC]
      /\ DeleteAt(t) /\ (pc[t] = "idle" => job[t].op = "none")
  BY DEF TypeOK, RevokedInv, SerialInv, IdleClean, At, NoJob
<1>1. ASSUME t \in Workers, Request(t)
      PROVE  pc'[t] = "delete.commit" /\ job'[t].id \in ClientId
  <2>1. ASSUME NEW op, NEW id \in ClientId, NEW change, NEW label,
               Begin(t, op, id, change, label)
        PROVE  pc'[t] = label /\ job'[t].op = op /\ job'[t].id = id
    BY <1>0, <2>1, NoJobType DEF Begin, Goto, NoJob
  <2>2. CASE UpdateCheck(t)
    BY <2>1, <2>2 DEF UpdateCheck, Ids
  <2>3. ASSUME NEW on \in BOOLEAN, ToggleCheck(t, on)
        PROVE  FALSE
    BY <2>1, <2>3 DEF ToggleCheck, Ids
  <2>4. CASE DeleteCheck(t)
    BY <2>1, <2>4 DEF DeleteCheck, Ids
  <2>5. ASSUME NEW u \in Users, CreateCheckQuota(t, u)
        PROVE  FALSE
    BY <1>0, <2>5 DEF CreateCheckQuota, NoJob
  <2>6. CASE CreateReadIface(t)
    <3>1. job[t] \in Job
      BY <1>0
    <3> QED
      BY <1>0, <2>6, <3>1 DEF CreateReadIface, Job
  <2>7. ASSUME NEW c \in Cidrs, ChangeCidrBegin(t, c)
        PROVE  FALSE
    BY <1>0, <2>7 DEF ChangeCidrBegin, NoJob
  <2>8. ASSUME NEW c \in Cidrs, SetInterfaceCidr(t, c)
        PROVE  FALSE
    <3>1. job[t] \in Job
      BY <1>0
    <3> QED
      BY <1>0, <2>8, <3>1 DEF SetInterfaceCidr, Job
  <2>9. CASE RestartArrives(t)
    <3>1. job[t] \in Job
      BY <1>0
    <3> QED
      BY <1>0, <2>9, <3>1 DEF RestartArrives, Job
  <2> QED
    BY <1>1, <2>2, <2>3, <2>4, <2>5, <2>6, <2>7, <2>8, <2>9 DEF Request
<1>2. ASSUME Answer(t)
      PROVE  FALSE
  BY <1>0, <1>2 DEF Answer, NoJob
<1>3. ASSUME t \in Workers, Proceed(t)
      PROVE  pc'[t] = "save.render" /\ job'[t].id \in Gone'
  <2>1. ASSUME NEW e, CreateAlloc(t, e)
        PROVE  FALSE
    BY <1>0, <2>1 DEF CreateAlloc, DeleteAt, At
  <2>2. CASE CreateExhausted(t)
    BY <1>2, <2>2 DEF CreateExhausted
  <2>3. CASE UpdateCommit(t)
    BY <1>0, <1>2, <2>3 DEF UpdateCommit, DeleteAt, At
  <2>4. CASE DeleteCommit(t)
    <3>1. /\ job' = job /\ pc'[t] = "save.render" /\ nextId' = nextId
          /\ roster[job[t].id] # Absent
          /\ roster' = [roster EXCEPT ![job[t].id] = Absent]
      BY <1>0, <1>2, <2>4 DEF DeleteCommit, Goto
    <3>2. job[t].id \in ClientId
      BY <1>0, <2>4, <3>1 DEF DeleteCommit, DeleteAt, At
    <3>3. job[t].id < nextId
      BY <3>1, <3>2 DEF RevokedInv, Ids
    <3>4. roster'[job[t].id] = Absent
      BY <3>1, <3>2 DEF TypeOK
    <3> QED
      BY <3>1, <3>2, <3>3, <3>4 DEF Gone
  <2>5. ASSUME ChangeCidrList(t) \/ ChangeCidrAssign(t)
        PROVE  FALSE
    <3>1. job[t] \in Job /\ job[t].op # "delete"
      BY <1>0, <2>5 DEF ChangeCidrList, ChangeCidrAssign, DeleteAt, At
    <3> QED
      BY <1>0, <1>2, <2>5, <3>1 DEF ChangeCidrList, ChangeCidrAssign, Job
  <2> QED
    BY <1>3, <2>1, <2>2, <2>3, <2>4, <2>5 DEF Proceed
<1>4. ASSUME t = Cron, CronScan \/ CronDisable
      PROVE  FALSE
  <2>1. CASE CronScan
    BY <1>0, <1>4, <2>1 DEF CronScan, NoJob
  <2>2. CASE CronDisable
    <3>1. job[t] \in Job /\ job[t].op # "delete"
      BY <1>0, <1>4, <2>2 DEF CronDisable, DeleteAt, At
    <3> QED
      BY <1>0, <1>4, <2>2, <3>1 DEF CronDisable, Job
  <2> QED
    BY <1>4, <2>1, <2>2
<1> QED
  BY <1>1, <1>3, <1>4

LEMMA RevokedQuiet ==
  ASSUME TypeOK, SerialInv, RevokedInv, [Next]_vars,
         NEW t \in Tasks,
         \/ t \in Workers /\ (Request(t) \/ Proceed(t))
         \/ t = Cron /\ (CronScan \/ CronDisable)
  PROVE  RevokedInv'
<1>1. QuietStep(t)
  BY RequestQuiet, ProceedQuiet, CronQuiet
<1>2. /\ Gone \subseteq Gone'
      /\ \A i \in Ids(roster)' : i < nextId'
  BY GoneGrows DEF RevokedInv
<1>3. UNCHANGED <<conf, kernel, body, revoked>>
  BY <1>1 DEF QuietStep
<1>4. DeleteAt(t)'
  BY QuietDelete DEF DeleteAt, At
<1>5. ASSUME NEW u \in Tasks \ {t}
      PROVE  DeleteAt(u)'
  <2>1. pc'[u] = pc[u] /\ job'[u] = job[u] /\ DeleteAt(u)
    BY <1>1, <1>5 DEF QuietStep, Goto, TypeOK, RevokedInv
  <2> QED
    BY <1>2, <1>3, <2>1 DEF DeleteAt, At
<1>6. revoked' \subseteq Gone'
  BY <1>2, <1>3 DEF RevokedInv
<1>7. \A i \in revoked' :
        /\ i \notin KernelIds' /\ i \notin IdsOf(conf')
        /\ \A u \in Tasks : i \notin IdsOf(body'[u])
  BY <1>3 DEF RevokedInv, KernelIds
<1> QED
  BY <1>2, <1>4, <1>5, <1>6, <1>7 DEF RevokedInv

\* A rendered text names enabled rows only, a peer list what its file names.
LEMMA BlockIds ==
  /\ \A i \in IdsOf(Blocks(roster)) : i \in Ids(roster)
  /\ \A blocks, i : i \in {p.id : p \in PeersOf(blocks)} <=> i \in IdsOf(blocks)
<1>1. ASSUME NEW i \in IdsOf(Blocks(roster))
      PROVE  i \in Ids(roster)
  <2>1. PICK b \in Blocks(roster) : b.id = i
    BY DEF IdsOf
  <2>2. PICK j \in EnabledIds(roster) :
          b = [pos |-> RankIn(EnabledIds(roster), j), id |-> j, ip |-> roster[j].ip]
    BY DEF Blocks
  <2>3. b.id = j
    BY <2>2
  <2> QED
    BY <2>1, <2>3 DEF EnabledIds
<1>2. ASSUME NEW blocks, NEW i
      PROVE  i \in {p.id : p \in PeersOf(blocks)} <=> i \in IdsOf(blocks)
  <2>1. ASSUME NEW p \in PeersOf(blocks)
        PROVE  p.id \in IdsOf(blocks)
    <3>1. PICK b \in blocks : p = [id |-> b.id, ip |-> b.ip]
      BY DEF PeersOf
    <3> QED
      BY <3>1 DEF IdsOf
  <2>2. ASSUME NEW b \in blocks
        PROVE  b.id \in {p.id : p \in PeersOf(blocks)}
    <3> DEFINE p == [id |-> b.id, ip |-> b.ip]
    <3>1. p \in PeersOf(blocks) /\ p.id = b.id
      BY DEF PeersOf
    <3> QED
      BY <3>1
  <2> QED
    BY <2>1, <2>2 DEF IdsOf
<1> QED
  BY <1>1, <1>2

LEMMA RevokedPublish ==
  ASSUME MaxSaves = 1, TypeOK, SerialInv, RevokedInv, [Next]_vars, NEW t \in Tasks,
         Render(t) \/ LinkDown(t) \/ Publish(t) \/ SaveFails(t)
  PROVE  RevokedInv'
<1>1. UNCHANGED <<iface, roster, nextId>> /\ Gone' = Gone
  BY DEF Render, LinkDown, Publish, OpenTrunc, WriteConf, Strip, SyncConf,
     SyncNoLink, LinkRead, LinkSet, SaveFails, db, Gone
<1>2. \A u \in Tasks \ {t} : ~Publishing(u)
  BY Alone DEF SerialInv, OnePublisher, Publishing, Publish, Render, LinkDown,
     OpenTrunc, WriteConf, Strip, SyncConf, SyncNoLink, LinkRead, LinkSet,
     SaveFails, At
<1>3. \A u \in Tasks \ {t} : pc'[u] = pc[u] /\ body'[u] = body[u] /\ job'[u] = job[u]
  BY DEF Render, LinkDown, Publish, OpenTrunc, WriteConf, Strip, SyncConf,
     SyncNoLink, LinkRead, LinkSet, SaveFails, SaveReturns, Answer, Goto, TypeOK
<1>4. \A u \in Tasks \ {t} : DeleteAt(u)' /\ body'[u] = {}
  BY <1>1, <1>2, <1>3
  DEF RevokedInv, DeleteAt, At, Publishing, SerialInv, NoStaleBody
<1>5. /\ pc \in [Tasks -> PC] /\ job \in [Tasks -> Job]
      /\ body \in [Tasks -> SUBSET Block] /\ DeleteAt(t)
  BY DEF TypeOK, RevokedInv
<1> DEFINE Clean(S) == \A i \in revoked : i \notin S
<1>6. /\ Clean(KernelIds) /\ Clean(IdsOf(conf)) /\ Clean(IdsOf(body[t]))
      /\ Clean(IdsOf(Blocks(roster))) /\ Clean(IdsOf({}))
  BY BlockIds DEF RevokedInv, Gone, IdsOf, Ids
<1>7. SUFFICES /\ DeleteAt(t)'
               /\ revoked' \subseteq Gone
               /\ \A i \in revoked' :
                    i \notin KernelIds' /\ i \notin IdsOf(conf') /\ i \notin IdsOf(body'[t])
  <2>1. \A i, u : i \in IdsOf({}) => FALSE
    BY DEF IdsOf
  <2> QED
    BY <1>1, <1>4, <2>1 DEF RevokedInv, Ids
<1> DEFINE Goal == /\ DeleteAt(t)'
                   /\ revoked' \subseteq Gone
                   /\ \A i \in revoked' :
                        i \notin KernelIds' /\ i \notin IdsOf(conf') /\ i \notin IdsOf(body'[t])
<1>8. revoked \subseteq Gone
  BY DEF RevokedInv
<1>9. CASE Render(t)
  <2>1. /\ body'[t] = Blocks(roster) /\ pc'[t] = "save.open" /\ pc[t] = "save.render"
        /\ UNCHANGED <<conf, kernel, job, revoked>>
    BY <1>5, <1>9 DEF Render, Goto, At, ghosts
  <2>2. job[t].op = "delete" => job[t].id \notin IdsOf(Blocks(roster))
    BY <1>5, <2>1, BlockIds DEF DeleteAt, At, Gone, Ids
  <2>3. DeleteAt(t)'
    BY <1>1, <1>5, <2>1, <2>2 DEF DeleteAt, At
  <2> QED
    BY <1>6, <1>8, <2>1, <2>3 DEF KernelIds
<1>10. CASE OpenTrunc(t)
  <2>1. /\ conf' = {} /\ pc'[t] = "save.write" /\ pc[t] = "save.open"
        /\ UNCHANGED <<body, kernel, job, revoked>>
    BY <1>5, <1>10 DEF OpenTrunc, Goto, At, ghosts
  <2>2. DeleteAt(t)'
    BY <1>1, <1>5, <2>1 DEF DeleteAt, At
  <2> QED
    BY <1>6, <1>8, <2>1, <2>2 DEF KernelIds
<1>11. CASE WriteConf(t)
  <2>1. /\ conf' = body[t] /\ pc'[t] = "save.strip" /\ pc[t] = "save.write"
        /\ UNCHANGED <<body, kernel, job, revoked>>
    <3>1. conf = {}
      BY <1>11 DEF WriteConf, SerialInv, Truncated
    <3>2. Overlay(body[t], conf) = body[t]
      BY <3>1 DEF Overlay
    <3> QED
      BY <1>5, <1>11, <3>2 DEF WriteConf, Goto, At, ghosts
  <2>2. DeleteAt(t)'
    BY <1>1, <1>5, <2>1 DEF DeleteAt, At
  <2> QED
    BY <1>6, <1>8, <2>1, <2>2 DEF KernelIds
<1>12. CASE Strip(t)
  <2>1. /\ body'[t] = conf /\ pc'[t] = "save.sync" /\ pc[t] = "save.strip"
        /\ UNCHANGED <<conf, kernel, job, revoked>>
    BY <1>5, <1>12 DEF Strip, Goto, At, ghosts
  <2>2. DeleteAt(t)'
    BY <1>1, <1>5, <2>1 DEF DeleteAt, At
  <2> QED
    BY <1>6, <1>8, <2>1, <2>2 DEF KernelIds
<1>13. ASSUME SaveReturns(t), pc[t] # "delete.commit"
       PROVE  DeleteAt(t)'
  <2>1. CASE job[t].op = "boot"
    <3>1. pc'[t] = "link.down" /\ job'[t].op = "bringup"
      BY <1>5, <1>13, <2>1 DEF SaveReturns, Goto, Job
    <3> QED
      BY <3>1 DEF DeleteAt
  <2>2. CASE job[t].op # "boot"
    BY <1>5, <1>13, <2>2 DEF SaveReturns, Answer, DeleteAt, NoJob
  <2> QED
    BY <2>1, <2>2
<1>14. CASE SyncConf(t)
  <2>1. /\ body'[t] = {} /\ kernel' = PeersOf(body[t]) /\ conf' = conf
        /\ pc[t] = "save.sync" /\ SaveReturns(t)
        /\ revoked' = IF job[t].op = "delete" THEN revoked \union {job[t].id} ELSE revoked
    BY <1>5, <1>14 DEF SyncConf, At
  <2>2. \A i : i \in KernelIds' <=> i \in IdsOf(body[t])
    BY <2>1, BlockIds DEF KernelIds
  <2>3. job[t].op = "delete" =>
          /\ job[t].id \in Gone /\ job[t].id \notin IdsOf(body[t])
          /\ job[t].id \notin IdsOf(conf)
    BY <1>5, <2>1 DEF DeleteAt, At
  <2>4. IdsOf(body'[t]) = {}
    BY <2>1 DEF IdsOf
  <2> QED
    BY <1>6, <1>8, <1>13, <2>1, <2>2, <2>3, <2>4
<1>15. CASE SyncNoLink(t) \/ SaveFails(t)
  <2>1. /\ body'[t] = {} /\ pc[t] # "delete.commit" /\ SaveReturns(t)
        /\ UNCHANGED <<conf, kernel, revoked>>
    BY <1>5, <1>15 DEF SyncNoLink, SaveFails, At, ghosts
  <2> QED
    BY <1>6, <1>8, <1>13, <2>1 DEF KernelIds
<1>16. CASE LinkDown(t)
  <2>1. /\ kernel' = {} /\ pc[t] = "link.down"
        /\ UNCHANGED <<conf, body, job, revoked>>
    BY <1>5, <1>16 DEF LinkDown, At, ghosts
  <2>2. DeleteAt(t)'
    BY <1>5, <2>1 DEF DeleteAt, At
  <2>3. KernelIds' = {}
    BY <2>1 DEF KernelIds
  <2> QED
    BY <1>6, <1>8, <2>1, <2>2, <2>3
<1>17. CASE LinkRead(t) \/ LinkSet(t)
  <2>1. pc[t] \in {"link.read", "link.set"} /\ job[t].op # "delete"
    BY <1>5, <1>17 DEF LinkRead, LinkSet, At, DeleteAt
  <2>2. /\ UNCHANGED <<conf, revoked>>
        /\ job'[t] = NoJob \/ job' = job
        /\ body'[t] \in {conf, body[t], {}}
        /\ kernel' \in {kernel, PeersOf(body[t])}
    BY <1>5, <1>17 DEF LinkRead, LinkSet, Answer, ghosts
  <2>3. DeleteAt(t)'
    BY <2>1, <2>2 DEF DeleteAt, NoJob
  <2>4. \A i : i \in KernelIds' => i \in KernelIds \/ i \in IdsOf(body[t])
    BY <2>2, BlockIds DEF KernelIds
  <2> QED
    BY <1>6, <1>8, <2>2, <2>3, <2>4
<1> QED
  BY <1>9, <1>10, <1>11, <1>12, <1>14, <1>15, <1>16, <1>17 DEF Publish

LEMMA RevokedStep ==
  ASSUME MaxSaves = 1, TypeOK, SerialInv, RevokedInv, [Next]_vars
  PROVE  RevokedInv'
<1>1. CASE \E t \in Workers : Request(t) \/ Proceed(t)
  BY <1>1, RevokedQuiet DEF Tasks
<1>2. CASE CronScan \/ CronDisable
  BY <1>2, RevokedQuiet DEF Tasks
<1>3. CASE \E t \in Tasks : Render(t) \/ LinkDown(t) \/ Publish(t) \/ SaveFails(t)
  BY <1>3, RevokedPublish
<1>4. Gone \subseteq Gone' /\ \A i \in Ids(roster)' : i < nextId'
  BY GoneGrows DEF RevokedInv
<1>5. CASE Crash
  <2>1. \A t \in Tasks : job'[t].op # "delete" /\ IdsOf(body'[t]) = {}
    BY <1>5, NoJobType DEF Crash, NoJob, IdsOf, Job
  <2>2. UNCHANGED <<conf, revoked>> /\ kernel' \in {kernel, {}}
    BY <1>5 DEF Crash
  <2>3. \A i : i \in KernelIds' => i \in KernelIds
    BY <2>2 DEF KernelIds
  <2> QED
    BY <1>4, <2>1, <2>2, <2>3 DEF RevokedInv, DeleteAt
<1>6. CASE UNCHANGED <<conf, kernel, body, pc, job, revoked>>
  BY <1>4, <1>6 DEF RevokedInv, DeleteAt, At, KernelIds
<1> QED
  BY <1>1, <1>2, <1>3, <1>5, <1>6 DEF Next, TimePasses, files, ghosts, vars

\* When saves and restarts do not overlap, a client whose deletion was
\* answered with 200 never has a peer again, in the kernel or in the file,
\* through any sequence of requests, failed saves, restarts and crashes.
THEOREM RevokedStaysOutSerially ==
  ASSUME MaxSaves = 1
  PROVE  Spec => []RevokedStaysOut
<1> DEFINE IInv == TypeOK /\ SerialInv /\ RevokedInv
<1>1. Init => IInv
  <2>1. Init => RevokedInv
    BY NoJobType DEF Init, RevokedInv, Ids, DeleteAt, NoJob, KernelIds
  <2> QED
    BY <2>1, TypeInit, SerialInit
<1>2. IInv /\ [Next]_vars => IInv'
  BY TypeStep, SerialStep, RevokedStep
<1>3. IInv => RevokedStaysOut
  BY DEF RevokedInv, RevokedStaysOut, IdsOf
<1> QED
  BY <1>1, <1>2, <1>3, PTL DEF Spec
-----------------------------------------------------------------------------
(***************************************************************************)
(* 5. No two peers of the kernel claim one address.                        *)
(***************************************************************************)
\* The UNIQUE index of clients_table, and the same of the rendered files and
\* of the peers: an address names one client.
RowsUnique(r) == \A i, j \in Ids(r) : r[i].ip = r[j].ip => i = j
OnePerAddr(S) == \A b, c \in S : b.ip = c.ip => b.id = c.id

AddrInv ==
  /\ RowsUnique(roster)
  /\ OnePerAddr(conf) /\ OnePerAddr(kernel)
  /\ \A t \in Tasks : OnePerAddr(body[t])

\* An update whose address nobody else has.
LEMMA ChangeUnique ==
  ASSUME NEW r \in [ClientId -> Row \union {Absent}], RowsUnique(r),
         NEW id, NEW change \in Change, ~Conflicts(r, id, change.ip)
  PROVE  RowsUnique(WithChange(r, id, change))
<1> DEFINE s == WithChange(r, id, change)
<1>1. CASE r[id] = Absent
  BY <1>1 DEF WithChange
<1>2. CASE r[id] # Absent
  <2>1. \A i \in ClientId : s[i] = IF i = id THEN Changed(r[i], change) ELSE r[i]
    BY <1>2 DEF WithChange
  <2>2. \A i \in Ids(s) : i \in Ids(r)
    BY <1>2, <2>1 DEF Ids
  <2>3. \A i \in Ids(r) :
          s[i].ip = IF i = id /\ change.ip # Keep THEN change.ip ELSE r[i].ip
    <3>1. ASSUME NEW i \in Ids(r)
          PROVE  r[i] \in Row
      BY DEF Ids
    <3> QED
      BY <2>1, <3>1 DEF Changed, Row, Ids
  <2>4. ASSUME NEW i \in Ids(s), NEW j \in Ids(s), s[i].ip = s[j].ip
        PROVE  i = j
    <3>1. i \in Ids(r) /\ j \in Ids(r)
      BY <2>2
    <3>2. \A k \in Ids(r) : r[k].ip = change.ip => k = id
      BY <1>2 DEF Conflicts
    <3> QED
      BY <2>3, <2>4, <3>1, <3>2 DEF RowsUnique
  <2> QED
    BY <2>4 DEF RowsUnique
<1> QED
  BY <1>1, <1>2

\* Rows that keep their addresses, or go.
LEMMA FewerUnique ==
  ASSUME NEW r, RowsUnique(r), NEW s,
         \A i \in Ids(s) : i \in Ids(r) /\ s[i].ip = r[i].ip
  PROVE  RowsUnique(s)
  BY DEF RowsUnique

\* A text rendered from such rows, and a peer list made of such a text.
LEMMA BlocksUnique ==
  /\ RowsUnique(roster) => OnePerAddr(Blocks(roster))
  /\ \A blocks : OnePerAddr(blocks) => OnePerAddr(PeersOf(blocks))
<1>1. ASSUME RowsUnique(roster), NEW b \in Blocks(roster), NEW c \in Blocks(roster),
             b.ip = c.ip
      PROVE  b.id = c.id
  <2>1. PICK i \in EnabledIds(roster) :
          b = [pos |-> RankIn(EnabledIds(roster), i), id |-> i, ip |-> roster[i].ip]
    BY DEF Blocks
  <2>2. PICK j \in EnabledIds(roster) :
          c = [pos |-> RankIn(EnabledIds(roster), j), id |-> j, ip |-> roster[j].ip]
    BY DEF Blocks
  <2>3. b.id = i /\ b.ip = roster[i].ip /\ c.id = j /\ c.ip = roster[j].ip
    BY <2>1, <2>2
  <2> QED
    BY <1>1, <2>3 DEF RowsUnique, EnabledIds
<1>2. ASSUME NEW blocks, OnePerAddr(blocks), NEW p \in PeersOf(blocks),
             NEW q \in PeersOf(blocks), p.ip = q.ip
      PROVE  p.id = q.id
  <2>1. PICK b \in blocks : p = [id |-> b.id, ip |-> b.ip]
    BY DEF PeersOf
  <2>2. PICK c \in blocks : q = [id |-> c.id, ip |-> c.ip]
    BY DEF PeersOf
  <2> QED
    BY <1>2, <2>1, <2>2 DEF OnePerAddr
<1> QED
  BY <1>1, <1>2 DEF OnePerAddr

\* The handlers and the job keep the addresses of the table distinct.
LEMMA RowsUniqueStep ==
  ASSUME TypeOK, RowsUnique(roster), [Next]_vars
  PROVE  RowsUnique(roster')
<1>0. /\ roster \in [ClientId -> Row \union {Absent}] /\ job \in [Tasks -> Job]
      /\ Workers \subseteq Tasks
  BY DEF TypeOK, Tasks
<1>1. CASE UNCHANGED roster
  BY <1>1
<1>2. ASSUME NEW t \in Workers, Request(t)
      PROVE  UNCHANGED roster
  BY <1>2 DEF Request, CreateCheckQuota, CreateReadIface, UpdateCheck, ToggleCheck,
     DeleteCheck, Begin, ChangeCidrBegin, SetInterfaceCidr, RestartArrives, db
<1>3. ASSUME NEW t \in Workers, NEW e, CreateAlloc(t, e)
      PROVE  RowsUnique(roster')
  <2> DEFINE ip == NextIpv4(job[t].cidr, UsedAddrs(roster))
  <2>1. job[t].cidr \in Cidr
    BY <1>0 DEF Job
  <2>2. UsedAddrs(roster) \in SUBSET Addr
    BY <1>0 DEF UsedAddrs, Ids, Row
  <2>3. ip \notin UsedAddrs(roster)
    BY <1>3, <2>1, <2>2, NextIpv4Sound DEF CreateAlloc
  <2>4. \A i \in Ids(roster) : roster[i].ip # ip
    BY <2>3 DEF UsedAddrs
  <2>5. \A i \in Ids(roster') :
          \/ i = nextId /\ roster'[i].ip = ip
          \/ i # nextId /\ i \in Ids(roster) /\ roster'[i].ip = roster[i].ip
    BY <1>0, <1>3 DEF CreateAlloc, Ids
  <2> QED
    BY <2>4, <2>5 DEF RowsUnique
<1>4. ASSUME NEW t \in Workers, UpdateCommit(t)
      PROVE  RowsUnique(roster')
  <2>1. job[t].change \in Change
    BY <1>0 DEF Job
  <2> QED
    BY <1>0, <1>1, <1>4, <2>1, ChangeUnique DEF UpdateCommit
<1>5. ASSUME NEW t \in Workers, DeleteCommit(t)
      PROVE  RowsUnique(roster')
  <2>1. \A i \in Ids(roster') : i \in Ids(roster) /\ roster'[i].ip = roster[i].ip
    BY <1>0, <1>5 DEF DeleteCommit, Ids
  <2> QED
    BY <2>1, FewerUnique
<1>6. ASSUME NEW t \in Workers, ChangeCidrAssign(t)
      PROVE  RowsUnique(roster')
  <2> DEFINE id == Smallest(job[t].todo)
             ip == NextIpv4(job[t].cidr, job[t].given)
  <2>1. job[t].cidr \in Cidr /\ job[t].given \in SUBSET Addr
    BY <1>0 DEF Job
  <2>2. ip # NoAddr => ip \in Addr
    BY <2>1, NextIpv4Sound
  <2>3. ip # NoAddr => [NoChange EXCEPT !.ip = ip] \in Change
    BY <2>2 DEF NoChange, Change
  <2>4. [NoChange EXCEPT !.ip = ip].ip = ip
    BY DEF NoChange
  <2>5. CASE ip = NoAddr \/ Conflicts(roster, id, ip)
    BY <1>1, <1>6, <2>5 DEF ChangeCidrAssign
  <2>6. CASE ip # NoAddr /\ ~Conflicts(roster, id, ip)
    <3>1. roster' = WithChange(roster, id, [NoChange EXCEPT !.ip = ip])
      BY <1>6, <2>6 DEF ChangeCidrAssign
    <3> HIDE DEF id, ip
    <3> QED
      BY <1>0, <2>3, <2>4, <2>6, <3>1, ChangeUnique
  <2> QED
    BY <2>5, <2>6
<1>7. CASE CronScan \/ CronDisable
  <2>1. [NoChange EXCEPT !.enabled = FALSE] \in Change
    BY DEF NoChange, Change
  <2>2. \A id : ~Conflicts(roster, id, Keep)
    BY <1>0, RosterAssumption DEF RosterAssumption, Conflicts, Ids, Row
  <2> QED
    BY <1>0, <1>1, <1>7, <2>1, <2>2, ChangeUnique DEF CronScan, CronDisable, NoChange, db
<1>8. ASSUME NEW t \in Tasks, Render(t) \/ LinkDown(t) \/ Publish(t) \/ SaveFails(t)
      PROVE  UNCHANGED roster
  BY <1>8 DEF Render, LinkDown, Publish, OpenTrunc, WriteConf, Strip, SyncConf,
     SyncNoLink, LinkRead, LinkSet, SaveFails, db
<1>9. ASSUME NEW k \in ClientId, TimePasses(k)
      PROVE  RowsUnique(roster')
  <2>1. \A i \in Ids(roster) : roster[i] \in Row
    BY <1>0 DEF Ids
  <2>2. \A i \in Ids(roster') : i \in Ids(roster) /\ roster'[i].ip = roster[i].ip
    BY <1>0, <1>9, <2>1 DEF TimePasses, Ids, Row
  <2> QED
    BY <2>2, FewerUnique
<1> QED
  BY <1>1, <1>2, <1>3, <1>4, <1>5, <1>6, <1>7, <1>8, <1>9
  DEF Next, Proceed, CreateExhausted, ChangeCidrList, Crash, db, vars

LEMMA AddrStep ==
  ASSUME MaxSaves = 1, TypeOK, SerialInv, AddrInv, [Next]_vars
  PROVE  AddrInv'
<1>1. RowsUnique(roster')
  BY RowsUniqueStep DEF AddrInv
<1>2. OnePerAddr({})
  BY DEF OnePerAddr
<1>3. ASSUME NEW t \in Workers, Request(t) \/ Proceed(t)
      PROVE  UNCHANGED files
  BY <1>3, RequestQuiet, ProceedQuiet DEF QuietStep, files
<1>4. ASSUME CronScan \/ CronDisable
      PROVE  UNCHANGED files
  BY <1>4 DEF CronScan, CronDisable
<1>5. ASSUME NEW t \in Tasks, Render(t) \/ LinkDown(t) \/ Publish(t) \/ SaveFails(t)
      PROVE  /\ OnePerAddr(conf') /\ OnePerAddr(kernel')
             /\ \A u \in Tasks : OnePerAddr(body'[u])
  <2>1. At(t, "save.write") => Overlay(body[t], conf) = body[t]
    BY DEF SerialInv, Truncated, Overlay
  <2>2. conf' \in {conf, {}, body[t]}
    BY <1>5, <2>1 DEF Render, LinkDown, Publish, OpenTrunc, WriteConf, Strip,
       SyncConf, SyncNoLink, LinkRead, LinkSet, SaveFails
  <2>3. kernel' \in {kernel, {}, PeersOf(body[t])}
    BY <1>5 DEF Render, LinkDown, Publish, OpenTrunc, WriteConf, Strip,
       SyncConf, SyncNoLink, LinkRead, LinkSet, SaveFails
  <2>4. \A u \in Tasks : body'[u] \in {body[u], {}, conf, Blocks(roster)}
    BY <1>5 DEF TypeOK, Render, LinkDown, Publish, OpenTrunc, WriteConf, Strip,
       SyncConf, SyncNoLink, LinkRead, LinkSet, SaveFails
  <2> QED
    BY <1>2, <1>5, <2>2, <2>3, <2>4, BlocksUnique DEF AddrInv
<1>6. CASE Crash
  BY <1>1, <1>2, <1>6 DEF Crash, AddrInv
<1>7. CASE UNCHANGED files
  BY <1>1, <1>7 DEF files, AddrInv
<1> QED
  BY <1>1, <1>3, <1>4, <1>5, <1>6, <1>7 DEF Next, TimePasses, AddrInv, files, vars

\* When saves and restarts do not overlap, two peers of the kernel never claim
\* one address: the UNIQUE index of clients_table carries over to what
\* syncconf and awg-quick apply, through failures, crashes and readdressing.
THEOREM KernelAddressesUniqueSerially ==
  ASSUME MaxSaves = 1
  PROVE  Spec => []KernelAddressesUnique
<1> DEFINE IInv == TypeOK /\ SerialInv /\ AddrInv
<1>1. Init => IInv
  <2>1. Init => AddrInv
    BY DEF Init, AddrInv, RowsUnique, OnePerAddr, Ids
  <2> QED
    BY <2>1, TypeInit, SerialInit
<1>2. IInv /\ [Next]_vars => IInv'
  BY TypeStep, SerialStep, AddrStep DEF AddrInv
<1>3. IInv => KernelAddressesUnique
  <2>1. ASSUME TypeOK, NEW p \in kernel, NEW q \in kernel, p.ip = q.ip, p.id = q.id
        PROVE  p = q
    BY <2>1 DEF TypeOK, Peer
  <2> QED
    BY <2>1 DEF AddrInv, OnePerAddr, KernelAddressesUnique
<1> QED
  BY <1>1, <1>2, <1>3, PTL DEF Spec

-----------------------------------------------------------------------------
(***************************************************************************)
(* 6. How far an account can exceed its quota.                             *)
(*                                                                         *)
(* QuotaBound is not inductive: it says nothing of the handlers that have  *)
(* counted the rows and not yet inserted theirs.  Each of them is worth a  *)
(* row already; a handler that passes the count finds fewer rows than the  *)
(* quota.                                                                  *)
(***************************************************************************)
CreatePc == {"create.iface", "create.alloc"}

Creating(u) == {t \in Workers : pc[t] \in CreatePc /\ job[t].owner = u}

\* A handler that has not counted for an account works for none.
IdleUnowned == \A t \in Tasks : At(t, "idle") => job[t].owner = Admin

QuotaInv ==
  /\ IdleUnowned
  /\ \A u \in Users :
       Cardinality(OwnedBy(roster, u)) + Cardinality(Creating(u))
         <= Quota - 1 + Cardinality(Workers)

\* Rows and handlers are finitely many.
LEMMA QuotaSets ==
  ASSUME NEW r, NEW u
  PROVE  /\ IsFiniteSet(OwnedBy(r, u)) /\ Cardinality(OwnedBy(r, u)) \in Nat
         /\ IsFiniteSet(Workers) /\ Cardinality(Workers) \in Nat
         /\ \A S \in SUBSET Workers :
              /\ IsFiniteSet(S) /\ Cardinality(S) \in Nat
              /\ Cardinality(S) <= Cardinality(Workers)
<1>1. IsFiniteSet(ClientId)
  BY RosterAssumption, FS_Interval DEF RosterAssumption, ClientId
<1>2. OwnedBy(r, u) \subseteq ClientId
  BY DEF OwnedBy, Ids
<1>3. IsFiniteSet(Workers)
  BY RosterAssumption DEF RosterAssumption
<1> QED
  BY <1>1, <1>2, <1>3, FS_Subset, FS_CardinalityType

\* Only the count makes a handler work for an account.
LEMMA CreatingStep ==
  ASSUME TypeOK, IdleUnowned, [Next]_vars
  PROVE  /\ IdleUnowned'
         /\ \A t \in Workers :
              pc'[t] \in CreatePc /\ job'[t].owner \in Users =>
                \/ pc[t] \in CreatePc /\ job'[t].owner = job[t].owner
                \/ CreateCheckQuota(t, job'[t].owner)
<1> DEFINE Keeps(t) ==
             /\ pc'[t] = "idle" => job'[t].owner = Admin
             /\ pc'[t] \in CreatePc /\ job'[t].owner \in Users =>
                  \/ pc[t] \in CreatePc /\ job'[t].owner = job[t].owner
                  \/ CreateCheckQuota(t, job'[t].owner)
<1>0. /\ pc \in [Tasks -> PC] /\ job \in [Tasks -> Job]
      /\ Admin \notin Users /\ Workers \subseteq Tasks /\ Cron \in Tasks
      /\ NoJob.owner = Admin
  BY RosterAssumption DEF RosterAssumption, TypeOK, Tasks, NoJob
<1>1. SUFFICES \A t \in Tasks : Keeps(t)
  BY <1>0 DEF IdleUnowned, At
<1>2. ASSUME NEW t \in Tasks, pc'[t] = pc[t], job'[t].owner = job[t].owner
      PROVE  Keeps(t)
  BY <1>2 DEF IdleUnowned, At
<1>3. ASSUME NEW t \in Tasks,
             \A u \in Tasks : u # t => pc'[u] = pc[u] /\ job'[u] = job[u], Keeps(t)
      PROVE  \A u \in Tasks : Keeps(u)
  BY <1>2, <1>3
<1>4. ASSUME NEW t \in Tasks, Answer(t)
      PROVE  \A u \in Tasks : Keeps(u)
  <2>1. pc'[t] = "idle" /\ job'[t] = NoJob
    BY <1>0, <1>4 DEF Answer, Goto
  <2>2. Keeps(t)
    BY <1>0, <2>1 DEF CreatePc
  <2>3. \A u \in Tasks : u # t => pc'[u] = pc[u] /\ job'[u] = job[u]
    BY <1>0, <1>4 DEF Answer, Goto
  <2> HIDE DEF Keeps
  <2> QED
    BY <1>3, <2>2, <2>3
<1>5. ASSUME NEW t \in Tasks, NEW l, Goto(t, l), l \notin CreatePc \union {"idle"},
             \A u \in Tasks : u # t => job'[u] = job[u]
      PROVE  \A u \in Tasks : Keeps(u)
  <2>1. pc'[t] = l /\ \A u \in Tasks : u # t => pc'[u] = pc[u]
    BY <1>0, <1>5 DEF Goto
  <2>2. Keeps(t)
    BY <1>5, <2>1
  <2> HIDE DEF Keeps
  <2> QED
    BY <1>3, <1>5, <2>1, <2>2
<1>6. ASSUME UNCHANGED <<pc, job>> PROVE \A u \in Tasks : Keeps(u)
  BY <1>2, <1>6
<1>7. ASSUME NEW t \in Workers, Request(t) PROVE \A u \in Tasks : Keeps(u)
  <2> HIDE DEF Keeps
  <2>1. ASSUME NEW u \in Users, CreateCheckQuota(t, u)
        PROVE  \A v \in Tasks : Keeps(v)
    <3> DEFINE j == [NoJob EXCEPT !.op = "create", !.owner = u]
    <3>1. job' = [job EXCEPT ![t] = j] /\ pc' = [pc EXCEPT ![t] = "create.iface"]
      BY <2>1 DEF CreateCheckQuota, Goto
    <3>2. j.owner = u
      BY DEF NoJob
    <3> HIDE DEF j
    <3>3. pc'[t] = "create.iface" /\ job'[t].owner = u
      BY <1>0, <3>1, <3>2
    <3>4. Keeps(t)
      BY <2>1, <3>3 DEF Keeps
    <3> QED
      BY <1>0, <1>3, <3>1, <3>4
  <2>2. CASE CreateReadIface(t)
    <3> DEFINE j == [job[t] EXCEPT !.op = "create", !.cidr = iface]
    <3>1. job' = [job EXCEPT ![t] = j] /\ pc' = [pc EXCEPT ![t] = "create.alloc"]
      BY <2>2 DEF CreateReadIface, Goto
    <3>2. j.owner = job[t].owner
      BY <1>0 DEF Job
    <3> HIDE DEF j
    <3>3. pc'[t] = "create.alloc" /\ job'[t].owner = job[t].owner
      BY <1>0, <3>1, <3>2
    <3>4. pc[t] = "create.iface" \/ (pc[t] = "idle" /\ job[t].owner = Admin)
      <4>1. pc[t] = "create.iface" \/ pc[t] = "idle"
        BY <2>2 DEF CreateReadIface, Arrives, At
      <4> QED
        BY <1>0, <4>1 DEF At, IdleUnowned
    <3>5. Keeps(t)
      BY <1>0, <3>3, <3>4 DEF Keeps, CreatePc
    <3> QED
      BY <1>0, <1>3, <3>1, <3>5
  <2>3. ASSUME NEW op, NEW id, NEW change, NEW label,
               Begin(t, op, id, change, label), label \in {"update.commit", "delete.commit"}
        PROVE  \A v \in Tasks : Keeps(v)
    BY <1>0, <1>5, <2>3 DEF Begin, CreatePc
  <2>4. CASE UpdateCheck(t) \/ (\E on \in BOOLEAN : ToggleCheck(t, on)) \/ DeleteCheck(t)
    BY <2>3, <2>4 DEF UpdateCheck, ToggleCheck, DeleteCheck
  <2>5. ASSUME NEW c \in Cidrs, ChangeCidrBegin(t, c) \/ SetInterfaceCidr(t, c)
        PROVE  \A v \in Tasks : Keeps(v)
    BY <1>0, <1>5, <2>5 DEF ChangeCidrBegin, SetInterfaceCidr, CreatePc
  <2>6. CASE RestartArrives(t)
    BY <1>0, <1>5, <2>6 DEF RestartArrives, CreatePc
  <2> QED
    BY <1>7, <2>1, <2>2, <2>4, <2>5, <2>6 DEF Request
<1>8. ASSUME NEW t \in Workers, Proceed(t) PROVE \A u \in Tasks : Keeps(u)
  <2> HIDE DEF Keeps
  <2>1. ASSUME NEW e, CreateAlloc(t, e) PROVE \A u \in Tasks : Keeps(u)
    BY <1>0, <1>5, <2>1 DEF CreateAlloc, CreatePc
  <2>2. CASE CreateExhausted(t)
    BY <1>0, <1>4, <2>2 DEF CreateExhausted
  <2>3. CASE UpdateCommit(t) \/ DeleteCommit(t)
    BY <1>0, <1>4, <1>5, <2>3 DEF UpdateCommit, DeleteCommit, CreatePc
  <2>4. CASE ChangeCidrList(t)
    BY <1>0, <1>5, <2>4 DEF ChangeCidrList, CreatePc
  <2>5. CASE ChangeCidrAssign(t)
    <3>1. \/ Answer(t)
          \/ /\ Goto(t, IF job[t].todo = {Smallest(job[t].todo)}
                        THEN "save.render" ELSE "cidr.assign")
             /\ \A u \in Tasks : u # t => job'[u] = job[u]
      BY <1>0, <2>5 DEF ChangeCidrAssign
    <3> QED
      BY <1>0, <1>4, <1>5, <3>1 DEF CreatePc
  <2> QED
    BY <1>8, <2>1, <2>2, <2>3, <2>4, <2>5 DEF Proceed
<1>9. ASSUME CronScan \/ CronDisable PROVE \A u \in Tasks : Keeps(u)
  <2> HIDE DEF Keeps
  <2> QED
    BY <1>0, <1>5, <1>9 DEF CronScan, CronDisable, CreatePc
<1>10. ASSUME NEW t \in Tasks, Render(t) \/ LinkDown(t) \/ Publish(t) \/ SaveFails(t)
       PROVE  \A u \in Tasks : Keeps(u)
  <2> HIDE DEF Keeps
  <2>1. CASE Render(t) \/ LinkDown(t) \/ OpenTrunc(t) \/ WriteConf(t) \/ Strip(t)
    BY <1>5, <2>1 DEF Render, LinkDown, OpenTrunc, WriteConf, Strip, CreatePc
  <2>2. ASSUME SaveReturns(t) PROVE \A u \in Tasks : Keeps(u)
    BY <1>0, <1>4, <1>5, <2>2 DEF SaveReturns, CreatePc
  <2>3. CASE SyncConf(t) \/ SyncNoLink(t) \/ SaveFails(t)
    BY <2>2, <2>3 DEF SyncConf, SyncNoLink, SaveFails
  <2>4. CASE LinkRead(t) \/ LinkSet(t)
    BY <1>4, <1>5, <2>4 DEF LinkRead, LinkSet, CreatePc
  <2> QED
    BY <1>10, <2>1, <2>3, <2>4 DEF Publish
<1>11. ASSUME Crash PROVE \A u \in Tasks : Keeps(u)
  <2>1. \A u \in Tasks : /\ pc'[u] \in {"save.render", "idle"}
                         /\ pc'[u] = "idle" => job'[u] = NoJob
    BY <1>11 DEF Crash
  <2> QED
    BY <1>0, <2>1 DEF CreatePc
<1> HIDE DEF Keeps
<1> QED
  BY <1>6, <1>7, <1>8, <1>9, <1>10, <1>11 DEF Next, vars, TimePasses

\* Only the insert gives an account a row.
LEMMA OwnerStep ==
  ASSUME TypeOK, [Next]_vars, NEW i \in ClientId, roster'[i] # Absent
  PROVE  \/ roster[i] # Absent /\ roster'[i].owner = roster[i].owner
         \/ /\ i = nextId
            /\ \E t \in Workers, e \in Expiries \union {"none"} :
                 CreateAlloc(t, e) /\ roster'[i].owner = job[t].owner
<1> DEFINE Goal == \/ roster[i] # Absent /\ roster'[i].owner = roster[i].owner
                   \/ /\ i = nextId
                      /\ \E t \in Workers, e \in Expiries \union {"none"} :
                           CreateAlloc(t, e) /\ roster'[i].owner = job[t].owner
<1>0. roster \in [ClientId -> Row \union {Absent}]
  BY DEF TypeOK
<1>1. CASE UNCHANGED roster
  BY <1>1
<1>2. ASSUME NEW id, NEW change, roster' = WithChange(roster, id, change) PROVE Goal
  <2>1. CASE roster[id] = Absent \/ id # i
    BY <1>0, <1>2, <2>1 DEF WithChange
  <2>2. CASE roster[id] # Absent /\ id = i
    <3>1. roster'[i] = Changed(roster[i], change) /\ roster[i] \in Row
      BY <1>0, <1>2, <2>2 DEF WithChange
    <3>2. Changed(roster[i], change).owner = roster[i].owner
      BY <3>1 DEF Changed, Row
    <3> QED
      BY <2>2, <3>1, <3>2
  <2> QED
    BY <2>1, <2>2
<1>3. ASSUME NEW t \in Workers, Request(t) PROVE UNCHANGED roster
  BY <1>3 DEF Request, CreateCheckQuota, CreateReadIface, UpdateCheck, ToggleCheck,
     DeleteCheck, Begin, ChangeCidrBegin, SetInterfaceCidr, RestartArrives, db
<1>4. ASSUME NEW t \in Workers, Proceed(t) PROVE Goal
  <2>1. ASSUME NEW e \in Expiries \union {"none"}, CreateAlloc(t, e) PROVE Goal
    <3> DEFINE row == [ip |-> NextIpv4(job[t].cidr, UsedAddrs(roster)), enabled |-> TRUE,
                       expiry |-> e, owner |-> job[t].owner]
    <3>1. roster' = [roster EXCEPT ![nextId] = row] /\ row.owner = job[t].owner
      BY <2>1 DEF CreateAlloc
    <3> HIDE DEF row
    <3>2. CASE i = nextId
      BY <1>0, <2>1, <3>1, <3>2
    <3>3. CASE i # nextId
      BY <1>0, <3>1, <3>3
    <3> QED
      BY <3>2, <3>3
  <2>2. CASE CreateExhausted(t) \/ ChangeCidrList(t)
    BY <1>1, <2>2 DEF CreateExhausted, ChangeCidrList, db
  <2>3. CASE UpdateCommit(t)
    BY <1>1, <1>2, <2>3 DEF UpdateCommit
  <2>4. CASE DeleteCommit(t)
    BY <1>0, <1>1, <2>4 DEF DeleteCommit
  <2>5. CASE ChangeCidrAssign(t)
    BY <1>1, <1>2, <2>5 DEF ChangeCidrAssign
  <2> QED
    BY <1>4, <2>1, <2>2, <2>3, <2>4, <2>5 DEF Proceed
<1>5. CASE CronScan \/ CronDisable
  BY <1>1, <1>2, <1>5 DEF CronScan, CronDisable, db
<1>6. ASSUME NEW t \in Tasks, Render(t) \/ LinkDown(t) \/ Publish(t) \/ SaveFails(t)
      PROVE  UNCHANGED roster
  BY <1>6 DEF Render, LinkDown, Publish, OpenTrunc, WriteConf, Strip, SyncConf,
     SyncNoLink, SaveFails, LinkRead, LinkSet, db
<1>7. ASSUME NEW id \in ClientId, TimePasses(id) PROVE Goal
  <2>1. PICK x : roster' = [roster EXCEPT ![id] = [roster[id] EXCEPT !.expiry = x]]
    BY <1>7 DEF TimePasses
  <2>2. roster[id] \in Row
    BY <1>0, <1>7 DEF TimePasses, Ids
  <2>3. [roster[id] EXCEPT !.expiry = x].owner = roster[id].owner
    BY <2>2 DEF Row
  <2> QED
    BY <1>0, <1>7, <2>1, <2>3 DEF TimePasses, Ids
<1>8. ASSUME UNCHANGED roster \/ CronScan \/ CronDisable PROVE Goal
  BY <1>1, <1>5, <1>8
<1> HIDE DEF Goal
<1>9. Goal
  <2>1. CASE Crash \/ UNCHANGED vars
    BY <1>8, <2>1 DEF Crash, db, vars
  <2>2. CASE Next /\ ~Crash
    BY <1>3, <1>4, <1>6, <1>7, <1>8, <2>2 DEF Next
  <2> QED
    BY <2>1, <2>2
<1> QED
  BY <1>9 DEF Goal

\* Every step keeps the account.
LEMMA QuotaStep == TypeOK /\ QuotaInv /\ [Next]_vars => QuotaInv'
<1> SUFFICES ASSUME TypeOK, QuotaInv, [Next]_vars PROVE QuotaInv'
  OBVIOUS
<1>1. IdleUnowned
  BY DEF QuotaInv
<1>2. SUFFICES ASSUME NEW u \in Users
               PROVE  Cardinality(OwnedBy(roster', u)) + Cardinality(Creating(u)')
                        <= Quota - 1 + Cardinality(Workers)
  BY <1>1, CreatingStep DEF QuotaInv, OwnedBy, Ids
<1> DEFINE own == OwnedBy(roster, u)   own2 == OwnedBy(roster', u)
           mk  == Creating(u)          mk2  == Creating(u)'
<1>3. /\ IsFiniteSet(own) /\ Cardinality(own) \in Nat
      /\ IsFiniteSet(own2) /\ Cardinality(own2) \in Nat
      /\ mk \subseteq Workers /\ mk2 \subseteq Workers
      /\ IsFiniteSet(mk) /\ Cardinality(mk) \in Nat
      /\ IsFiniteSet(mk2) /\ Cardinality(mk2) \in Nat
      /\ Cardinality(mk2) <= Cardinality(Workers) /\ Cardinality(Workers) \in Nat
  <2>1. mk \subseteq Workers /\ mk2 \subseteq Workers
    BY DEF Creating
  <2> QED
    BY <2>1, QuotaSets
<1>4. Cardinality(own) + Cardinality(mk) <= Quota - 1 + Cardinality(Workers)
  BY DEF QuotaInv
<1>5. Quota \in Nat \ {0} /\ nextId \in Nat
  BY RosterAssumption DEF RosterAssumption, TypeOK
<1>6. \A t \in mk2 : t \in mk \/ CreateCheckQuota(t, u)
  BY <1>1, CreatingStep DEF Creating
<1>7. \A i \in own2 : \/ i \in own
                      \/ /\ i = nextId
                         /\ \E t \in Workers, e \in Expiries \union {"none"} :
                              CreateAlloc(t, e) /\ job[t].owner = u
  BY OwnerStep DEF OwnedBy, Ids
<1>8. CASE \E t \in Workers : CreateCheckQuota(t, u)
  <2>1. own2 = own /\ Cardinality(own) < Quota
    BY <1>8 DEF CreateCheckQuota, db
  <2> HIDE DEF own, own2, mk, mk2
  <2> QED
    BY <1>3, <1>5, <2>1 DEF own2, mk2
<1>9. CASE \E t \in Workers, e \in Expiries \union {"none"} :
             CreateAlloc(t, e) /\ job[t].owner = u
  <2>1. PICK t \in Workers, e \in Expiries \union {"none"} :
           CreateAlloc(t, e) /\ job[t].owner = u
    BY <1>9
  <2>2. nextId' = nextId + 1 /\ pc[t] = "create.alloc" /\ pc'[t] = "save.render"
    BY <2>1 DEF CreateAlloc, At, Goto, TypeOK, Tasks
  <2>3. t \in mk /\ t \notin mk2
    BY <2>1, <2>2 DEF Creating, CreatePc
  <2>4. \A v : ~CreateCheckQuota(v, u)
    BY <1>5, <2>2 DEF CreateCheckQuota, db
  <2>5. mk2 \subseteq mk \ {t}
    BY <1>6, <2>3, <2>4
  <2>6. own2 \subseteq own \union {nextId}
    BY <1>7
  <2> HIDE DEF own, own2, mk, mk2
  <2>7. Cardinality(mk2) <= Cardinality(mk) - 1
    <3>1. /\ IsFiniteSet(mk \ {t})
          /\ Cardinality(mk \ {t}) = Cardinality(mk) - 1
      BY <1>3, <2>3, FS_RemoveElement
    <3> QED
      BY <2>5, <3>1, FS_Subset
  <2>8. Cardinality(own2) <= Cardinality(own) + 1
    <3>1. /\ IsFiniteSet(own \union {nextId})
          /\ \/ Cardinality(own \union {nextId}) = Cardinality(own)
             \/ Cardinality(own \union {nextId}) = Cardinality(own) + 1
      BY <1>3, FS_AddElement
    <3>2. Cardinality(own2) <= Cardinality(own \union {nextId})
      BY <2>6, <3>1, FS_Subset
    <3> QED
      BY <1>3, <3>1, <3>2
  <2>9. Cardinality(own2) + Cardinality(mk2) <= Quota - 1 + Cardinality(Workers)
    BY <1>3, <1>4, <1>5, <2>7, <2>8
  <2> QED
    BY <2>9 DEF own2, mk2
<1>10. CASE /\ ~\E t \in Workers : CreateCheckQuota(t, u)
            /\ ~\E t \in Workers, e \in Expiries \union {"none"} :
                  CreateAlloc(t, e) /\ job[t].owner = u
  <2>1. own2 \subseteq own
    BY <1>7, <1>10
  <2>2. mk2 \subseteq mk
    BY <1>3, <1>6, <1>10
  <2> HIDE DEF own, own2, mk, mk2
  <2>3. Cardinality(own2) <= Cardinality(own) /\ Cardinality(mk2) <= Cardinality(mk)
    BY <1>3, <2>1, <2>2, FS_Subset
  <2>4. Cardinality(own2) + Cardinality(mk2) <= Quota - 1 + Cardinality(Workers)
    BY <1>3, <1>4, <1>5, <2>3
  <2> QED
    BY <2>4 DEF own2, mk2
<1> QED
  BY <1>8, <1>9, <1>10

\* "Maximum AmneziaWG clients a non-admin user may create" (clients.rs:27):
\* create_client's count and insert are separate calls, so an account gets past
\* it, but by no more rows than the handlers that run at a time, whatever
\* fails, is deleted, readdressed or restarted meanwhile.
THEOREM QuotaBoundEver == Spec => []QuotaBound
<1>1. Init => TypeOK /\ QuotaInv
  <2> SUFFICES ASSUME Init PROVE QuotaInv
    BY TypeInit
  <2>1. IdleUnowned
    BY DEF Init, IdleUnowned, NoJob
  <2>2. ASSUME NEW u \in Users PROVE OwnedBy(roster, u) = {} /\ Creating(u) = {}
    BY DEF Init, OwnedBy, Ids, Creating, CreatePc, Tasks
  <2>3. 0 <= Quota - 1 + Cardinality(Workers)
    BY QuotaSets, RosterAssumption DEF RosterAssumption
  <2> QED
    BY <2>1, <2>2, <2>3, FS_EmptySet DEF QuotaInv
<1>2. TypeOK /\ QuotaInv /\ [Next]_vars => TypeOK' /\ QuotaInv'
  BY TypeStep, QuotaStep
<1>3. TypeOK /\ QuotaInv => QuotaBound
  <2> SUFFICES ASSUME QuotaInv, NEW u \in Users
               PROVE  Cardinality(OwnedBy(roster, u)) <= Quota - 1 + Cardinality(Workers)
    BY DEF QuotaBound
  <2>1. Creating(u) \subseteq Workers
    BY DEF Creating
  <2>2. Cardinality(Creating(u)) \in Nat
    BY <2>1, QuotaSets
  <2> QED
    BY <2>2, QuotaSets, RosterAssumption DEF QuotaInv, RosterAssumption
<1> QED
  BY <1>1, <1>2, <1>3, PTL DEF Spec

-----------------------------------------------------------------------------
(***************************************************************************)
(* 7. Roster implements ConfigPublisher as long as saves and restarts do   *)
(* not overlap, nothing fails and no change_cidr is asked for, for any     *)
(* number of clients, accounts and tasks; what the abstract specification  *)
(* promises is then a property of Roster.                                  *)
(***************************************************************************)

\* The instances that roster_serial is one of.  Absent marks a missing row
\* and a missing snapshot: it is no set of peers.
Calm ==
  /\ MaxSaves = 1 /\ FaultKinds = {} /\ "cidr" \notin Ops
  /\ Absent \notin SUBSET Peer

\* The text a publishing task will hand to the interface.
Text(t) == IF pc[t] \in {"save.strip", "link.read"} THEN conf ELSE body[t]

NonePublishing == \A t \in Tasks : ~Publishing(t)

LEMMA SnapshotOfOne ==
  ASSUME OnePublisher, NEW t \in Tasks, Publishing(t)
  PROVE  Snapshot = PeersOf(Text(t))
<1> DEFINE c == CHOOSE u \in Tasks : Publishing(u)
<1>1. c \in Tasks /\ Publishing(c)
  OBVIOUS
<1>2. c = t
  BY <1>1 DEF OnePublisher
<1>3. (\E u \in Tasks : pc[u] \in {"save.strip", "link.read"})
        <=> pc[t] \in {"save.strip", "link.read"}
  BY DEF OnePublisher, Publishing
<1> HIDE DEF c
<1>4. Snapshot = IF \E u \in Tasks : pc[u] \in {"save.strip", "link.read"}
                 THEN PeersOf(conf) ELSE PeersOf(body[c])
  BY DEF Snapshot, c
<1> QED
  BY <1>2, <1>3, <1>4 DEF Text

LEMMA SnapshotOfOneNext ==
  ASSUME OnePublisher', NEW t \in Tasks, Publishing(t)'
  PROVE  Snapshot' = PeersOf(Text(t)')
<1> DEFINE labels == {"save.open", "save.write", "save.strip", "save.sync",
                      "link.read", "link.set"}
           c == CHOOSE u \in Tasks : pc'[u] \in labels
<1>1. pc'[t] \in labels /\ \A u \in Tasks : pc'[u] \in labels => u = t
  BY DEF OnePublisher, Publishing
<1>2. c = t
  BY <1>1
<1>3. (\E u \in Tasks : pc'[u] \in {"save.strip", "link.read"})
        <=> pc'[t] \in {"save.strip", "link.read"}
  BY <1>1
<1>4. Snapshot' = IF \E u \in Tasks : pc'[u] \in {"save.strip", "link.read"}
                  THEN PeersOf(conf') ELSE PeersOf(body'[c])
  BY <1>1 DEF Snapshot, Publishing, PeersOf
<1> QED
  BY <1>2, <1>3, <1>4 DEF Text, PeersOf

LEMMA SnapshotOfNone ==
  /\ NonePublishing => Snapshot = Absent
  /\ NonePublishing' => Snapshot' = Absent
BY DEF NonePublishing, Snapshot, Publishing

-----------------------------------------------------------------------------
(***************************************************************************)
(* What a calm instance keeps true.                                        *)
(***************************************************************************)
\* Without a crash nobody runs startup again; nobody is inside change_cidr;
\* the interface is away only between awg-quick's down and up; the text about
\* to be applied is the file, which is what the interface serves when nobody
\* is publishing.
NoBoot     == \A t \in Tasks : job[t].op \notin {"boot", "bringup"}
NoCidr     == \A t \in Tasks : pc[t] \notin {"cidr.list", "cidr.assign"}
LinkThere  == linkUp <=> \A t \in Tasks : ~At(t, "link.read")
FileIsText == \A t \in Tasks : pc[t] \in {"save.sync", "link.set"} => body[t] = conf
FileServed == NonePublishing => kernel = PeersOf(conf)

CalmInv == NoBoot /\ NoCidr /\ LinkThere /\ FileIsText /\ FileServed

\* A step outside the file work, with the labels and jobs it may lead to.
LEMMA CalmQuiet ==
  ASSUME TypeOK, SerialInv, CalmInv, NEW t \in Tasks, QuietStep(t),
         pc'[t] \notin {"cidr.list", "cidr.assign"},
         job'[t].op \notin {"boot", "bringup"}
  PROVE  CalmInv'
<1>1. \A u \in Tasks : Publishing(u)' <=> Publishing(u)
  BY QuietSerial
<1>2. PICK label \in Quiet : Goto(t, label)
  BY DEF QuietStep
<1>3. /\ \A u \in Tasks \ {t} : pc'[u] = pc[u] /\ job'[u] = job[u]
      /\ pc'[t] \in Quiet /\ pc[t] \in Quiet
      /\ UNCHANGED <<conf, linkUp, kernel, body>>
  BY <1>2 DEF Goto, QuietStep, TypeOK
<1>4. NoBoot' /\ NoCidr'
  BY <1>3 DEF CalmInv, NoBoot, NoCidr
<1>5. LinkThere' /\ FileIsText'
  BY <1>3 DEF CalmInv, LinkThere, FileIsText, Quiet, At
<1>6. FileServed'
  BY <1>1, <1>3 DEF CalmInv, FileServed, NonePublishing
<1> QED
  BY <1>4, <1>5, <1>6 DEF CalmInv

-----------------------------------------------------------------------------
(***************************************************************************)
(* Steps outside the file work: nothing happens, or a change is owed.      *)
(***************************************************************************)
\* A request that may not be change_cidr, and what its handler does before it
\* saves: either the rows stay and so does what is owed, or a task is left at
\* save.render.
OwesOrStutters == (UNCHANGED roster /\ (Owed' <=> Owed)) \/ Owed'

LEMMA OwedKept ==
  ASSUME TypeOK, NEW t \in Tasks, NEW label \in PC, Goto(t, label),
         pc[t] \notin {"cron.disable", "save.render"},
         label \notin {"cron.disable", "save.render"}
  PROVE  Owed' <=> Owed
<1>1. pc'[t] = label /\ \A u \in Tasks \ {t} : pc'[u] = pc[u]
  BY DEF Goto, TypeOK
<1> QED
  BY <1>1 DEF Owed

LEMMA OwedNow ==
  ASSUME TypeOK, NEW t \in Tasks, NEW label \in {"cron.disable", "save.render"},
         Goto(t, label)
  PROVE  Owed'
<1>1. pc'[t] = label
  BY DEF Goto, TypeOK
<1> QED
  BY <1>1 DEF Owed

\* The label and the operation a step leaves a task with.
CalmAt(t) == /\ pc'[t] \notin {"cidr.list", "cidr.assign"}
             /\ job'[t].op \notin {"boot", "bringup"}

LEMMA CalmRequest ==
  ASSUME Calm, TypeOK, CalmInv, NEW t \in Workers, Request(t)
  PROVE  CalmAt(t) /\ OwesOrStutters
<1>1. t \in Tasks /\ job \in [Tasks -> Job] /\ job[t] \in Job
  BY DEF Tasks, TypeOK
<1>2. ASSUME NEW label \in PC \ {"cidr.list", "cidr.assign", "cron.disable", "save.render"},
             Goto(t, label), pc[t] \in {"idle", "create.iface"}, UNCHANGED roster,
             job'[t].op \notin {"boot", "bringup"}
      PROVE  CalmAt(t) /\ OwesOrStutters
  <2>1. Owed' <=> Owed
    BY <1>1, <1>2, OwedKept
  <2>2. pc'[t] = label
    BY <1>1, <1>2 DEF Goto, TypeOK
  <2> QED
    BY <1>2, <2>1, <2>2 DEF CalmAt, OwesOrStutters
<1>3. ASSUME NEW u \in Users, CreateCheckQuota(t, u)
      PROVE  CalmAt(t) /\ OwesOrStutters
  <2>1. job'[t].op = "create"
    BY <1>1, <1>3 DEF CreateCheckQuota, NoJob
  <2> QED
    BY <1>2, <1>3, <2>1 DEF CreateCheckQuota, Arrives, PC, db
<1>4. CASE CreateReadIface(t)
  <2>1. job'[t].op = "create"
    BY <1>1, <1>4 DEF CreateReadIface, Job
  <2> QED
    BY <1>2, <1>4, <2>1 DEF CreateReadIface, Arrives, At, PC, db
<1>5. ASSUME NEW op \in Requests, NEW id, NEW change,
             NEW label \in {"update.commit", "delete.commit"},
             pc[t] = "idle", Begin(t, op, id, change, label)
      PROVE  CalmAt(t) /\ OwesOrStutters
  <2>1. job'[t].op = op
    BY <1>1, <1>5 DEF Begin, NoJob
  <2> QED
    BY <1>2, <1>5, <2>1 DEF Begin, PC, db, Requests
<1>6. CASE UpdateCheck(t)
  BY <1>5, <1>6 DEF UpdateCheck, Arrives, Requests
<1>7. ASSUME NEW on \in BOOLEAN, ToggleCheck(t, on)
      PROVE  CalmAt(t) /\ OwesOrStutters
  BY <1>5, <1>7 DEF ToggleCheck, Arrives, Requests
<1>8. CASE DeleteCheck(t)
  BY <1>5, <1>8 DEF DeleteCheck, Arrives, Requests
<1>9. ASSUME NEW c \in Cidrs, ChangeCidrBegin(t, c)
      PROVE  FALSE
  BY <1>9 DEF ChangeCidrBegin, Arrives, Calm
<1>10. ASSUME NEW c \in Cidrs, SetInterfaceCidr(t, c)
       PROVE  CalmAt(t) /\ OwesOrStutters
  <2>1. job'[t].op = "iface"
    BY <1>1, <1>10 DEF SetInterfaceCidr, Job
  <2>2. pc'[t] = "save.render"
    BY <1>1, <1>10 DEF SetInterfaceCidr, Goto, TypeOK
  <2>3. Owed'
    BY <1>1, <2>2 DEF Owed
  <2> QED
    BY <2>1, <2>2, <2>3 DEF CalmAt, OwesOrStutters
<1>11. CASE RestartArrives(t)
  <2>1. job'[t].op = "restart"
    BY <1>1, <1>11 DEF RestartArrives, Job
  <2> QED
    BY <1>2, <1>11, <2>1 DEF RestartArrives, Arrives, PC, db
<1> QED
  BY <1>3, <1>4, <1>6, <1>7, <1>8, <1>9, <1>10, <1>11 DEF Request

LEMMA CalmProceed ==
  ASSUME Calm, TypeOK, CalmInv, NEW t \in Workers, Proceed(t)
  PROVE  CalmAt(t) /\ OwesOrStutters
<1>1. t \in Tasks /\ job[t].op \notin {"boot", "bringup"}
  BY DEF Tasks, CalmInv, NoBoot
<1>2. ASSUME Answer(t), UNCHANGED roster,
             pc[t] \in {"create.alloc", "update.commit", "delete.commit"}
      PROVE  CalmAt(t) /\ OwesOrStutters
  <2>1. Owed' <=> Owed
    BY <1>1, <1>2, OwedKept DEF Answer, PC
  <2>2. pc'[t] = "idle" /\ job'[t] = NoJob
    BY <1>1, <1>2 DEF Answer, Goto, TypeOK
  <2> QED
    BY <1>2, <2>1, <2>2 DEF CalmAt, OwesOrStutters, NoJob
<1>3. ASSUME Goto(t, "save.render"), UNCHANGED job
      PROVE  CalmAt(t) /\ OwesOrStutters
  <2>1. Owed' /\ pc'[t] = "save.render"
    BY <1>1, <1>3, OwedNow DEF Goto, TypeOK
  <2> QED
    BY <1>1, <1>3, <2>1 DEF CalmAt, OwesOrStutters
<1>4. ASSUME NEW e \in Expiries \union {"none"}, CreateAlloc(t, e)
      PROVE  CalmAt(t) /\ OwesOrStutters
  BY <1>3, <1>4 DEF CreateAlloc
<1>5. CASE CreateExhausted(t)
  BY <1>2, <1>5 DEF CreateExhausted, At, db
<1>6. CASE UpdateCommit(t)
  BY <1>2, <1>3, <1>6 DEF UpdateCommit, At
<1>7. CASE DeleteCommit(t)
  BY <1>2, <1>3, <1>7 DEF DeleteCommit, At
<1>8. ~ChangeCidrList(t) /\ ~ChangeCidrAssign(t)
  BY <1>1 DEF ChangeCidrList, ChangeCidrAssign, At, CalmInv, NoCidr
<1> QED
  BY <1>4, <1>5, <1>6, <1>7, <1>8 DEF Proceed

LEMMA CalmCron ==
  ASSUME Calm, TypeOK, CalmInv, CronScan \/ CronDisable
  PROVE  CalmAt(Cron) /\ OwesOrStutters
<1>1. /\ Cron \in Tasks /\ job \in [Tasks -> Job] /\ job[Cron] \in Job
      /\ job[Cron].op \notin {"boot", "bringup"}
  BY DEF Tasks, TypeOK, CalmInv, NoBoot
<1>2. CASE CronScan
  <2>1. job'[Cron].op = "cron" /\ Goto(Cron, "cron.disable")
    BY <1>1, <1>2 DEF CronScan, NoJob
  <2>2. pc'[Cron] = "cron.disable"
    BY <1>1, <2>1 DEF Goto, TypeOK
  <2> QED
    BY <1>1, <2>1, <2>2, OwedNow DEF CalmAt, OwesOrStutters
<1>3. CASE CronDisable
  <2>1. job'[Cron].op = job[Cron].op
    BY <1>1, <1>3 DEF CronDisable
  <2>2. PICK label \in {"cron.disable", "save.render"} : Goto(Cron, label)
    BY <1>3 DEF CronDisable
  <2>3. pc'[Cron] = label
    BY <1>1, <2>2 DEF Goto, TypeOK
  <2> QED
    BY <1>1, <2>1, <2>2, <2>3, OwedNow DEF CalmAt, OwesOrStutters
<1> QED
  BY <1>2, <1>3

-----------------------------------------------------------------------------
(***************************************************************************)
(* The steps that publish.                                                 *)
(***************************************************************************)
\* The other tasks neither publish nor move.
LEMMA Others ==
  ASSUME MaxSaves = 1, TypeOK, SerialInv, NEW t \in Tasks,
         Render(t) \/ LinkDown(t) \/ Publish(t)
  PROVE  /\ \A u \in Tasks \ {t} : /\ ~Publishing(u) /\ ~Publishing(u)'
                                   /\ pc'[u] = pc[u] /\ job'[u] = job[u]
         /\ UNCHANGED roster
<1>1. /\ \E label : Goto(t, label)
      /\ \/ job' = job \/ job' = [job EXCEPT ![t].op = "bringup"]
         \/ job' = [job EXCEPT ![t] = NoJob]
      /\ UNCHANGED roster
  BY DEF Render, LinkDown, Publish, OpenTrunc, WriteConf, Strip, SyncConf,
         SyncNoLink, LinkRead, LinkSet, SaveReturns, Answer, db
<1>2. \A u \in Tasks \ {t} : pc'[u] = pc[u] /\ job'[u] = job[u]
  BY <1>1 DEF Goto, TypeOK
<1>3. \A u \in Tasks \ {t} : ~Publishing(u)
  BY Alone DEF SerialInv, OnePublisher, Publishing, Publish, Render, LinkDown,
     OpenTrunc, WriteConf, Strip, SyncConf, SyncNoLink, LinkRead, LinkSet, At
<1>4. \A u \in Tasks \ {t} : ~Publishing(u)'
  BY <1>2, <1>3 DEF Publishing
<1> QED
  BY <1>1, <1>2, <1>3, <1>4

\* The snapshot before and after such a step, by the label of its task.
LEMMA SnapshotStep ==
  ASSUME MaxSaves = 1, TypeOK, SerialInv, SerialInv', NEW t \in Tasks,
         Render(t) \/ LinkDown(t) \/ Publish(t)
  PROVE  /\ Snapshot = IF Publishing(t) THEN PeersOf(Text(t)) ELSE Absent
         /\ Snapshot' = IF Publishing(t)' THEN PeersOf(Text(t)') ELSE Absent
<1>1. \A u \in Tasks \ {t} : ~Publishing(u) /\ ~Publishing(u)'
  BY Others
<1>2. Snapshot = IF Publishing(t) THEN PeersOf(Text(t)) ELSE Absent
  BY <1>1, SnapshotOfOne, SnapshotOfNone DEF NonePublishing, SerialInv
<1>3. OnePublisher'
  BY DEF SerialInv
<1>4. CASE Publishing(t)'
  BY <1>2, <1>3, <1>4, SnapshotOfOneNext
<1>5. CASE ~Publishing(t)'
  <2>1. NonePublishing'
    BY <1>1, <1>5 DEF NonePublishing
  <2> QED
    BY <1>2, <1>5, <2>1, SnapshotOfNone
<1> QED
  BY <1>2, <1>4, <1>5

\* The enabled rows are what Render makes peers of.
LEMMA RenderedIsWanted == PeersOf(Blocks(roster)) = Wanted
<1>1. ASSUME NEW p \in PeersOf(Blocks(roster)) PROVE p \in Wanted
  BY DEF PeersOf, Blocks, Wanted
<1>2. ASSUME NEW p \in Wanted PROVE p \in PeersOf(Blocks(roster))
  <2>1. PICK i \in EnabledIds(roster) : p = [id |-> i, ip |-> roster[i].ip]
    BY DEF Wanted
  <2> DEFINE b == [pos |-> RankIn(EnabledIds(roster), i), id |-> i, ip |-> roster[i].ip]
  <2>2. b \in Blocks(roster) /\ p = [id |-> b.id, ip |-> b.ip]
    BY <2>1 DEF Blocks
  <2> QED
    BY <2>2 DEF PeersOf
<1> QED
  BY <1>1, <1>2

\* The label an action leads to is the one its task has next; at a label of the
\* file work the task is the only publisher, so the interface is there unless
\* the task itself has taken it down.
LEMMA CalmPublish ==
  ASSUME Calm, TypeOK, SerialInv, SerialInv', CalmInv, NEW t \in Tasks,
         Render(t) \/ LinkDown(t) \/ Publish(t)
  PROVE  CalmInv' /\ [Publisher!Next]_(Publisher!vars)
<1>1. /\ \A u \in Tasks \ {t} : /\ ~Publishing(u) /\ ~Publishing(u)'
                               /\ pc'[u] = pc[u] /\ job'[u] = job[u]
      /\ UNCHANGED <<roster, Wanted>>
  BY Others DEF Calm, Wanted, EnabledIds, Ids
<1>2. /\ Snapshot = IF Publishing(t) THEN PeersOf(Text(t)) ELSE Absent
      /\ Snapshot' = IF Publishing(t)' THEN PeersOf(Text(t)') ELSE Absent
  BY SnapshotStep DEF Calm
<1>3. /\ pc \in [Tasks -> PC] /\ body \in [Tasks -> SUBSET Block]
      /\ conf \subseteq Block /\ roster \in [ClientId -> Row \union {Absent}]
      /\ job \in [Tasks -> Job] /\ job[t].op \notin {"boot", "bringup"}
  BY DEF TypeOK, CalmInv, NoBoot
<1>4. \A b \in SUBSET Block : PeersOf(b) # Absent
  <2>1. \A b \in SUBSET Block : PeersOf(b) \in SUBSET Peer
    BY DEF PeersOf, Block, Peer
  <2> QED
    BY <2>1 DEF Calm
<1>5. \A label : Goto(t, label) => pc'[t] = label
  BY <1>3 DEF Goto
<1>6. NoBoot' /\ NoCidr'
  <2>1. job'[t].op \notin {"boot", "bringup"}
    BY <1>3 DEF Render, LinkDown, Publish, OpenTrunc, WriteConf, Strip, SyncConf,
       SyncNoLink, LinkRead, LinkSet, SaveReturns, Answer, NoJob
  <2>2. pc'[t] \notin {"cidr.list", "cidr.assign"}
    BY <1>3, <1>5 DEF Render, LinkDown, Publish, OpenTrunc, WriteConf, Strip,
       SyncConf, SyncNoLink, LinkRead, LinkSet, SaveReturns, Answer
  <2> QED
    BY <1>1, <2>1, <2>2 DEF CalmInv, NoBoot, NoCidr
<1>7. linkUp <=> ~At(t, "link.read")
  BY <1>1 DEF CalmInv, LinkThere, At, Publishing
<1>8. ASSUME linkUp' <=> ~At(t, "link.read")',
             pc'[t] \in {"save.sync", "link.set"} => body'[t] = conf',
             ~Publishing(t)' => kernel' = PeersOf(conf')
      PROVE  CalmInv'
  <2>1. LinkThere'
    BY <1>1, <1>8 DEF LinkThere, At, Publishing
  <2>2. FileIsText'
    BY <1>1, <1>8 DEF FileIsText, Publishing
  <2>3. FileServed'
    BY <1>8 DEF FileServed, NonePublishing
  <2> QED
    BY <1>6, <2>1, <2>2, <2>3 DEF CalmInv
<1>9. pc[t] # "save.render" /\ pc'[t] # "save.render" /\ pc[t] # "cron.disable"
        /\ pc'[t] # "cron.disable" => UNCHANGED Owed
  BY <1>1 DEF Owed
<1>10. CASE Render(t)
  <2>1. /\ pc[t] = "save.render" /\ pc'[t] = "save.open" /\ Owed
        /\ ~Publishing(t) /\ Publishing(t)'
    BY <1>5, <1>10 DEF Render, At, Owed, Publishing
  <2>2. /\ body'[t] = Blocks(roster) /\ UNCHANGED <<conf, linkUp, kernel>>
    BY <1>3, <1>10 DEF Render
  <2>3. CalmInv'
    BY <1>7, <1>8, <2>1, <2>2 DEF At
  <2>4. Snapshot = Absent /\ Snapshot' = Wanted
    BY <1>2, <2>1, <2>2, RenderedIsWanted DEF Text
  <2> QED
    BY <1>1, <2>1, <2>2, <2>3, <2>4 DEF Publisher!Next, Publisher!Take
<1>11. CASE OpenTrunc(t) \/ WriteConf(t) \/ Strip(t)
  <2>1. /\ Publishing(t) /\ Publishing(t)' /\ UNCHANGED <<linkUp, kernel>>
        /\ pc[t] # "save.render" /\ pc'[t] # "save.render"
        /\ pc[t] # "cron.disable" /\ pc'[t] # "cron.disable"
        /\ pc[t] # "link.read" /\ pc'[t] # "link.read"
    BY <1>5, <1>11 DEF OpenTrunc, WriteConf, Strip, At, Publishing
  <2>2. /\ pc'[t] \in {"save.sync", "link.set"} => body'[t] = conf'
        /\ PeersOf(Text(t)') = PeersOf(Text(t))
    <3>1. CASE OpenTrunc(t)
      BY <1>5, <3>1 DEF OpenTrunc, At, Text
    <3>2. CASE WriteConf(t)
      <4>1. conf = {} /\ conf' = body[t] /\ body' = body
        BY <3>2 DEF WriteConf, SerialInv, Truncated, At, Overlay
      <4> QED
        BY <1>5, <3>2, <4>1 DEF WriteConf, At, Text
    <3>3. CASE Strip(t)
      BY <1>3, <1>5, <3>3 DEF Strip, At, Text
    <3> QED
      BY <1>11, <3>1, <3>2, <3>3
  <2>3. CalmInv'
    BY <1>7, <1>8, <2>1, <2>2 DEF At
  <2>4. UNCHANGED <<Wanted, Owed, Snapshot, kernel>>
    BY <1>1, <1>2, <1>9, <2>1, <2>2
  <2> QED
    BY <2>3, <2>4 DEF Publisher!vars
<1>12. CASE SyncConf(t) \/ LinkSet(t)
  <2>1. /\ pc[t] \in {"save.sync", "link.set"} /\ Publishing(t) /\ Answer(t)
        /\ UNCHANGED <<conf, linkUp>>
    BY <1>3, <1>12 DEF SyncConf, LinkSet, At, Publishing, SaveReturns
  <2>2. pc'[t] = "idle" /\ ~Publishing(t)'
    BY <1>5, <2>1 DEF Answer, Publishing
  <2>3. linkUp /\ body[t] = conf
    BY <1>7, <2>1 DEF CalmInv, FileIsText, At
  <2>4. kernel' = PeersOf(body[t])
    BY <1>12, <2>3 DEF SyncConf, LinkSet
  <2>5. CalmInv'
    BY <1>7, <1>8, <2>1, <2>2, <2>3, <2>4 DEF At
  <2>6. Snapshot = PeersOf(body[t]) /\ Snapshot' = Absent
    BY <1>2, <2>1, <2>2 DEF Text
  <2>7. Snapshot # Absent
    BY <1>3, <1>4, <2>6
  <2>8. UNCHANGED <<Wanted, Owed>>
    BY <1>1, <1>9, <2>1, <2>2
  <2> QED
    BY <2>4, <2>5, <2>6, <2>7, <2>8 DEF Publisher!Next, Publisher!Publish
<1>13. ~SyncNoLink(t)
  BY <1>7 DEF SyncNoLink, At
<1>14. CASE LinkDown(t)
  <2>1. /\ pc[t] = "link.down" /\ pc'[t] = "link.read" /\ ~linkUp' /\ kernel' = {}
        /\ UNCHANGED <<conf, body>> /\ ~Publishing(t) /\ Publishing(t)'
    BY <1>5, <1>14 DEF LinkDown, At, Publishing
  <2>2. CalmInv'
    BY <1>8, <2>1 DEF At
  <2>3. kernel = PeersOf(conf)
    BY <1>1, <2>1 DEF CalmInv, FileServed, NonePublishing
  <2>4. Snapshot = Absent /\ Snapshot' = PeersOf(conf)
    BY <1>2, <2>1 DEF Text
  <2>5. UNCHANGED <<Wanted, Owed>>
    BY <1>1, <1>9, <2>1
  <2> QED
    BY <2>1, <2>2, <2>3, <2>4, <2>5 DEF Publisher!Next, Publisher!Restart
<1>15. CASE LinkRead(t)
  <2>1. /\ pc[t] = "link.read" /\ pc'[t] = "link.set" /\ linkUp' /\ body'[t] = conf
        /\ UNCHANGED <<conf, kernel>> /\ Publishing(t) /\ Publishing(t)'
    BY <1>3, <1>5, <1>7, <1>15 DEF LinkRead, At, Publishing
  <2>2. CalmInv'
    BY <1>8, <2>1 DEF At
  <2>3. UNCHANGED <<Wanted, Owed, Snapshot, kernel>>
    BY <1>1, <1>2, <1>9, <2>1 DEF Text
  <2> QED
    BY <2>2, <2>3 DEF Publisher!vars
<1> QED
  BY <1>10, <1>11, <1>12, <1>13, <1>14, <1>15 DEF Publish

-----------------------------------------------------------------------------
(***************************************************************************)
(* Every step is a step of the abstract specification or stutters.         *)
(***************************************************************************)
\* Outside the file work the snapshot and the peers stay as they are.
LEMMA CalmQuietStep ==
  ASSUME TypeOK, SerialInv, CalmInv, NEW t \in Tasks, QuietStep(t),
         CalmAt(t), OwesOrStutters
  PROVE  CalmInv' /\ [Publisher!Next]_(Publisher!vars)
<1>1. CalmInv'
  BY CalmQuiet DEF CalmAt
<1>2. /\ SerialInv' /\ \A u \in Tasks : Publishing(u)' <=> Publishing(u)
      /\ UNCHANGED <<conf, body, kernel>>
  BY QuietSerial DEF QuietStep
<1>3. Snapshot' = Snapshot
  <2>1. CASE NonePublishing
    BY <1>2, <2>1, SnapshotOfNone DEF NonePublishing
  <2>2. ASSUME NEW u \in Tasks, Publishing(u)
        PROVE  Snapshot' = Snapshot
    <3>1. Publishing(u)' /\ OnePublisher /\ OnePublisher'
      BY <1>2, <2>2 DEF SerialInv
    <3>2. Snapshot = PeersOf(Text(u)) /\ Snapshot' = PeersOf(Text(u)')
      BY <2>2, <3>1, SnapshotOfOne, SnapshotOfOneNext
    <3>3. pc[u] \notin Quiet
      BY <2>2 DEF Publishing, Quiet
    <3>4. pc'[u] = pc[u]
      BY <3>3 DEF QuietStep, Goto, TypeOK
    <3> QED
      BY <1>2, <3>2, <3>4 DEF Text
  <2> QED
    BY <2>1, <2>2 DEF NonePublishing
<1>4. CASE UNCHANGED roster /\ (Owed' <=> Owed)
  <2>1. Owed' = Owed
    BY <1>4 DEF Owed
  <2>2. Wanted' = Wanted
    BY <1>4 DEF Wanted, EnabledIds, Ids
  <2> QED
    BY <1>1, <1>2, <1>3, <2>1, <2>2 DEF Publisher!vars
<1>5. CASE Owed'
  <2>1. Owed' = TRUE
    BY <1>5 DEF Owed
  <2> QED
    BY <1>1, <1>2, <1>3, <2>1 DEF Publisher!Next, Publisher!Change
<1> QED
  BY <1>4, <1>5 DEF OwesOrStutters

\* The clock moves no peer.
LEMMA TimeWanted ==
  ASSUME TypeOK, NEW i \in ClientId, TimePasses(i)
  PROVE  Wanted' = Wanted
<1>1. roster[i] \in Row /\ roster[i] # Absent
  BY DEF TypeOK, TimePasses, Ids
<1> DEFINE row == [roster[i] EXCEPT !.expiry =
                     IF @ = "ahead" THEN "behind" ELSE "local_behind"]
<1>2. roster' = [roster EXCEPT ![i] = row]
  BY DEF TimePasses
<1>3. row \in Row /\ row.ip = roster[i].ip /\ row.enabled = roster[i].enabled
  BY <1>1 DEF Row, Expiry
<1>4. row # Absent
  BY <1>3, RosterAssumption DEF RosterAssumption
<1> HIDE DEF row
<1>5. \A j \in ClientId : /\ roster'[j] # Absent <=> roster[j] # Absent
                          /\ roster[j] # Absent =>
                               /\ roster'[j].ip = roster[j].ip
                               /\ roster'[j].enabled = roster[j].enabled
  BY <1>1, <1>2, <1>3, <1>4 DEF TypeOK
<1>6. EnabledIds(roster') = EnabledIds(roster)
  BY <1>5 DEF EnabledIds, Ids
<1>7. \A j \in EnabledIds(roster) : roster'[j].ip = roster[j].ip
  BY <1>5 DEF EnabledIds, Ids
<1> QED
  BY <1>6, <1>7 DEF Wanted

LEMMA CalmStep ==
  ASSUME Calm, TypeOK, TypeOK', SerialInv, SerialInv', CalmInv, [Next]_vars
  PROVE  CalmInv' /\ [Publisher!Next]_(Publisher!vars)
<1>1. CASE \E t \in Workers : Request(t) \/ Proceed(t)
  BY <1>1, RequestQuiet, ProceedQuiet, CalmRequest, CalmProceed, CalmQuietStep
  DEF Tasks
<1>2. CASE CronScan \/ CronDisable
  BY <1>2, CronQuiet, CalmCron, CalmQuietStep DEF Tasks
<1>3. CASE \E t \in Tasks : Render(t) \/ LinkDown(t) \/ Publish(t)
  BY <1>3, CalmPublish
<1>4. ~Crash /\ \A t \in Tasks : ~SaveFails(t)
  BY DEF Crash, SaveFails, Calm
<1>5. CASE /\ UNCHANGED <<conf, linkUp, kernel, body, pc, job>>
           /\ Wanted' = Wanted
  <2>1. CalmInv'
    BY <1>5 DEF CalmInv, NoBoot, NoCidr, LinkThere, FileIsText, FileServed,
       NonePublishing, Publishing, At
  <2>2. Owed' = Owed
    BY <1>5 DEF Owed
  <2>3. Snapshot' = Snapshot
    BY <1>5 DEF Snapshot, Publishing
  <2> QED
    BY <1>5, <2>1, <2>2, <2>3 DEF Publisher!vars
<1>6. CASE \E i \in ClientId : TimePasses(i)
  BY <1>5, <1>6, TimeWanted DEF TimePasses, files
<1>7. CASE UNCHANGED vars
  <2>1. Wanted' = Wanted
    BY <1>7 DEF vars, Wanted, EnabledIds, Ids
  <2> QED
    BY <1>5, <1>7, <2>1 DEF vars
<1> QED
  BY <1>1, <1>2, <1>3, <1>4, <1>6, <1>7 DEF Next

LEMMA CalmInit == Init => CalmInv /\ Publisher!Init
<1> SUFFICES ASSUME Init PROVE CalmInv /\ Publisher!Init
  OBVIOUS
<1>1. NonePublishing
  BY DEF Init, NonePublishing, Publishing
<1>2. CalmInv
  BY <1>1 DEF Init, CalmInv, NoBoot, NoCidr, LinkThere, FileIsText, FileServed,
     PeersOf, At, NoJob
<1>3. Wanted = {}
  BY DEF Init, Wanted, EnabledIds, Ids
<1>4. Owed = FALSE
  BY DEF Init, Owed
<1>5. Snapshot = Absent /\ kernel = {}
  BY <1>1, SnapshotOfNone DEF Init
<1> QED
  BY <1>2, <1>3, <1>4, <1>5 DEF Publisher!Init

\* save_config keeps its promise: the handlers, the expiry job, the file and
\* the interface between them implement ConfigPublisher, step by step.
THEOREM PublisherImplemented ==
  ASSUME Calm
  PROVE  Spec => PublisherSpec
<1> DEFINE IInv == TypeOK /\ SerialInv /\ CalmInv
<1>1. Init => IInv /\ Publisher!Init
  BY TypeInit, SerialInit, CalmInit
<1>2. IInv /\ [Next]_vars => IInv' /\ [Publisher!Next]_(Publisher!vars)
  BY TypeStep, SerialStep, CalmStep DEF Calm
<1> QED
  BY <1>1, <1>2, PTL DEF Spec, PublisherSpec, Publisher!Spec

\* Whenever the kernel's peers are not the enabled rows, a task still has to
\* render or is on its way to syncconf: no committed change is forgotten.
THEOREM AccessCoveredSerially ==
  ASSUME Calm
  PROVE  Spec => []AccessCovered
<1> DEFINE Promise == Publisher!Served /\ Publisher!Fresh
<1>1. Publisher!Init => Promise
  BY DEF Publisher!Init, Publisher!Served, Publisher!Fresh
<1>2. TypeOK /\ Promise /\ [Publisher!Next]_(Publisher!vars) => Promise'
  <2> SUFFICES ASSUME TypeOK, Promise, [Publisher!Next]_(Publisher!vars)
               PROVE  Promise'
    OBVIOUS
  <2>0. Wanted # Absent /\ kernel # Absent
    BY DEF Calm, TypeOK, Wanted, EnabledIds, Ids, Row, Peer
  <2>1. CASE Publisher!Change
    BY <2>1 DEF Publisher!Change, Publisher!Served, Publisher!Fresh
  <2>2. UNCHANGED Owed => (Owed' <=> Owed)
    OBVIOUS
  <2>3. CASE Publisher!Take
    BY <2>0, <2>3 DEF Publisher!Take, Publisher!Served, Publisher!Fresh
  <2>4. CASE Publisher!Publish
    BY <2>2, <2>4 DEF Publisher!Publish, Publisher!Served, Publisher!Fresh
  <2>5. CASE Publisher!Restart
    BY <2>0, <2>2, <2>5 DEF Publisher!Restart, Publisher!Served, Publisher!Fresh
  <2>6. CASE UNCHANGED Publisher!vars
    BY <2>2, <2>6 DEF Publisher!vars, Publisher!Served, Publisher!Fresh
  <2> QED
    BY <2>1, <2>3, <2>4, <2>5, <2>6 DEF Publisher!Next
<1>3. Promise => AccessCovered
  BY SnapshotOfNone DEF Publisher!Served, AccessCovered, NonePublishing
<1>4. Spec => Publisher!Spec
  BY PublisherImplemented DEF PublisherSpec
<1> QED
  BY <1>1, <1>2, <1>3, <1>4, TypeCorrect, PTL DEF Publisher!Spec
-----------------------------------------------------------------------------
(***************************************************************************)
(* 8. change_cidr, with one task to handle requests.                       *)
(***************************************************************************)
\* A client has an address that change_cidr may give out of the block.
Moved(i) == roster[i].ip \in HostsV4(iface) \ {ServerAddr(iface)}

\* The handler works with the block the interface has, and the clients it has
\* visited have moved; another request on its way to save is not taken for it.
OwnBlock(t)   == pc[t] \in {"cidr.list", "cidr.assign"} => job[t].cidr = iface
Underway(t)   == At(t, "cidr.assign") =>
                   /\ job[t].todo # {}
                   /\ \A i \in Ids(roster) \ job[t].todo : Moved(i)
AllMoved(t)   == At(t, "save.render") /\ job[t].op = "cidr" =>
                   \A i \in Ids(roster) : Moved(i)
OtherCalls(t) == pc[t] \in {"create.alloc", "update.commit", "delete.commit"} =>
                   job[t].op # "cidr"

CidrInv == \A t \in Workers : OwnBlock(t) /\ Underway(t) /\ AllMoved(t) /\ OtherCalls(t)

\* A row's presence and address: all that CidrInv sees of it.
SameAddresses ==
  /\ iface' = iface
  /\ \A i \in ClientId :
       /\ roster'[i] = Absent <=> roster[i] = Absent
       /\ roster[i] # Absent => roster'[i].ip = roster[i].ip

LEMMA MovedKept ==
  ASSUME SameAddresses
  PROVE  /\ Ids(roster)' = Ids(roster)
         /\ \A i \in Ids(roster) : Moved(i) => Moved(i)'
<1>1. Ids(roster)' = Ids(roster)
  BY DEF SameAddresses, Ids
<1>2. ASSUME NEW i \in Ids(roster), Moved(i) PROVE Moved(i)'
  BY <1>2 DEF SameAddresses, Ids, Moved
<1> QED
  BY <1>1, <1>2

\* The handler is left where it is, and the addresses as they are.
LEMMA CidrKept ==
  ASSUME NEW w \in Workers, Workers = {w}, CidrInv, SameAddresses,
         pc'[w] = pc[w], job'[w] = job[w]
  PROVE  CidrInv'
<1>1. OwnBlock(w)'
  BY DEF CidrInv, OwnBlock, SameAddresses
<1>2. Underway(w)'
  BY MovedKept DEF CidrInv, Underway, At
<1>3. AllMoved(w)'
  BY MovedKept DEF CidrInv, AllMoved, At
<1>4. OtherCalls(w)'
  BY DEF CidrInv, OtherCalls
<1> QED
  BY <1>1, <1>2, <1>3, <1>4 DEF CidrInv

\* The handler goes where change_cidr is not, or serves another request there.
LEMMA CidrElsewhere ==
  ASSUME NEW w \in Workers, Workers = {w},
         pc'[w] \notin {"cidr.list", "cidr.assign"},
         pc'[w] \in {"save.render", "create.alloc", "update.commit", "delete.commit"}
           => job'[w].op # "cidr"
  PROVE  CidrInv'
  BY DEF CidrInv, OwnBlock, Underway, AllMoved, OtherCalls, At

LEMMA CidrRequest ==
  ASSUME TypeOK, NEW w \in Workers, Workers = {w}, CidrInv, Request(w)
  PROVE  CidrInv'
<1>1. w \in Tasks /\ pc \in [Tasks -> PC] /\ job \in [Tasks -> Job] /\ job[w] \in Job
  BY DEF Tasks, TypeOK
<1>2. ASSUME NEW u \in Users, CreateCheckQuota(w, u)
      PROVE  CidrInv'
  BY <1>1, <1>2, CidrElsewhere DEF CreateCheckQuota, Goto
<1>3. CASE CreateReadIface(w)
  <2>1. pc'[w] = "create.alloc" /\ job'[w].op = "create"
    BY <1>1, <1>3 DEF CreateReadIface, Goto, Job
  <2> QED
    BY <2>1, CidrElsewhere
<1>4. ASSUME NEW op, NEW id, NEW change, NEW label,
             op # "cidr", label \in {"update.commit", "delete.commit"},
             Begin(w, op, id, change, label)
      PROVE  CidrInv'
  <2>1. pc'[w] = label /\ job'[w].op = op
    BY <1>1, <1>4 DEF Begin, Goto, NoJob
  <2> QED
    BY <1>4, <2>1, CidrElsewhere
<1>5. CASE UpdateCheck(w)
  BY <1>4, <1>5 DEF UpdateCheck
<1>6. ASSUME NEW on \in BOOLEAN, ToggleCheck(w, on)
      PROVE  CidrInv'
  BY <1>4, <1>6 DEF ToggleCheck
<1>7. CASE DeleteCheck(w)
  BY <1>4, <1>7 DEF DeleteCheck
<1>8. ASSUME NEW c \in Cidrs, ChangeCidrBegin(w, c)
      PROVE  CidrInv'
  <2>1. pc'[w] = "cidr.list" /\ job'[w].cidr = c /\ iface' = c
    BY <1>1, <1>8 DEF ChangeCidrBegin, Goto, NoJob
  <2> QED
    BY <2>1 DEF CidrInv, OwnBlock, Underway, AllMoved, OtherCalls, At
<1>9. ASSUME NEW c \in Cidrs, SetInterfaceCidr(w, c)
      PROVE  CidrInv'
  <2>1. pc'[w] = "save.render" /\ job'[w].op = "iface"
    BY <1>1, <1>9 DEF SetInterfaceCidr, Goto, Job
  <2> QED
    BY <2>1, CidrElsewhere
<1>10. CASE RestartArrives(w)
  BY <1>1, <1>10, CidrElsewhere DEF RestartArrives, Goto
<1> QED
  BY <1>2, <1>3, <1>5, <1>6, <1>7, <1>8, <1>9, <1>10 DEF Request

\* The row change_cidr turns to is a row of its list.
LEMMA SmallestOf ==
  ASSUME NEW S \in SUBSET ClientId, S # {}
  PROVE  Smallest(S) \in S
<1>1. \E i \in S : \A j \in S : i <= j
  BY NatMin DEF ClientId
<1> QED
  BY <1>1 DEF Smallest

\* The row is readdressed to a host of the block that the server does not have.
LEMMA CidrAssigned ==
  ASSUME TypeOK, NEW w \in Workers, Workers = {w}, CidrInv, ChangeCidrAssign(w)
  PROVE  CidrInv'
<1> DEFINE id == Smallest(job[w].todo)
           ip == NextIpv4(job[w].cidr, job[w].given)
<1>1. w \in Tasks /\ pc \in [Tasks -> PC] /\ job \in [Tasks -> Job] /\ job[w] \in Job
  BY DEF Tasks, TypeOK
<1>2. /\ job[w].todo \in SUBSET ClientId /\ job[w].todo # {}
      /\ job[w].cidr = iface /\ iface \in Cidr /\ job[w].given \in SUBSET Addr
      /\ \A i \in Ids(roster) \ job[w].todo : Moved(i)
  BY <1>1 DEF CidrInv, OwnBlock, Underway, ChangeCidrAssign, At, TypeOK, Job
<1>3. id \in job[w].todo
  BY <1>2, SmallestOf
<1>4. CASE ip = NoAddr \/ Conflicts(roster, id, ip)
  <2>1. pc'[w] = "idle"
    BY <1>1, <1>4 DEF ChangeCidrAssign, Answer, Goto
  <2> QED
    BY <2>1, CidrElsewhere
<1>5. CASE ~ (ip = NoAddr \/ Conflicts(roster, id, ip))
  <2>1. ip \in HostsV4(iface) \ {ServerAddr(iface)} /\ ip \in Addr
    BY <1>2, <1>5, NextIpv4Sound
  <2> HIDE DEF id, ip
  <2>2. /\ roster' = WithChange(roster, id, [NoChange EXCEPT !.ip = ip])
        /\ job'[w].todo = job[w].todo \ {id} /\ job'[w].cidr = job[w].cidr
        /\ pc'[w] = IF job[w].todo = {id} THEN "save.render" ELSE "cidr.assign"
        /\ iface' = iface
    BY <1>1, <1>5 DEF ChangeCidrAssign, Goto, Job, id, ip
  <2>3. id \in ClientId /\ roster \in [ClientId -> Row \union {Absent}]
    BY <1>2, <1>3 DEF TypeOK
  <2>4. roster' \in [ClientId -> Row \union {Absent}]
    <3>1. [NoChange EXCEPT !.ip = ip] \in Change
      BY <2>1 DEF NoChange, Change
    <3> QED
      BY <2>2, <2>3, <3>1, ChangeType
  <2>5. Ids(roster') = Ids(roster)
    <3>1. CASE roster[id] = Absent
      BY <2>2, <3>1 DEF WithChange
    <3>2. CASE roster[id] # Absent
      <4>1. roster' = [roster EXCEPT ![id] = Changed(roster[id], [NoChange EXCEPT !.ip = ip])]
        BY <2>2, <3>2 DEF WithChange
      <4>2. Changed(roster[id], [NoChange EXCEPT !.ip = ip]) \in Row
        <5>1. roster[id] \in Row
          BY <2>3, <3>2
        <5> QED
          BY <2>1, <5>1, RosterAssumption DEF RosterAssumption, Changed, NoChange, Row
      <4> QED
        BY <2>3, <3>2, <4>1, <4>2, RosterAssumption DEF RosterAssumption, Ids
    <3> QED
      BY <3>1, <3>2
  <2>6. ASSUME NEW i \in Ids(roster), i = id \/ i \notin job[w].todo
        PROVE  Moved(i)'
    <3>1. i \in ClientId /\ roster[i] \in Row
      BY <2>3 DEF Ids
    <3>2. CASE i = id
      <4>1. roster[id] # Absent
        BY <3>2 DEF Ids
      <4>2. roster'[id] = Changed(roster[id], [NoChange EXCEPT !.ip = ip])
        BY <2>2, <2>3, <4>1 DEF WithChange
      <4>3. roster'[id].ip = ip
        BY <2>1, <3>1, <3>2, <4>2, RosterAssumption
        DEF RosterAssumption, Changed, NoChange, Row
      <4> QED
        BY <2>1, <2>2, <3>2, <4>3 DEF Moved
    <3>3. CASE i # id
      <4>1. roster'[i] = roster[i]
        BY <2>2, <2>3, <3>1, <3>3 DEF WithChange
      <4> QED
        BY <1>2, <2>2, <2>6, <3>3, <4>1 DEF Moved
    <3> QED
      BY <3>2, <3>3
  <2>7. CASE job[w].todo = {id}
    <3>1. pc'[w] = "save.render"
      BY <2>2, <2>7
    <3>2. \A i \in Ids(roster)' : Moved(i)'
      BY <2>5, <2>6, <2>7
    <3> QED
      BY <3>1, <3>2 DEF CidrInv, OwnBlock, Underway, AllMoved, OtherCalls, At
  <2>8. CASE job[w].todo # {id}
    <3>1. pc'[w] = "cidr.assign" /\ job'[w].todo # {} /\ job'[w].cidr = iface'
      BY <1>2, <1>3, <2>2, <2>8
    <3>2. \A i \in Ids(roster)' \ job'[w].todo : Moved(i)'
      BY <2>2, <2>5, <2>6
    <3> QED
      BY <3>1, <3>2 DEF CidrInv, OwnBlock, Underway, AllMoved, OtherCalls, At
  <2> QED
    BY <2>7, <2>8
<1> QED
  BY <1>4, <1>5

LEMMA CidrProceed ==
  ASSUME TypeOK, NEW w \in Workers, Workers = {w}, CidrInv, Proceed(w)
  PROVE  CidrInv'
<1>1. w \in Tasks /\ pc \in [Tasks -> PC] /\ job \in [Tasks -> Job]
  BY DEF Tasks, TypeOK
<1>2. pc[w] \in {"create.alloc", "update.commit", "delete.commit"} => job[w].op # "cidr"
  BY DEF CidrInv, OtherCalls
<1>3. ASSUME Answer(w) PROVE CidrInv'
  BY <1>1, <1>3, CidrElsewhere DEF Answer, Goto
<1>4. ASSUME pc[w] \in {"create.alloc", "update.commit", "delete.commit"},
             Goto(w, "save.render"), UNCHANGED job
      PROVE  CidrInv'
  BY <1>1, <1>2, <1>4, CidrElsewhere DEF Goto
<1>5. ASSUME NEW e \in Expiries \union {"none"}, CreateAlloc(w, e)
      PROVE  CidrInv'
  BY <1>4, <1>5 DEF CreateAlloc, At
<1>6. CASE CreateExhausted(w)
  BY <1>3, <1>6 DEF CreateExhausted
<1>7. CASE UpdateCommit(w)
  BY <1>3, <1>4, <1>7 DEF UpdateCommit, At
<1>8. CASE DeleteCommit(w)
  BY <1>3, <1>4, <1>8 DEF DeleteCommit, At
<1>9. CASE ChangeCidrList(w)
  <2>1. /\ iface' = iface /\ roster' = roster
        /\ job'[w].todo = Ids(roster) /\ job'[w].cidr = job[w].cidr
        /\ pc'[w] = IF Ids(roster) = {} THEN "save.render" ELSE "cidr.assign"
    BY <1>1, <1>9 DEF ChangeCidrList, Goto, db, Job
  <2>2. job[w].cidr = iface
    BY <1>9 DEF CidrInv, OwnBlock, ChangeCidrList, At
  <2>3. CASE Ids(roster) = {}
    BY <2>1, <2>3 DEF CidrInv, OwnBlock, Underway, AllMoved, OtherCalls, At
  <2>4. CASE Ids(roster) # {}
    BY <2>1, <2>2, <2>4 DEF CidrInv, OwnBlock, Underway, AllMoved, OtherCalls, At
  <2> QED
    BY <2>3, <2>4
<1>10. CASE ChangeCidrAssign(w)
  BY <1>10, CidrAssigned
<1> QED
  BY <1>5, <1>6, <1>7, <1>8, <1>9, <1>10 DEF Proceed

\* The expiry job disables rows and leaves their addresses.
LEMMA CidrCron ==
  ASSUME TypeOK, NEW w \in Workers, Workers = {w}, CidrInv, CronScan \/ CronDisable
  PROVE  CidrInv'
<1>1. w # Cron /\ w \in Tasks /\ pc \in [Tasks -> PC] /\ job \in [Tasks -> Job]
  BY RosterAssumption DEF RosterAssumption, Tasks, TypeOK
<1>2. pc'[w] = pc[w] /\ job'[w] = job[w]
  BY <1>1 DEF CronScan, CronDisable, Goto
<1>3. SameAddresses
  <2>1. CASE CronScan
    BY <2>1 DEF CronScan, db, SameAddresses
  <2>2. CASE CronDisable
    <3> DEFINE id == Smallest(job[Cron].todo)
               change == [NoChange EXCEPT !.enabled = FALSE]
    <3>1. roster' = WithChange(roster, id, change) /\ iface' = iface
      BY <2>2 DEF CronDisable
    <3>2. change.ip = Keep
      BY DEF NoChange
    <3> HIDE DEF id, change
    <3>3. ASSUME NEW i \in ClientId, roster[i] # Absent
          PROVE  roster'[i] \in Row /\ roster'[i].ip = roster[i].ip
      <4>1. roster[i] \in Row /\ roster \in [ClientId -> Row \union {Absent}]
        BY <3>3 DEF TypeOK
      <4>2. CASE i = id
        <5>1. roster'[i] = Changed(roster[i], change)
          BY <3>1, <3>3, <4>1, <4>2 DEF WithChange
        <5>2. change.enabled = FALSE /\ change.expiry = Keep
          BY DEF change, NoChange
        <5> QED
          BY <3>2, <4>1, <5>1, <5>2 DEF Changed, Row
      <4>3. CASE i # id
        BY <3>1, <4>1, <4>3 DEF WithChange
      <4> QED
        BY <4>2, <4>3
    <3>4. ASSUME NEW i \in ClientId, roster[i] = Absent
          PROVE  roster'[i] = Absent
      BY <3>1, <3>4 DEF WithChange, TypeOK
    <3> QED
      BY <3>1, <3>3, <3>4, RosterAssumption DEF RosterAssumption, SameAddresses
  <2> QED
    BY <2>1, <2>2
<1> QED
  BY <1>2, <1>3, CidrKept

LEMMA CidrPublish ==
  ASSUME TypeOK, NEW w \in Workers, Workers = {w}, CidrInv, NEW t \in Tasks,
         Render(t) \/ LinkDown(t) \/ Publish(t) \/ SaveFails(t)
  PROVE  CidrInv'
<1>1. w \in Tasks /\ pc \in [Tasks -> PC] /\ job \in [Tasks -> Job]
  BY DEF Tasks, TypeOK
<1>2. iface' = iface /\ roster' = roster
  BY DEF Render, LinkDown, Publish, OpenTrunc, WriteConf, Strip, SyncConf, SyncNoLink,
     LinkRead, LinkSet, SaveFails, db
<1>3. CASE t # w
  <2>1. pc'[w] = pc[w] /\ job'[w] = job[w]
    BY <1>1, <1>3 DEF Render, LinkDown, Publish, OpenTrunc, WriteConf, Strip, SyncConf,
       SyncNoLink, LinkRead, LinkSet, SaveFails, SaveReturns, Answer, Goto
  <2>2. SameAddresses
    BY <1>2 DEF SameAddresses
  <2> QED
    BY <2>1, <2>2, CidrKept
<1>4. CASE t = w
  <2>1. pc'[w] \in {"idle", "save.open", "save.write", "save.strip", "save.sync",
                    "link.down", "link.read", "link.set"}
    BY <1>1, <1>4 DEF Render, LinkDown, Publish, OpenTrunc, WriteConf, Strip, SyncConf,
       SyncNoLink, LinkRead, LinkSet, SaveFails, SaveReturns, Answer, Goto
  <2> QED
    BY <2>1, CidrElsewhere
<1> QED
  BY <1>3, <1>4

LEMMA CidrTime ==
  ASSUME TypeOK, NEW w \in Workers, Workers = {w}, CidrInv,
         NEW id \in ClientId, TimePasses(id)
  PROVE  CidrInv'
<1>1. roster[id] \in Row /\ roster \in [ClientId -> Row \union {Absent}]
  BY DEF TypeOK, TimePasses, Ids
<1>2. roster' = [roster EXCEPT ![id].expiry =
                       IF roster[id].expiry = "ahead" THEN "behind" ELSE "local_behind"]
  BY DEF TimePasses
<1>3. roster'[id] \in Row /\ roster'[id].ip = roster[id].ip
  BY <1>1, <1>2 DEF Row, Expiry
<1>4. \A i \in ClientId \ {id} : roster'[i] = roster[i]
  BY <1>1, <1>2
<1>5. SameAddresses
  BY <1>1, <1>3, <1>4, RosterAssumption DEF RosterAssumption, SameAddresses, TimePasses
<1> QED
  BY <1>5, CidrKept DEF TimePasses

LEMMA CidrStep ==
  ASSUME NEW w, Workers = {w}
  PROVE  TypeOK /\ CidrInv /\ [Next]_vars => CidrInv'
<1> SUFFICES ASSUME TypeOK, CidrInv, [Next]_vars PROVE CidrInv'
  OBVIOUS
<1>1. w \in Workers /\ w # Main
  BY RosterAssumption DEF RosterAssumption
<1>2. CASE \E t \in Workers : Request(t) \/ Proceed(t)
  BY <1>1, <1>2, CidrRequest, CidrProceed
<1>3. CASE CronScan \/ CronDisable
  BY <1>1, <1>3, CidrCron
<1>4. CASE \E t \in Tasks : Render(t) \/ LinkDown(t) \/ Publish(t) \/ SaveFails(t)
  BY <1>1, <1>4, CidrPublish
<1>5. CASE Crash
  <2>1. pc'[w] = "idle"
    BY <1>1, <1>5 DEF Crash, Tasks
  <2> QED
    BY <1>1, <2>1, CidrElsewhere
<1>6. CASE \E id \in ClientId : TimePasses(id)
  BY <1>1, <1>6, CidrTime
<1>7. CASE UNCHANGED vars
  <2>1. SameAddresses
    BY <1>7 DEF vars, SameAddresses
  <2> QED
    BY <1>1, <1>7, <2>1, CidrKept DEF vars
<1> QED
  BY <1>2, <1>3, <1>4, <1>5, <1>6, <1>7 DEF Next

\* "Reassign all client IPs": whatever save fails, process dies or row expires on
\* the way, when change_cidr turns to its save every client has a host address of
\* the block the interface has, and none the server's.
THEOREM CidrMovedAlone ==
  ASSUME NEW w, Workers = {w}
  PROVE  Spec => []CidrMoved
<1>1. Init => CidrInv
  BY DEF Init, CidrInv, OwnBlock, Underway, AllMoved, OtherCalls, At, Tasks
<1>2. TypeOK /\ CidrInv /\ [Next]_vars => CidrInv'
  BY CidrStep
<1>3. CidrInv => CidrMoved
  BY DEF CidrInv, AllMoved, Moved, CidrMoved
<1> QED
  BY <1>1, <1>2, <1>3, TypeCorrect, PTL DEF Spec
=============================================================================
