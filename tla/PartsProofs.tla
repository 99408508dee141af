---------------------------- MODULE PartsProofs ----------------------------
(***************************************************************************)
(* What MCParts checks on small instances, for every instance: the         *)
(* database from file to file (S), the one-time links (L) and the rules of *)
(* the firewall.                                                           *)
(***************************************************************************)
EXTENDS MCParts, FiniteSetTheorems, WellFoundedInduction, TLAPS

(***************************************************************************)
(* 1. The database.                                                        *)
(***************************************************************************)
IsDb(d) == {"kind", "ver"} \subseteq DOMAIN d /\ d.kind = "db" /\ d.ver \in Nat

StoreShape ==
  /\ IsDb(opened)
  /\ file \in {S!NoFile, S!Corrupt} \/ IsDb(file)
  /\ floor \in Nat
  /\ periodic.at \in {"idle", "copying", "image"}
  /\ periodic.at = "image" => IsDb(periodic.image)
  /\ final.at \in {"idle", "copying", "image", "done"}
  /\ final.at = "image" => IsDb(final.image)

(***************************************************************************)
(* LosesOnlyTail is not inductive: an image still to be renamed may become *)
(* the file, and the next boot reads only that.  An image in hand holds no *)
(* more than the open database, so a late rename raises the floor no       *)
(* higher; the last image holds all of it, for nothing is written once     *)
(* the requests are drained; and the file never falls below the floor.     *)
(***************************************************************************)
Durable == floor > 0 => IsDb(file) /\ floor <= file.ver

Live ==
  /\ phase # "down" => floor <= opened.ver
  /\ phase = "down" => periodic.at = "idle" /\ final.at = "idle"
  /\ periodic.at = "image" => periodic.image.ver <= opened.ver
  /\ final.at # "idle" => phase \in {"final", "exited"}
  /\ final.at = "image" => final.image.ver = opened.ver

TailInv == StoreShape /\ (mode = "ram" => Durable /\ Live)

-----------------------------------------------------------------------------
\* A field other than the kind and the count leaves both alone.
LEMMA FieldFact ==
  \A d, f, v : IsDb(d) /\ f \notin {"kind", "ver"}
                 => IsDb([d EXCEPT ![f] = v]) /\ [d EXCEPT ![f] = v].ver = d.ver
BY DEF IsDb

\* A counted write.
LEMMA CountFact ==
  \A d : IsDb(d) => IsDb([d EXCEPT !.ver = @ + 1]) /\ [d EXCEPT !.ver = @ + 1].ver = d.ver + 1
BY DEF IsDb

\* A database starts at zero.
LEMMA NoDataFact == IsDb(S!NoData) /\ S!NoData.ver = 0
BY DEF S!NoData, IsDb

\* An older release's file has no counted write.
LEMMA OldFact == \A f \in S!OldFiles : IsDb(f) /\ f.ver = 0
BY DEF S!OldFiles, S!OldFile, IsDb

\* A statement of boot counts nothing.
LEMMA EffectFact == \A st, d : IsDb(d) => IsDb(S!Effect(st, d)) /\ S!Effect(st, d).ver = d.ver
<1> TAKE st, d
<1> HAVE IsDb(d)
<1>1. CASE st.do = "create"
  <2> DEFINE e == [d EXCEPT !.tables = d.tables \cup {st.on}]
  <2>1. IsDb(e) /\ e.ver = d.ver
    BY FieldFact
  <2> DEFINE g == [e EXCEPT !.cols = d.cols \cup S!Columns(st.on)]
  <2>2. S!Effect(st, d) = d \/ S!Effect(st, d) = g
    BY <1>1 DEF S!Effect, IsDb
  <2> HIDE DEF e
  <2>3. IsDb(g) /\ g.ver = e.ver
    BY <2>1, FieldFact
  <2> HIDE DEF g
  <2> QED
    BY <2>1, <2>2, <2>3
<1>2. CASE st.do = "alter"
  BY <1>2, FieldFact DEF S!Effect
<1>3. CASE st.do = "hooks"
  BY <1>3, FieldFact DEF S!Effect
<1>4. CASE st.do = "insert"
  BY <1>4, FieldFact DEF S!Effect, S!Insert
<1>5. CASE st.do = "seed"
  BY <1>5, FieldFact DEF S!Effect, S!Insert
<1>6. CASE st.do \notin {"create", "alter", "hooks", "insert", "seed"}
  BY <1>6 DEF S!Effect
<1> QED
  BY <1>1, <1>2, <1>3, <1>4, <1>5, <1>6

\* A handler's write of a singleton is counted.
LEMMA SetFact ==
  \A d, t, v, f : IsDb(d) /\ f \notin {"kind", "ver"}
                    => IsDb(S!Set(d, t, f, v)) /\ S!Set(d, t, f, v).ver >= d.ver
<1> TAKE d, t, v, f
<1> HAVE IsDb(d) /\ f \notin {"kind", "ver"}
<1> DEFINE e == IF t \in d.rows THEN [d EXCEPT ![f] = v] ELSE d
<1>1. IsDb(e) /\ e.ver = d.ver
  BY FieldFact
<1>2. S!Set(d, t, f, v) = [e EXCEPT !.ver = @ + 1]
  BY DEF S!Set
<1> HIDE DEF e
<1>3. e.ver \in Nat
  BY <1>1 DEF IsDb
<1> QED
  BY <1>1, <1>2, <1>3, CountFact

\* So is one that also starts or ends the history of edits.
LEMMA EditFact ==
  \A d, t, v, f, b : IsDb(d) /\ f \notin {"kind", "ver"}
    => LET e == [S!Set(d, t, f, v) EXCEPT !.edited = b] IN IsDb(e) /\ e.ver >= d.ver
<1> TAKE d, t, v, f, b
<1> HAVE IsDb(d) /\ f \notin {"kind", "ver"}
<1> DEFINE g == S!Set(d, t, f, v)
           e == [g EXCEPT !.edited = b]
<1>1. IsDb(g) /\ g.ver >= d.ver
  BY SetFact
<1> HIDE DEF g
<1>2. IsDb(e) /\ e.ver = g.ver
  BY <1>1, FieldFact
<1> HIDE DEF e
<1>3. IsDb(e) /\ e.ver >= d.ver
  BY <1>1, <1>2
<1> QED
  BY <1>3 DEF e, g

\* A new user is counted.
LEMMA UserFact ==
  ASSUME NEW d, IsDb(d), NEW u
  PROVE  LET e == [d EXCEPT !.users = u, !.ver = @ + 1]
         IN IsDb(e) /\ e.ver >= d.ver
<1> DEFINE g == [d EXCEPT !.users = u]
           h == [g EXCEPT !.ver = @ + 1]
<1>1. IsDb(g) /\ g.ver = d.ver
  BY FieldFact
<1>2. [d EXCEPT !.users = u, !.ver = @ + 1] = h
  OBVIOUS
<1> HIDE DEF g
<1>3. g.ver \in Nat
  BY <1>1 DEF IsDb
<1>4. IsDb(h) /\ h.ver >= d.ver
  BY <1>1, <1>3, CountFact
<1> HIDE DEF h
<1> QED
  BY <1>2, <1>4, Zenon

-----------------------------------------------------------------------------
(***************************************************************************)
(* The invariant, step by step.                                            *)
(***************************************************************************)
\* The server is down and no snapshot was taken by this release.
LEMMA TailInit == S!Init => TailInv
<1> SUFFICES ASSUME S!Init PROVE TailInv
  OBVIOUS
<1>1. file \in {S!NoFile, S!Corrupt} \/ IsDb(file)
  BY OldFact DEF S!Init
<1>2. StoreShape
  BY <1>1, NoDataFact DEF S!Init, StoreShape, S!NoImage
<1>3. Durable /\ Live
  BY DEF S!Init, Durable, Live, S!NoImage
<1> QED
  BY <1>2, <1>3 DEF TailInv

\* A commit that takes nothing away, while the last image is not yet copied.
LEMMA CommitKeeps ==
  ASSUME TailInv, NEW d, S!Commit(d), IsDb(d), d.ver >= opened.ver,
         phase \in {"boot", "init", "serving", "draining"},
         UNCHANGED <<mode, phase, periodic, final, floor>>
  PROVE  TailInv'
<1>1. opened' = d /\ file' = (IF mode = "disk" THEN d ELSE file)
  BY DEF S!Commit
<1>2. StoreShape'
  BY <1>1 DEF TailInv, StoreShape
<1>3. ASSUME mode = "ram" PROVE Durable' /\ Live'
  <2>1. Durable /\ Live /\ file' = file /\ opened' = d /\ opened.ver \in Nat /\ d.ver \in Nat
    BY <1>1, <1>3 DEF TailInv, StoreShape, IsDb
  <2>2. Durable'
    BY <2>1 DEF Durable
  <2>3. final.at = "idle"
    BY <2>1 DEF Live, TailInv, StoreShape
  <2>4. /\ floor \in Nat
        /\ periodic.at = "image" => periodic.image.ver \in Nat
    BY DEF TailInv, StoreShape, IsDb
  <2>5. Live'
    BY <2>1, <2>3, <2>4 DEF Live
  <2> QED
    BY <2>2, <2>5
<1> QED
  BY <1>2, <1>3 DEF TailInv

\* A step that writes nothing and moves only the phase, among those of a
\* server that has not been drained.
LEMMA PhaseKeeps ==
  ASSUME TailInv, UNCHANGED <<mode, file, opened, periodic, final, floor>>,
         phase \notin {"down", "final", "exited"},
         phase' \notin {"down", "final", "exited"}
  PROVE  TailInv'
<1>1. StoreShape'
  BY DEF TailInv, StoreShape
<1>2. ASSUME mode = "ram" PROVE Durable' /\ Live'
  BY <1>2 DEF TailInv, Durable, Live, StoreShape
<1> QED
  BY <1>1, <1>2 DEF TailInv

\* The file is opened, or there is none worth opening.
LEMMA OpenKeeps == TailInv /\ S!Open => TailInv'
<1> SUFFICES ASSUME TailInv, S!Open PROVE TailInv'
  OBVIOUS
<1>1. /\ opened' = IF file.kind = "db" THEN file ELSE S!NoData
      /\ phase = "down" /\ phase' = "boot"
      /\ UNCHANGED <<mode, file, periodic, final, floor>>
  BY DEF S!Open
<1>2. file.kind = "db" <=> IsDb(file)
  <2>1. CASE IsDb(file)
    BY <2>1 DEF IsDb
  <2>2. CASE file \in {S!NoFile, S!Corrupt}
    BY <2>2 DEF IsDb, S!NoFile, S!Corrupt
  <2> QED
    BY <2>1, <2>2 DEF TailInv, StoreShape
<1>3. IsDb(opened')
  BY <1>1, <1>2, NoDataFact
<1>4. StoreShape'
  BY <1>1, <1>3 DEF TailInv, StoreShape
<1>5. ASSUME mode = "ram" PROVE Durable' /\ Live'
  <2>1. Durable /\ Live /\ floor \in Nat
    BY <1>5 DEF TailInv, StoreShape
  <2>2. floor <= opened'.ver
    BY <1>1, <1>2, <1>3, <2>1, NoDataFact DEF Durable, IsDb
  <2> QED
    BY <1>1, <2>1, <2>2 DEF Durable, Live
<1> QED
  BY <1>1, <1>4, <1>5 DEF TailInv

\* A crash or the end of the program leaves only the file.
LEMMA DownKeeps ==
  ASSUME TailInv, phase' = "down", opened' = S!NoData, UNCHANGED <<mode, file, floor>>,
         periodic'.at = "idle", final'.at = "idle"
  PROVE  TailInv'
<1>1. StoreShape'
  BY NoDataFact DEF TailInv, StoreShape
<1>2. ASSUME mode = "ram" PROVE Durable' /\ Live'
  BY <1>2 DEF TailInv, Durable, Live
<1> QED
  BY <1>1, <1>2 DEF TailInv

\* The periodic snapshot.
LEMMA PeriodicKeeps ==
  ASSUME TailInv, S!Tick \/ S!Copy \/ S!Promote \/ S!PromoteFails
  PROVE  TailInv'
<1>1. CASE S!Tick
  <2>1. /\ periodic'.at = "copying" /\ mode = "ram" /\ phase # "down"
        /\ UNCHANGED <<mode, phase, file, opened, final, floor>>
    BY <1>1 DEF S!Tick, S!Task, S!Running
  <2>2. StoreShape'
    BY <2>1 DEF TailInv, StoreShape
  <2>3. Durable' /\ Live'
    BY <2>1 DEF TailInv, Durable, Live
  <2> QED
    BY <2>2, <2>3 DEF TailInv
<1>2. CASE S!Copy
  <2>1. /\ UNCHANGED <<mode, phase, file, opened, final, floor>> /\ periodic.at = "copying"
        /\ \/ periodic'.at = "image" /\ periodic'.image = opened
           \/ periodic'.at = "idle"
    BY <1>2 DEF S!Copy, S!Task, S!NoImage
  <2>2. StoreShape'
    BY <2>1 DEF TailInv, StoreShape
  <2>3. ASSUME mode = "ram" PROVE Durable' /\ Live'
    BY <2>1, <2>3 DEF TailInv, Durable, Live, StoreShape, IsDb
  <2> QED
    BY <2>1, <2>2, <2>3 DEF TailInv
<1>3. CASE S!Promote
  <2>1. /\ UNCHANGED <<mode, phase, opened, final>> /\ periodic.at = "image"
        /\ periodic'.at = "idle" /\ file' = periodic.image /\ floor' = periodic.image.ver
    BY <1>3 DEF S!Promote, S!NoImage
  <2>2. IsDb(periodic.image) /\ periodic.image.ver \in Nat
    BY <2>1 DEF TailInv, StoreShape, IsDb
  <2>3. StoreShape'
    BY <2>1, <2>2 DEF TailInv, StoreShape
  <2>4. ASSUME mode = "ram" PROVE Durable' /\ Live'
    BY <2>1, <2>2, <2>4 DEF TailInv, Durable, Live
  <2> QED
    BY <2>1, <2>3, <2>4 DEF TailInv
<1>4. CASE S!PromoteFails
  <2>1. UNCHANGED <<mode, phase, file, opened, final, floor>> /\ periodic'.at = "idle"
    BY <1>4 DEF S!PromoteFails, S!NoImage
  <2>2. StoreShape'
    BY <2>1 DEF TailInv, StoreShape
  <2>3. ASSUME mode = "ram" PROVE Durable' /\ Live'
    BY <2>1, <2>3 DEF TailInv, Durable, Live
  <2> QED
    BY <2>1, <2>2, <2>3 DEF TailInv
<1> QED
  BY <1>1, <1>2, <1>3, <1>4

\* The last snapshot, of main.
LEMMA FinalKeeps ==
  ASSUME TailInv, S!Drained \/ S!FinalCopy \/ S!FinalPromote
  PROVE  TailInv'
<1>1. CASE S!Drained
  <2>1. /\ UNCHANGED <<mode, file, opened, periodic, floor>>
        /\ phase = "draining" /\ phase' \in {"final", "exited"} /\ final'.at \in {"idle", "copying"}
    BY <1>1 DEF S!Drained, S!Task, S!NoImage
  <2>2. StoreShape'
    BY <2>1 DEF TailInv, StoreShape
  <2>3. ASSUME mode = "ram" PROVE Durable' /\ Live'
    BY <2>1, <2>3 DEF TailInv, Durable, Live
  <2> QED
    BY <2>1, <2>2, <2>3 DEF TailInv
<1>2. CASE S!FinalCopy
  <2>1. /\ UNCHANGED <<mode, file, opened, periodic, floor>> /\ final.at = "copying"
        /\ \/ final'.at = "image" /\ final'.image = opened /\ phase' = phase
           \/ final'.at = "idle" /\ phase' = "exited"
    BY <1>2 DEF S!FinalCopy, S!Task, S!NoImage
  <2>2. StoreShape'
    BY <2>1 DEF TailInv, StoreShape
  <2>3. ASSUME mode = "ram" PROVE Durable' /\ Live'
    BY <2>1, <2>3 DEF TailInv, Durable, Live, StoreShape
  <2> QED
    BY <2>1, <2>2, <2>3 DEF TailInv
<1>3. CASE S!FinalPromote
  <2>1. /\ UNCHANGED <<mode, opened, periodic, floor>> /\ final.at = "image" /\ phase' = "exited"
        /\ \/ file' = final.image /\ final'.at = "done"
           \/ file' = file /\ final'.at = "idle"
    BY <1>3 DEF S!FinalPromote, S!Task, S!NoImage
  <2>2. StoreShape'
    BY <2>1 DEF TailInv, StoreShape
  <2>3. ASSUME mode = "ram" PROVE Durable' /\ Live'
    <3>1. Durable /\ Live /\ phase # "down" /\ IsDb(final.image) /\ final.image.ver = opened.ver
      BY <2>1, <2>3 DEF TailInv, StoreShape, Live
    <3> QED
      BY <2>1, <3>1 DEF Durable, Live
  <2> QED
    BY <2>1, <2>2, <2>3 DEF TailInv
<1> QED
  BY <1>1, <1>2, <1>3

\* run_init_setup only adds.
LEMMA InitSetupKeeps ==
  ASSUME TailInv, NEW from, NEW to, NEW d, S!InitSetup(from, to, d), IsDb(d), d.ver >= opened.ver
  PROVE  TailInv'
BY CommitKeeps DEF S!InitSetup

\* So does a request of the wizard.
LEMMA WizardKeeps ==
  ASSUME TailInv, NEW r, NEW from, NEW to, NEW d, S!Handle(r, from, to, d),
         IsDb(d), d.ver >= opened.ver
  PROVE  TailInv'
BY CommitKeeps DEF S!Handle

\* Every step keeps the invariant.
LEMMA TailStep == TailInv /\ [S!Next]_(S!vars) => TailInv'
<1> SUFFICES ASSUME TailInv, [S!Next]_(S!vars) PROVE TailInv'
  OBVIOUS
<1>d. IsDb(opened) /\ opened.ver \in Nat
  BY DEF TailInv, StoreShape, IsDb
<1>1. CASE UNCHANGED S!vars
  <2>1. UNCHANGED <<mode, phase, file, opened, periodic, final, floor>>
    BY <1>1 DEF S!vars
  <2> QED
    BY <2>1 DEF TailInv, StoreShape, Durable, Live
<1>2. CASE S!Boot
  <2>1. /\ S!Commit(S!Effect(S!Program[boot.pc], opened))
        /\ phase = "boot" /\ UNCHANGED <<mode, phase, periodic, final, floor>>
    BY <1>2 DEF S!Boot
  <2>2. IsDb(S!Effect(S!Program[boot.pc], opened)) /\ S!Effect(S!Program[boot.pc], opened).ver >= opened.ver
    BY <1>d, EffectFact
  <2> QED
    BY <2>1, <2>2, CommitKeeps
<1>3. CASE S!Opened \/ S!Serve \/ S!Stop
  <2>1. /\ UNCHANGED <<mode, file, opened, periodic, final, floor>>
        /\ phase \in {"boot", "init", "serving"} /\ phase' \in {"init", "serving", "draining"}
    BY <1>3 DEF S!Opened, S!Serve, S!Stop
  <2> QED
    BY <2>1, PhaseKeeps
<1>4. CASE S!InitUser
  <2> DEFINE d == [opened EXCEPT !.users = 1, !.ver = @ + 1]
  <2>1. IsDb(d) /\ d.ver >= opened.ver
    BY <1>d, UserFact
  <2>2. S!InitSetup("user", "host", d)
    BY <1>4 DEF S!InitUser
  <2> HIDE DEF d
  <2> QED
    BY <2>1, <2>2, InitSetupKeeps
<1>5. CASE S!InitHost \/ S!InitIface \/ S!InitDone
  BY <1>5, <1>d, SetFact, EditFact, InitSetupKeeps
     DEF S!InitHost, S!InitIface, S!InitDone, S!UpdateHostPort
<1>6. CASE S!InitLists
  <2> DEFINE d == [opened EXCEPT !.ver = @ + 1]
  <2>1. IsDb(d) /\ d.ver >= opened.ver
    BY <1>d, CountFact
  <2>2. S!InitSetup("lists", "done", d)
    BY <1>6 DEF S!InitLists
  <2> HIDE DEF d
  <2> QED
    BY <2>1, <2>2, InitSetupKeeps
<1>7. ASSUME NEW r \in Reqs, S!Wizard(r) PROVE TailInv'
  <2>1. CASE S!Setup2(r) \/ S!Setup4(r)
    <3>1. /\ UNCHANGED <<mode, file, opened, periodic, final, floor>>
          /\ phase = "serving" /\ phase' = "serving"
      BY <2>1 DEF S!Setup2, S!Setup4, S!Ask
    <3> QED
      BY <3>1, PhaseKeeps
  <2>2. CASE S!CreateUser(r)
    <3> DEFINE d == [opened EXCEPT !.users = @ + 1, !.ver = @ + 1]
    <3>1. IsDb(d) /\ d.ver >= opened.ver
      BY <1>d, UserFact
    <3>2. S!Handle(r, "user", "advance", d)
      BY <2>2 DEF S!CreateUser
    <3> HIDE DEF d
    <3> QED
      BY <3>1, <3>2, WizardKeeps
  <2>3. CASE S!Advance(r) \/ S!SetHost(r) \/ S!SetIface(r) \/ S!Complete(r)
    BY <2>3, <1>d, SetFact, EditFact, WizardKeeps
       DEF S!Advance, S!SetHost, S!SetIface, S!Complete, S!UpdateHostPort
  <2> QED
    BY <1>7, <2>1, <2>2, <2>3 DEF S!Wizard
<1>8. CASE S!Write
  <2> DEFINE d == [opened EXCEPT !.ver = @ + 1]
  <2>1. IsDb(d) /\ d.ver >= opened.ver
    BY <1>d, CountFact
  <2>2. /\ S!Commit(d)
        /\ phase = "serving" /\ UNCHANGED <<mode, phase, periodic, final, floor>>
    BY <1>8 DEF S!Write, S!OtherWrite
  <2> HIDE DEF d
  <2> QED
    BY <2>1, <2>2, CommitKeeps
<1>9. CASE S!Gone \/ S!Crash
  <2>1. /\ phase' = "down" /\ opened' = S!NoData /\ UNCHANGED <<mode, file, floor>>
        /\ periodic'.at = "idle" /\ final'.at = "idle"
    BY <1>9 DEF S!Gone, S!Crash, S!NoImage
  <2> QED
    BY <2>1, DownKeeps
<1>10. ASSUME NEW p \in Edits, S!EditPort(p) PROVE TailInv'
  <2>1. PICK d : /\ S!OtherWrite(d)
                 /\ \/ d = [S!Set(opened, "user_configs", "uport", p) EXCEPT !.edited = TRUE]
                    \/ d = [S!Set(opened, "interfaces", "iport", p) EXCEPT !.edited = TRUE]
    BY <1>10 DEF S!EditPort
  <2>2. IsDb(d) /\ d.ver >= opened.ver
    <3>1. CASE d = [S!Set(opened, "user_configs", "uport", p) EXCEPT !.edited = TRUE]
      BY <3>1, <1>d, EditFact, Zenon
    <3>2. CASE d = [S!Set(opened, "interfaces", "iport", p) EXCEPT !.edited = TRUE]
      BY <3>2, <1>d, EditFact, Zenon
    <3> QED
      BY <2>1, <3>1, <3>2
  <2>3. /\ S!Commit(d)
        /\ phase = "serving" /\ UNCHANGED <<mode, phase, periodic, final, floor>>
    BY <2>1 DEF S!OtherWrite
  <2> QED
    BY <2>2, <2>3, CommitKeeps
<1> QED
  BY <1>1, <1>2, <1>3, <1>4, <1>5, <1>6, <1>7, <1>8, <1>9, <1>10,
     OpenKeeps, PeriodicKeeps, FinalKeeps DEF S!Next

(***************************************************************************)
(* "a crash mid-snapshot can never truncate the previous good snapshot"    *)
(* (db.rs, snapshot_to): whatever fails or is killed, and whenever a       *)
(* rename comes late, a server that answers in RAM mode holds at least the *)
(* writes of the last periodic snapshot that completed.                    *)
(***************************************************************************)
THEOREM LosesOnlyTailEver == PartsSpec => []LosesOnlyTail
<1>1. PartsInit => TailInv
  BY TailInit DEF PartsInit
<1>2. TailInv /\ [PartsNext]_<<part, storeVars, linkVars, vars>> => TailInv'
  <2> SUFFICES ASSUME TailInv, [PartsNext]_<<part, storeVars, linkVars, vars>>
               PROVE  [S!Next]_(S!vars)
    BY TailStep
  <2> QED
    BY DEF PartsNext, storeVars, S!vars
<1>3. TailInv => LosesOnlyTail
  <2> SUFFICES ASSUME TailInv, mode = "ram", S!Running PROVE opened.ver >= floor
    BY DEF LosesOnlyTail, S!LosesOnlyTail
  <2>1. floor <= opened.ver
    BY DEF TailInv, Live, S!Running
  <2> QED
    BY <2>1 DEF TailInv, StoreShape, IsDb
<1> QED
  BY <1>1, <1>2, <1>3, PTL DEF PartsSpec

-----------------------------------------------------------------------------
(***************************************************************************)
(* Two more invariants speak of what a database holds.  The databases at   *)
(* hand are the open one, the file and the images of the snapshots.        *)
(***************************************************************************)
Held ==
  {opened} \union {d \in {file} : d.kind = "db"}
    \union (IF periodic.at = "image" THEN {periodic.image} ELSE {})
    \union (IF final.at = "image" THEN {final.image} ELSE {})

\* A database has its columns.
Fields == {"kind", "tables", "cols", "rows", "legacy", "users", "step", "uport", "iport", "edited",
           "ver"}

Full(d) == Fields \subseteq DOMAIN d /\ d.kind = "db"

\* What a statement of boot is for is there.
Done(st, d) ==
  /\ st.do = "create" => st.on \in d.tables
  /\ st.do = "alter" => st.on \in d.cols
  /\ st.do = "hooks" => ~d.legacy
  /\ st.do = "insert" => st.on \in d.rows

(***************************************************************************)
(* UpgradeComplete, from the first statement on: what has been run is done. *)
(***************************************************************************)
UpgradeInv ==
  /\ \A d \in Held : Full(d)
  /\ {"pc", "restored", "seeding", "step"} \subseteq DOMAIN boot
  /\ phase = "boot" =>
       /\ boot.pc \in Nat \ {0}
       /\ \A i \in 1 .. Len(S!Program) : i < boot.pc => Done(S!Program[i], opened)
  /\ phase \in {"init", "serving", "draining", "final"} =>
       \A i \in 1 .. Len(S!Program) : Done(S!Program[i], opened)

(***************************************************************************)
(* SetupConsistent, in every database at hand, for each is opened by some   *)
(* later boot.  The wizard is not finished (step 0) while there is no user  *)
(* or no row to say so; the seeding, which brings the rows of the ports,    *)
(* runs only in a boot that found it unfinished; and the INIT_* list as     *)
(* well as a request at work have written the ports they have passed, into  *)
(* the rows that are there; all of it as long as no admin sets one port      *)
(* alone.                                                                    *)
(***************************************************************************)
Agrees(d) ==
  d.step = 0 /\ ~d.edited /\ {"user_configs", "interfaces"} \subseteq d.rows => d.uport = d.iport
Told(d, p) == ~d.edited /\ "user_configs" \in d.rows => d.uport = p
Listens(d, p) == ~d.edited /\ "interfaces" \in d.rows => d.iport = p

Sound(d) ==
  /\ d.users \in Nat
  /\ d.users = 0 => d.step = 1
  /\ "general" \notin d.rows => d.step # 0
  /\ Agrees(d)

Booting ==
  phase = "boot" => boot.step = "user" /\ (boot.seeding => opened.step # 0)

InitList ==
  phase = "init" =>
    /\ boot.step \in {"host", "iface", "lists", "done"} => opened.step # 0 /\ opened.users # 0
    /\ boot.step \in {"iface", "lists", "done"} => Told(opened, S!InitPort)
    /\ boot.step \in {"lists", "done"} => Listens(opened, S!InitPort)

Wizards ==
  /\ req = [r \in Reqs |-> req[r]]
  /\ phase \notin {"serving", "draining"} => \A r \in Reqs : req[r] = S!Idle
  /\ \A r \in Reqs :
       /\ {"at", "port"} \subseteq DOMAIN req[r]
       /\ req[r].at = "advance" => opened.users # 0
       /\ req[r].at \in {"host", "iface", "complete"} => opened.step = 3
       /\ req[r].at \in {"iface", "complete"} => Told(opened, req[r].port)
       /\ req[r].at = "complete" => Listens(opened, req[r].port)

Ended == final.at # "idle" => phase \in {"final", "exited"}

SetupInv == (\A d \in Held : Sound(d)) /\ Booting /\ InitList /\ Wizards /\ Ended

-----------------------------------------------------------------------------
(***************************************************************************)
(* The databases there are, and how each comes about: it was there before, *)
(* or is the open one, or is empty.  What every write keeps therefore holds *)
(* of what a later boot finds.                                             *)
(***************************************************************************)
LEMMA Copies ==
  S!Next => Held' \subseteq Held \union {opened', S!NoData}
<1> SUFFICES ASSUME S!Next PROVE Held' \subseteq Held \union {opened', S!NoData}
  OBVIOUS
<1> DEFINE Old == Held \union {opened', S!NoData}
<1>1. \/ file' = file
      \/ file' = opened'
      \/ periodic.at = "image" /\ file' = periodic.image
      \/ final.at = "image" /\ file' = final.image
  BY DEF S!Next, S!Open, S!Boot, S!Opened, S!InitUser, S!InitHost, S!InitIface, S!InitLists,
         S!InitDone, S!InitSetup, S!Serve, S!Wizard, S!Setup2, S!CreateUser, S!Advance, S!Setup4,
         S!SetHost, S!SetIface, S!Complete, S!Ask, S!Handle, S!Write, S!OtherWrite, S!EditPort, S!Commit,
         S!Tick, S!Copy,
         S!Promote, S!PromoteFails, S!Stop, S!Drained, S!FinalCopy, S!FinalPromote, S!Gone, S!Crash
<1>2. \/ periodic' = periodic
      \/ periodic' \in {S!NoImage, S!Task("copying", S!NoData)}
      \/ periodic' = S!Task("image", opened)
  BY DEF S!Next, S!Open, S!Boot, S!Opened, S!InitUser, S!InitHost, S!InitIface, S!InitLists,
         S!InitDone, S!InitSetup, S!Serve, S!Wizard, S!Setup2, S!CreateUser, S!Advance, S!Setup4,
         S!SetHost, S!SetIface, S!Complete, S!Ask, S!Handle, S!Write, S!OtherWrite, S!EditPort, S!Commit,
         S!Tick, S!Copy,
         S!Promote, S!PromoteFails, S!Stop, S!Drained, S!FinalCopy, S!FinalPromote, S!Gone, S!Crash
<1>3. \/ final' = final
      \/ final' \in {S!NoImage, S!Task("copying", S!NoData), S!Task("done", S!NoData)}
      \/ final' = S!Task("image", opened)
  BY DEF S!Next, S!Open, S!Boot, S!Opened, S!InitUser, S!InitHost, S!InitIface, S!InitLists,
         S!InitDone, S!InitSetup, S!Serve, S!Wizard, S!Setup2, S!CreateUser, S!Advance, S!Setup4,
         S!SetHost, S!SetIface, S!Complete, S!Ask, S!Handle, S!Write, S!OtherWrite, S!EditPort, S!Commit,
         S!Tick, S!Copy,
         S!Promote, S!PromoteFails, S!Stop, S!Drained, S!FinalCopy, S!FinalPromote, S!Gone, S!Crash
<1>4. {d \in {file'} : d.kind = "db"} \subseteq Old
  BY <1>1 DEF Held
<1>5. (IF periodic'.at = "image" THEN {periodic'.image} ELSE {}) \subseteq Old
  BY <1>2 DEF Held, S!NoImage, S!Task
<1>6. (IF final'.at = "image" THEN {final'.image} ELSE {}) \subseteq Old
  BY <1>3 DEF Held, S!NoImage, S!Task
<1> QED
  BY <1>4, <1>5, <1>6 DEF Held

\* What is opened is the file, if there is one.
LEMMA OpensHeld == S!Open => opened' \in Held \union {S!NoData}
BY DEF S!Open, Held

-----------------------------------------------------------------------------
\* A write keeps the schema that is there.
Grown(d, e) ==
  /\ Full(e)
  /\ d.tables \subseteq e.tables /\ d.cols \subseteq e.cols /\ d.rows \subseteq e.rows
  /\ ~d.legacy => ~e.legacy

\* The setup data of two databases is the same.
SameSetup(d, e) ==
  /\ e.users = d.users /\ e.step = d.step /\ e.uport = d.uport /\ e.iport = d.iport
  /\ e.edited = d.edited

\* A counted write.
LEMMA Counted1 ==
  ASSUME NEW d, Full(d)
  PROVE  LET e == [d EXCEPT !.ver = @ + 1]
         IN  Grown(d, e) /\ SameSetup(d, e) /\ e.rows = d.rows
BY DEF Full, Fields, Grown, SameSetup

\* What a statement of boot does to a database.
LEMMA EffectDone ==
  ASSUME NEW d, Full(d), NEW st
  PROVE  LET e == S!Effect(st, d)
         IN  /\ Grown(d, e) /\ SameSetup(d, e) /\ Done(st, e)
             /\ st.do \notin {"insert", "seed"} => e.rows = d.rows
             /\ st.do = "insert" \/ (st.do = "seed" /\ boot.seeding) => e.rows = d.rows \cup {st.on}
             /\ st.do = "seed" /\ ~boot.seeding => e = d
<1> DEFINE e == S!Effect(st, d)
<1>1. CASE st.do = "create"
  <2>1. CASE st.on \in d.tables
    <3>1. e = d
      BY <1>1, <2>1 DEF S!Effect
    <3> QED
      BY <1>1, <2>1, <3>1 DEF Grown, SameSetup, Done
  <2>2. CASE st.on \notin d.tables
    <3> DEFINE g == [d EXCEPT !.tables = d.tables \cup {st.on}]
               h == [g EXCEPT !.cols = d.cols \cup S!Columns(st.on)]
    <3>1. Full(g) /\ g.tables = d.tables \cup {st.on} /\ g.cols = d.cols /\ g.rows = d.rows
          /\ g.legacy = d.legacy /\ SameSetup(d, g)
      BY DEF Full, Fields, SameSetup
    <3>2. e = h
      BY <1>1, <2>2 DEF S!Effect, Full, Fields
    <3> HIDE DEF g
    <3>3. Full(h) /\ h.tables = g.tables /\ h.cols = d.cols \cup S!Columns(st.on)
          /\ h.rows = g.rows /\ h.legacy = g.legacy /\ SameSetup(g, h)
      BY <3>1 DEF Full, Fields, SameSetup
    <3> HIDE DEF h
    <3> QED
      BY <1>1, <3>1, <3>2, <3>3 DEF Grown, SameSetup, Done
  <2> QED
    BY <2>1, <2>2
<1>2. CASE st.do = "alter"
  <2>1. e = [d EXCEPT !.cols = d.cols \cup {st.on}]
    BY <1>2 DEF S!Effect, Full, Fields
  <2> QED
    BY <1>2, <2>1 DEF Full, Fields, Grown, SameSetup, Done
<1>3. CASE st.do = "hooks"
  <2>1. e = [d EXCEPT !.legacy = FALSE]
    BY <1>3 DEF S!Effect
  <2> QED
    BY <1>3, <2>1 DEF Full, Fields, Grown, SameSetup, Done
<1>4. CASE st.do = "insert" \/ (st.do = "seed" /\ boot.seeding)
  <2>1. e = [d EXCEPT !.rows = d.rows \cup {st.on}]
    BY <1>4 DEF S!Effect, S!Insert, Full, Fields
  <2> QED
    BY <1>4, <2>1 DEF Full, Fields, Grown, SameSetup, Done
<1>5. CASE st.do \notin {"create", "alter", "hooks", "insert", "seed"}
           \/ (st.do = "seed" /\ ~boot.seeding)
  <2>1. e = d
    BY <1>5 DEF S!Effect
  <2> QED
    BY <1>5, <2>1 DEF Grown, SameSetup, Done
<1> QED
  BY <1>1, <1>2, <1>3, <1>4, <1>5

\* The write of a handler keeps the schema ...
LEMMA SetDone ==
  ASSUME NEW d, Full(d), NEW t, NEW f \in {"step", "uport", "iport"}, NEW v
  PROVE  LET e == S!Set(d, t, f, v)
         IN  Grown(d, e)
<1> DEFINE x == IF t \in d.rows THEN [d EXCEPT ![f] = v] ELSE d
           e == [x EXCEPT !.ver = @ + 1]
<1>1. e = S!Set(d, t, f, v)
  BY DEF S!Set
<1>2. /\ Full(x) /\ x.tables = d.tables /\ x.cols = d.cols /\ x.rows = d.rows
      /\ x.legacy = d.legacy
  BY DEF Full, Fields
<1> HIDE DEF x
<1>3. /\ Full(e) /\ e.tables = x.tables /\ e.cols = x.cols /\ e.rows = x.rows
      /\ e.legacy = x.legacy
  BY <1>2 DEF Full, Fields
<1> HIDE DEF e
<1> QED
  BY <1>1, <1>2, <1>3 DEF Grown

\* ... and does nothing to a row that is not there.
LEMMA SetStepDone ==
  ASSUME NEW d, Full(d), NEW t, NEW v
  PROVE  LET e == S!Set(d, t, "step", v)
         IN  /\ e.rows = d.rows /\ e.users = d.users /\ e.edited = d.edited
             /\ e.uport = d.uport /\ e.iport = d.iport
             /\ t \in d.rows => e.step = v
             /\ t \notin d.rows => e.step = d.step
<1> DEFINE x == IF t \in d.rows THEN [d EXCEPT !.step = v] ELSE d
           e == [x EXCEPT !.ver = @ + 1]
<1>1. e = S!Set(d, t, "step", v)
  BY DEF S!Set
<1>2. /\ Full(x) /\ x.rows = d.rows /\ x.users = d.users /\ x.edited = d.edited
      /\ x.uport = d.uport /\ x.iport = d.iport
      /\ t \in d.rows => x.step = v
      /\ t \notin d.rows => x.step = d.step
  BY DEF Full, Fields
<1> HIDE DEF x
<1>3. /\ e.rows = x.rows /\ e.users = x.users /\ e.edited = x.edited
      /\ e.step = x.step /\ e.uport = x.uport /\ e.iport = x.iport
  BY <1>2 DEF Full, Fields
<1> HIDE DEF e
<1> QED
  BY <1>1, <1>2, <1>3

LEMMA SetUportDone ==
  ASSUME NEW d, Full(d), NEW t, NEW v
  PROVE  LET e == S!Set(d, t, "uport", v)
         IN  /\ e.rows = d.rows /\ e.users = d.users /\ e.edited = d.edited /\ e.step = d.step
             /\ e.iport = d.iport
             /\ t \in d.rows => e.uport = v
             /\ t \notin d.rows => e.uport = d.uport
<1> DEFINE x == IF t \in d.rows THEN [d EXCEPT !.uport = v] ELSE d
           e == [x EXCEPT !.ver = @ + 1]
<1>1. e = S!Set(d, t, "uport", v)
  BY DEF S!Set
<1>2. /\ Full(x) /\ x.rows = d.rows /\ x.users = d.users /\ x.edited = d.edited /\ x.step = d.step
      /\ x.iport = d.iport
      /\ t \in d.rows => x.uport = v
      /\ t \notin d.rows => x.uport = d.uport
  BY DEF Full, Fields
<1> HIDE DEF x
<1>3. /\ e.rows = x.rows /\ e.users = x.users /\ e.edited = x.edited
      /\ e.step = x.step /\ e.uport = x.uport /\ e.iport = x.iport
  BY <1>2 DEF Full, Fields
<1> HIDE DEF e
<1> QED
  BY <1>1, <1>2, <1>3

LEMMA SetIportDone ==
  ASSUME NEW d, Full(d), NEW t, NEW v
  PROVE  LET e == S!Set(d, t, "iport", v)
         IN  /\ e.rows = d.rows /\ e.users = d.users /\ e.edited = d.edited /\ e.step = d.step
             /\ e.uport = d.uport
             /\ t \in d.rows => e.iport = v
             /\ t \notin d.rows => e.iport = d.iport
<1> DEFINE x == IF t \in d.rows THEN [d EXCEPT !.iport = v] ELSE d
           e == [x EXCEPT !.ver = @ + 1]
<1>1. e = S!Set(d, t, "iport", v)
  BY DEF S!Set
<1>2. /\ Full(x) /\ x.rows = d.rows /\ x.users = d.users /\ x.edited = d.edited /\ x.step = d.step
      /\ x.uport = d.uport
      /\ t \in d.rows => x.iport = v
      /\ t \notin d.rows => x.iport = d.iport
  BY DEF Full, Fields
<1> HIDE DEF x
<1>3. /\ e.rows = x.rows /\ e.users = x.users /\ e.edited = x.edited
      /\ e.step = x.step /\ e.uport = x.uport /\ e.iport = x.iport
  BY <1>2 DEF Full, Fields
<1> HIDE DEF e
<1> QED
  BY <1>1, <1>2, <1>3

\* A new user.
LEMMA UserDone ==
  ASSUME NEW d, Full(d), NEW u
  PROVE  LET e == [d EXCEPT !.users = u, !.ver = @ + 1]
         IN  /\ Grown(d, e) /\ e.rows = d.rows /\ e.users = u /\ e.edited = d.edited /\ e.step = d.step
             /\ e.uport = d.uport /\ e.iport = d.iport
<1> DEFINE x == [d EXCEPT !.users = u]
           e == [x EXCEPT !.ver = @ + 1]
<1>1. e = [d EXCEPT !.users = u, !.ver = @ + 1]
  OBVIOUS
<1>2. /\ Full(x) /\ x.tables = d.tables /\ x.cols = d.cols /\ x.rows = d.rows
      /\ x.legacy = d.legacy /\ x.users = u /\ x.edited = d.edited /\ x.step = d.step
      /\ x.uport = d.uport /\ x.iport = d.iport
  BY DEF Full, Fields
<1> HIDE DEF x
<1>3. /\ Full(e) /\ e.tables = x.tables /\ e.cols = x.cols /\ e.rows = x.rows
      /\ e.legacy = x.legacy /\ e.users = x.users /\ e.edited = x.edited /\ e.step = x.step
      /\ e.uport = x.uport /\ e.iport = x.iport
  BY <1>2 DEF Full, Fields
<1> HIDE DEF e
<1>4. Grown(d, e) /\ e.rows = d.rows /\ e.users = u /\ e.edited = d.edited /\ e.step = d.step
      /\ e.uport = d.uport /\ e.iport = d.iport
  BY <1>2, <1>3 DEF Grown
<1> QED
  BY <1>1, <1>4, Zenon

\* The history of edits is written beside.
LEMMA EditedDone ==
  ASSUME NEW d, Full(d), NEW b
  PROVE  LET e == [d EXCEPT !.edited = b]
         IN  /\ Grown(d, e) /\ e.rows = d.rows /\ e.users = d.users /\ e.step = d.step
             /\ e.uport = d.uport /\ e.iport = d.iport /\ e.edited = b
BY DEF Full, Fields, Grown

LEMMA HostDone ==
  ASSUME NEW d, Full(d), NEW p
  PROVE  LET e == S!UpdateHostPort(d, p)
         IN  /\ Grown(d, e) /\ e.rows = d.rows /\ e.users = d.users /\ e.step = d.step
             /\ e.iport = d.iport /\ e.edited = FALSE
             /\ "user_configs" \in d.rows => e.uport = p
<1> DEFINE x == S!Set(d, "user_configs", "uport", p)
           e == [x EXCEPT !.edited = FALSE]
<1>1. e = S!UpdateHostPort(d, p)
  BY DEF S!UpdateHostPort
<1>2. /\ Grown(d, x) /\ x.rows = d.rows /\ x.users = d.users /\ x.step = d.step
      /\ x.iport = d.iport /\ ("user_configs" \in d.rows => x.uport = p)
  BY SetDone, SetUportDone
<1> HIDE DEF x
<1>3. Full(x)
  BY <1>2 DEF Grown
<1>4. /\ Grown(x, e) /\ e.rows = x.rows /\ e.users = x.users /\ e.step = x.step
      /\ e.uport = x.uport /\ e.iport = x.iport /\ e.edited = FALSE
  BY <1>3, EditedDone
<1> HIDE DEF e
<1>5. Grown(d, e)
  BY <1>2, <1>4 DEF Grown
<1> QED
  BY <1>1, <1>2, <1>4, <1>5

\* An edit of a port, and what it leaves.
EditsOnly(d, e) ==
  e.rows = d.rows /\ e.users = d.users /\ e.step = d.step /\ e.edited = TRUE

LEMMA EditDone ==
  ASSUME NEW d, NEW p, NEW e, Full(d),
         \/ e = [S!Set(d, "user_configs", "uport", p) EXCEPT !.edited = TRUE]
         \/ e = [S!Set(d, "interfaces", "iport", p) EXCEPT !.edited = TRUE]
  PROVE  Grown(d, e) /\ EditsOnly(d, e)
<1>1. PICK x : /\ Grown(d, x) /\ x.rows = d.rows /\ x.users = d.users /\ x.step = d.step
               /\ e = [x EXCEPT !.edited = TRUE]
  <2>1. CASE e = [S!Set(d, "user_configs", "uport", p) EXCEPT !.edited = TRUE]
    <3> DEFINE x == S!Set(d, "user_configs", "uport", p)
    <3>g. Grown(d, x)
      BY SetDone
    <3>1. Grown(d, x) /\ x.rows = d.rows /\ x.users = d.users /\ x.step = d.step
      BY <3>g, SetUportDone
    <3>2. e = [x EXCEPT !.edited = TRUE]
      BY <2>1
    <3> HIDE DEF x
    <3> QED
      BY <3>1, <3>2
  <2>2. CASE e = [S!Set(d, "interfaces", "iport", p) EXCEPT !.edited = TRUE]
    <3> DEFINE x == S!Set(d, "interfaces", "iport", p)
    <3>g. Grown(d, x)
      BY SetDone
    <3>1. Grown(d, x) /\ x.rows = d.rows /\ x.users = d.users /\ x.step = d.step
      BY <3>g, SetIportDone
    <3>2. e = [x EXCEPT !.edited = TRUE]
      BY <2>2
    <3> HIDE DEF x
    <3> QED
      BY <3>1, <3>2
  <2> QED
    BY <2>1, <2>2
<1>2. Full(x)
  BY <1>1 DEF Grown
<1>3. Grown(x, e) /\ e.rows = x.rows /\ e.users = x.users /\ e.step = x.step /\ e.edited = TRUE
  BY <1>1, <1>2, EditedDone
<1>4. Grown(d, e)
  BY <1>1, <1>3 DEF Grown
<1> QED
  BY <1>1, <1>3, <1>4 DEF EditsOnly

\* The files of older releases.
LEMMA OldSound ==
  /\ Full(S!NoData) /\ Sound(S!NoData)
  /\ \A d \in S!OldFiles : Full(d) /\ Sound(d)
<1>1. Full(S!NoData) /\ Sound(S!NoData)
  BY DEF S!NoData, Sound, Full, Fields, Agrees
<1>2. ASSUME NEW m \in Predates, NEW k, NEW setup PROVE
      Full(S!OldFile(m, k, setup)) /\ Sound(S!OldFile(m, k, setup))
  <2> DEFINE tables == S!Tables \ UNION {S!Later[g] : g \in m}
             cols == {c \in {S!Migrations[i] : i \in 1 .. k} : c[1] \in tables}
             rows == S!Singletons \cap tables
             d == S!OldFile(m, k, setup)
             p == IF setup = "edited" THEN CHOOSE q \in Edits : TRUE ELSE 0
  <2> HIDE DEF tables, cols, rows, p
  <2>1. d = [kind |-> "db", tables |-> tables, cols |-> cols, rows |-> rows, legacy |-> (k = 0),
             users |-> IF setup = "fresh" THEN 0 ELSE 1, step |-> IF setup = "fresh" THEN 1 ELSE 0,
             uport |-> 0, iport |-> p, edited |-> (setup = "edited"), ver |-> 0]
    BY Zenon DEF S!OldFile, tables, cols, rows, p
  <2>2. "general" \in rows
    <3>1. \A g \in m : "general" \notin S!Later[g]
      <4> TAKE g \in m
      <4>1. g \in DOMAIN S!Later
        BY ReleasesAssumption
      <4>2. g \in {"proxy", "mtproxy", "mdnsvpn", "xray", "dns"}
        BY <4>1 DEF S!Later
      <4> QED
        BY <4>2 DEF S!Later
    <3>2. "general" \in S!Tables
      <4>1. 6 \in DOMAIN S!BaseTables /\ S!BaseTables[6] = "general"
        BY DEF S!BaseTables
      <4> QED
        BY <4>1 DEF S!Tables, S!ToSet
    <3> QED
      BY <3>1, <3>2 DEF rows, tables, S!Singletons
  <2>3. setup # "edited" => p = 0
    BY DEF p
  <2> HIDE DEF d
  <2>4. Full(d)
    BY <2>1 DEF Full, Fields
  <2>5. Sound(d)
    BY <2>1, <2>2, <2>3 DEF Sound, Agrees
  <2> QED
    BY <2>4, <2>5 DEF d
<1> QED
  BY <1>1, <1>2 DEF S!OldFiles

-----------------------------------------------------------------------------
(***************************************************************************)
(* The program of boot: which statements it has.                           *)
(***************************************************************************)
\* A statement that inserts, inserts into a table of a later release.
Statement ==
  {st \in [do : {"create", "alter", "hooks", "insert", "decide", "seed"},
           on : S!Tables \union S!ToSet(S!Migrations)] :
     st.do = "insert" => st.on \in {"xray_inbound", "dns_bundle", "mtproxy_inbound", "mdnsvpn_inbound"}}

Has(s, x) == \E i \in 1 .. Len(s) : s[i] = x

LEMMA HasConcat ==
  ASSUME NEW T, NEW s \in Seq(T), NEW t \in Seq(T)
  PROVE  /\ s \o t \in Seq(T)
         /\ \A x : Has(s, x) \/ Has(t, x) => Has(s \o t, x)
<1>1. s \o t \in Seq(T) /\ Len(s \o t) = Len(s) + Len(t)
  OBVIOUS
<1>2. ASSUME NEW x, Has(s, x) PROVE Has(s \o t, x)
  <2>1. PICK i \in 1 .. Len(s) : s[i] = x
    BY <1>2 DEF Has
  <2>2. i \in 1 .. Len(s \o t) /\ (s \o t)[i] = x
    BY <1>1, <2>1
  <2> QED
    BY <2>2 DEF Has
<1>3. ASSUME NEW x, Has(t, x) PROVE Has(s \o t, x)
  <2>1. PICK i \in 1 .. Len(t) : t[i] = x
    BY <1>3 DEF Has
  <2>2. i + Len(s) \in 1 .. Len(s \o t) /\ (s \o t)[i + Len(s)] = x
    BY <1>1, <2>1
  <2> QED
    BY <2>2 DEF Has
<1> QED
  BY <1>1, <1>2, <1>3

LEMMA StatementsOf ==
  ASSUME NEW do, NEW A, NEW seq \in Seq(A), \A a \in A : [do |-> do, on |-> a] \in Statement
  PROVE  /\ S!Statements(do, seq) \in Seq(Statement)
         /\ \A a \in S!ToSet(seq) : Has(S!Statements(do, seq), [do |-> do, on |-> a])
<1> DEFINE s == S!Statements(do, seq)
<1>1. s = [i \in 1 .. Len(seq) |-> [do |-> do, on |-> seq[i]]]
  BY DEF S!Statements
<1>2. \A i \in 1 .. Len(seq) : seq[i] \in A
  OBVIOUS
<1>3. \A i \in 1 .. Len(seq) : [do |-> do, on |-> seq[i]] \in Statement
  BY <1>2
<1>4. Len(seq) \in Nat /\ DOMAIN seq = 1 .. Len(seq)
  OBVIOUS
<1>5. s \in [1 .. Len(seq) -> Statement]
  BY <1>1, <1>3
<1>6. s \in Seq(Statement) /\ Len(s) = Len(seq)
  BY <1>4, <1>5
<1>7. ASSUME NEW a \in S!ToSet(seq) PROVE Has(s, [do |-> do, on |-> a])
  <2>1. PICK i \in 1 .. Len(seq) : seq[i] = a
    BY <1>4 DEF S!ToSet
  <2>2. i \in 1 .. Len(s) /\ s[i] = [do |-> do, on |-> a]
    BY <1>1, <1>6, <2>1
  <2> QED
    BY <2>2 DEF Has
<1> QED
  BY <1>6, <1>7

\* The lists of the source are sequences of tables and columns.
LEMMA Lists ==
  /\ S!BaseTables \in Seq(S!Tables) /\ S!ServiceTables \in Seq(S!Tables)
  /\ S!Seeds \in Seq(S!Tables)
  /\ S!Migrations \in Seq(S!ToSet(S!Migrations))
  /\ S!Backfilled \in Seq({"xray_inbound", "dns_bundle", "mtproxy_inbound", "mdnsvpn_inbound"})
  /\ S!ToSet(S!Backfilled) = {"xray_inbound", "dns_bundle", "mtproxy_inbound", "mdnsvpn_inbound"}
  /\ S!ToSet(S!Backfilled) \subseteq S!Tables
  /\ {"hooks", "general"} \subseteq S!Tables
<1>0. ASSUME NEW s, NEW n \in Nat, s = [i \in 1 .. n |-> s[i]], NEW A, S!ToSet(s) \subseteq A
      PROVE  s \in Seq(A)
  <2>1. \A i \in 1 .. n : s[i] \in A
    BY <1>0 DEF S!ToSet
  <2>2. s \in [1 .. n -> A]
    BY <1>0, <2>1
  <2> QED
    BY <2>2
<1>1. S!BaseTables \in Seq(S!Tables)
  <2>1. S!BaseTables = [i \in 1 .. 7 |-> S!BaseTables[i]]
    BY DEF S!BaseTables
  <2> QED
    BY <2>1, <1>0 DEF S!Tables
<1>2. S!ServiceTables \in Seq(S!Tables)
  <2>1. S!ServiceTables = [i \in 1 .. 8 |-> S!ServiceTables[i]]
    BY DEF S!ServiceTables
  <2> QED
    BY <2>1, <1>0 DEF S!Tables
<1>3. S!Migrations \in Seq(S!ToSet(S!Migrations))
  <2>1. S!Migrations = [i \in 1 .. 12 |-> S!Migrations[i]]
    BY DEF S!Migrations
  <2> QED
    BY <2>1, <1>0
<1>4. S!ToSet(S!BaseTables) = {"interfaces", "clients", "users", "user_configs", "hooks", "general",
                               "one_time_links"}
  BY DEF S!ToSet, S!BaseTables
<1>5. S!ToSet(S!ServiceTables) =
        {"dns_bundle", "xray_inbound", "xray_clients", "proxy_settings", "mtproxy_inbound",
         "mtproxy_users", "mdnsvpn_inbound", "mdnsvpn_clients"}
  BY DEF S!ToSet, S!ServiceTables
<1>6. S!Seeds \in Seq(S!Tables)
  <2>1. S!Seeds = [i \in 1 .. 8 |-> S!Seeds[i]]
    BY DEF S!Seeds
  <2>2. S!ToSet(S!Seeds) \subseteq
          {"interfaces", "general", "hooks", "user_configs", "xray_inbound", "proxy_settings",
           "mtproxy_inbound", "mdnsvpn_inbound"}
    BY DEF S!ToSet, S!Seeds
  <2>3. S!ToSet(S!Seeds) \subseteq S!Tables
    BY <1>4, <1>5, <2>2 DEF S!Tables
  <2> QED
    BY <2>1, <2>3, <1>0
<1>7. S!ToSet(S!Backfilled) = {"xray_inbound", "dns_bundle", "mtproxy_inbound", "mdnsvpn_inbound"}
  BY DEF S!ToSet, S!Backfilled
<1>8. S!Backfilled \in Seq({"xray_inbound", "dns_bundle", "mtproxy_inbound", "mdnsvpn_inbound"})
  <2>1. S!Backfilled = [i \in 1 .. 4 |-> S!Backfilled[i]]
    BY DEF S!Backfilled
  <2> QED
    BY <2>1, <1>7, <1>0
<1> QED
  BY <1>1, <1>2, <1>3, <1>4, <1>5, <1>6, <1>7, <1>8 DEF S!Tables

\* Every table is created, every column added, every later table given its row.
LEMMA ProgramHas ==
  /\ S!Program \in Seq(Statement)
  /\ \A t \in S!Tables : Has(S!Program, [do |-> "create", on |-> t])
  /\ \A c \in S!ToSet(S!Migrations) : Has(S!Program, [do |-> "alter", on |-> c])
  /\ Has(S!Program, [do |-> "hooks", on |-> "hooks"])
  /\ \A t \in S!ToSet(S!Backfilled) : Has(S!Program, [do |-> "insert", on |-> t])
<1> DEFINE a == S!Statements("create", S!BaseTables)
           b == S!Statements("create", S!ServiceTables)
           c == S!Statements("alter", S!Migrations)
           d == <<[do |-> "hooks", on |-> "hooks"]>>
           e == S!Statements("insert", S!Backfilled)
           f == <<[do |-> "decide", on |-> "general"]>>
           g == S!Statements("seed", S!Seeds)
<1>1. /\ a \in Seq(Statement)
      /\ \A t \in S!ToSet(S!BaseTables) : Has(a, [do |-> "create", on |-> t])
  <2>1. \A x \in S!Tables : [do |-> "create", on |-> x] \in Statement
    BY DEF Statement
  <2> QED
    BY <2>1, Lists, StatementsOf
<1>2. /\ b \in Seq(Statement)
      /\ \A t \in S!ToSet(S!ServiceTables) : Has(b, [do |-> "create", on |-> t])
  <2>1. \A x \in S!Tables : [do |-> "create", on |-> x] \in Statement
    BY DEF Statement
  <2> QED
    BY <2>1, Lists, StatementsOf
<1>3. /\ c \in Seq(Statement)
      /\ \A t \in S!ToSet(S!Migrations) : Has(c, [do |-> "alter", on |-> t])
  <2>1. \A x \in S!ToSet(S!Migrations) : [do |-> "alter", on |-> x] \in Statement
    BY DEF Statement
  <2> QED
    BY <2>1, Lists, StatementsOf
<1>4. d \in Seq(Statement) /\ Has(d, [do |-> "hooks", on |-> "hooks"])
  <2>1. [do |-> "hooks", on |-> "hooks"] \in Statement
    BY Lists DEF Statement
  <2> QED
    BY <2>1 DEF Has
<1>5. /\ e \in Seq(Statement)
      /\ \A t \in S!ToSet(S!Backfilled) : Has(e, [do |-> "insert", on |-> t])
  <2>1. \A x \in S!ToSet(S!Backfilled) : [do |-> "insert", on |-> x] \in Statement
    BY Lists DEF Statement
  <2> QED
    BY <2>1, Lists, StatementsOf
<1>6. f \in Seq(Statement)
  <2>1. [do |-> "decide", on |-> "general"] \in Statement
    BY Lists DEF Statement
  <2> QED
    BY <2>1
<1>7. g \in Seq(Statement)
  <2>1. \A x \in S!Tables : [do |-> "seed", on |-> x] \in Statement
    BY DEF Statement
  <2> QED
    BY <2>1, Lists, StatementsOf
<1>8. S!Program = a \o b \o c \o d \o e \o f \o g
  BY DEF S!Program
<1> HIDE DEF a, b, c, d, e, f, g
<1>9. a \o b \in Seq(Statement) /\ \A x : Has(a, x) \/ Has(b, x) => Has(a \o b, x)
  BY <1>1, <1>2, HasConcat
<1>10. /\ a \o b \o c \in Seq(Statement)
       /\ \A x : Has(a \o b, x) \/ Has(c, x) => Has(a \o b \o c, x)
  BY <1>9, <1>3, HasConcat
<1>11. /\ a \o b \o c \o d \in Seq(Statement)
       /\ \A x : Has(a \o b \o c, x) \/ Has(d, x) => Has(a \o b \o c \o d, x)
  BY <1>10, <1>4, HasConcat
<1>12. /\ a \o b \o c \o d \o e \in Seq(Statement)
       /\ \A x : Has(a \o b \o c \o d, x) \/ Has(e, x) => Has(a \o b \o c \o d \o e, x)
  BY <1>11, <1>5, HasConcat
<1>13. /\ a \o b \o c \o d \o e \o f \in Seq(Statement)
       /\ \A x : Has(a \o b \o c \o d \o e, x) \/ Has(f, x) => Has(a \o b \o c \o d \o e \o f, x)
  BY <1>12, <1>6, HasConcat
<1>14. /\ S!Program \in Seq(Statement)
       /\ \A x : Has(a \o b \o c \o d \o e \o f, x) \/ Has(g, x) => Has(S!Program, x)
  BY <1>13, <1>7, <1>8, HasConcat
<1>15. \A x : \/ Has(a, x) \/ Has(b, x) \/ Has(c, x) \/ Has(d, x) \/ Has(e, x)
              => Has(S!Program, x)
  BY <1>9, <1>10, <1>11, <1>12, <1>13, <1>14, Zenon
<1> QED
  BY <1>1, <1>2, <1>3, <1>4, <1>5, <1>14, <1>15 DEF S!Tables

\* The columns that reads and writes name are among the migrations.
LEMMA ColumnsMigrated == S!RequiredToRead \cup S!RequiredToWrite \subseteq S!ToSet(S!Migrations)
<1>1. /\ 1 \in DOMAIN S!Migrations /\ S!Migrations[1] = <<"clients", "advanced_security">>
      /\ 2 \in DOMAIN S!Migrations /\ S!Migrations[2] = <<"users", "totp_last_step">>
      /\ 3 \in DOMAIN S!Migrations /\ S!Migrations[3] = <<"interfaces", "additional_config">>
      /\ 4 \in DOMAIN S!Migrations /\ S!Migrations[4] = <<"clients", "additional_config">>
  BY DEF S!Migrations
<1>2. /\ 5 \in DOMAIN S!Migrations /\ S!Migrations[5] = <<"user_configs", "default_additional_config">>
      /\ 6 \in DOMAIN S!Migrations /\ S!Migrations[6] = <<"interfaces", "dns_lockdown">>
      /\ 7 \in DOMAIN S!Migrations /\ S!Migrations[7] = <<"interfaces", "dns_lockdown_target">>
      /\ 8 \in DOMAIN S!Migrations /\ S!Migrations[8] = <<"interfaces", "dns_block_external">>
  BY DEF S!Migrations
<1>3. /\ 9 \in DOMAIN S!Migrations /\ S!Migrations[9] = <<"xray_inbound", "transport">>
      /\ 10 \in DOMAIN S!Migrations /\ S!Migrations[10] = <<"xray_inbound", "xhttp_path">>
      /\ 11 \in DOMAIN S!Migrations /\ S!Migrations[11] = <<"proxy_settings", "max_sessions">>
      /\ 12 \in DOMAIN S!Migrations /\ S!Migrations[12] = <<"proxy_settings", "session_ttl">>
  BY DEF S!Migrations
<1>4. \A i \in DOMAIN S!Migrations : S!Migrations[i] \in S!ToSet(S!Migrations)
  BY DEF S!ToSet
<1>5. {<<"clients", "advanced_security">>, <<"users", "totp_last_step">>,
       <<"interfaces", "additional_config">>, <<"clients", "additional_config">>,
       <<"user_configs", "default_additional_config">>, <<"interfaces", "dns_lockdown">>,
       <<"interfaces", "dns_lockdown_target">>, <<"interfaces", "dns_block_external">>,
       <<"xray_inbound", "transport">>, <<"xray_inbound", "xhttp_path">>,
       <<"proxy_settings", "max_sessions">>, <<"proxy_settings", "session_ttl">>}
        \subseteq S!ToSet(S!Migrations)
  BY <1>1, <1>2, <1>3, <1>4, Zenon
<1> QED
  BY <1>5 DEF S!RequiredToRead, S!RequiredToWrite

-----------------------------------------------------------------------------
(***************************************************************************)
(* UpgradeComplete: every statement of boot leaves behind what it is for,  *)
(* whatever it finds, and no later write takes it away; a boot that gets   *)
(* to its end has run them all, whichever file it started from and however *)
(* often it was killed before.                                             *)
(***************************************************************************)
\* Steps other than opening and losing the memory keep the schema.
LEMMA GrownStep ==
  ASSUME Full(opened), S!Next PROVE Grown(opened, opened') \/ S!Open \/ S!Gone \/ S!Crash
<1>1. ASSUME opened' = opened PROVE Grown(opened, opened')
  BY <1>1 DEF Grown
<1>2. CASE S!Boot
  <2>1. opened' = S!Effect(S!Program[boot.pc], opened)
    BY <1>2 DEF S!Boot, S!Commit
  <2> QED
    BY <2>1, EffectDone
<1>3. CASE S!InitUser
  <2>1. opened' = [opened EXCEPT !.users = 1, !.ver = @ + 1]
    BY <1>3 DEF S!InitUser, S!InitSetup, S!Commit
  <2> QED
    BY <2>1, UserDone
<1>4. CASE S!InitLists \/ S!Write
  <2>1. opened' = [opened EXCEPT !.ver = @ + 1]
    BY <1>4 DEF S!InitLists, S!Write, S!OtherWrite, S!InitSetup, S!Commit
  <2> QED
    BY <2>1, Counted1
<1>5. CASE S!InitIface \/ S!InitDone
  <2>1. PICK f \in {"step", "uport", "iport"} : \E t, v : opened' = S!Set(opened, t, f, v)
    BY <1>5 DEF S!InitIface, S!InitDone, S!InitSetup, S!Commit
  <2>2. PICK t, v : opened' = S!Set(opened, t, f, v)
    BY <2>1
  <2> QED
    BY <2>2, SetDone
<1>6. ASSUME NEW r \in Reqs, S!Wizard(r) PROVE Grown(opened, opened')
  <2>1. CASE S!Setup2(r) \/ S!Setup4(r)
    BY <1>1, <2>1 DEF S!Setup2, S!Setup4, S!Ask
  <2>2. CASE S!CreateUser(r)
    <3>1. opened' = [opened EXCEPT !.users = @ + 1, !.ver = @ + 1]
      BY <2>2 DEF S!CreateUser, S!Handle, S!Commit
    <3>2. opened' = [opened EXCEPT !.users = opened.users + 1, !.ver = @ + 1]
      BY <3>1
    <3> QED
      BY <3>2, UserDone
  <2>3. CASE S!Advance(r) \/ S!SetIface(r) \/ S!Complete(r)
    <3>1. PICK f \in {"step", "uport", "iport"} : \E t, v : opened' = S!Set(opened, t, f, v)
      BY <2>3 DEF S!Advance, S!SetIface, S!Complete, S!Handle, S!Commit
    <3>2. PICK t, v : opened' = S!Set(opened, t, f, v)
      BY <3>1
    <3> QED
      BY <3>2, SetDone
  <2>4. CASE S!SetHost(r)
    BY <2>4, HostDone DEF S!SetHost, S!Handle, S!Commit
  <2> QED
    BY <1>6, <2>1, <2>2, <2>3, <2>4 DEF S!Wizard
<1>8. CASE S!InitHost
  BY <1>8, HostDone DEF S!InitHost, S!InitSetup, S!Commit
<1>9. ASSUME NEW p \in Edits, S!EditPort(p) PROVE Grown(opened, opened')
  BY <1>9, EditDone DEF S!EditPort, S!OtherWrite, S!Commit
<1>7. CASE S!Opened \/ S!Serve \/ S!Tick \/ S!Copy \/ S!Promote \/ S!PromoteFails \/ S!Stop
           \/ S!Drained \/ S!FinalCopy \/ S!FinalPromote
  BY <1>1, <1>7 DEF S!Opened, S!Serve, S!Tick, S!Copy, S!Promote, S!PromoteFails, S!Stop,
                    S!Drained, S!FinalCopy, S!FinalPromote
<1> QED
  BY <1>2, <1>3, <1>4, <1>5, <1>6, <1>7, <1>8, <1>9 DEF S!Next

\* What was done stays done.
LEMMA DoneStays == \A st, d, e : Done(st, d) /\ Grown(d, e) => Done(st, e)
BY DEF Done, Grown

\* Every database keeps its columns.
LEMMA FullStep ==
  ASSUME \A d \in Held : Full(d), [S!Next]_(S!vars) PROVE (\A d \in Held : Full(d))'
<1>1. CASE UNCHANGED S!vars
  BY <1>1 DEF S!vars, Held
<1>2. CASE S!Next
  <2>1. opened \in Held
    BY DEF Held
  <2>2. Full(S!NoData)
    BY OldSound DEF Sound
  <2>3. Full(opened')
    <3>1. CASE S!Open
      BY <2>2, <3>1, OpensHeld
    <3>2. CASE S!Gone \/ S!Crash
      BY <2>2, <3>2 DEF S!Gone, S!Crash
    <3>3. CASE Grown(opened, opened')
      BY <3>3 DEF Grown
    <3> QED
      BY <1>2, <2>1, <3>1, <3>2, <3>3, GrownStep
  <2>4. Held' \subseteq Held \union {opened', S!NoData}
    BY <1>2, Copies
  <2> QED
    BY <2>2, <2>3, <2>4
<1> QED
  BY <1>1, <1>2

LEMMA UpgradeStep == UpgradeInv /\ [S!Next]_(S!vars) => UpgradeInv'
<1> SUFFICES ASSUME UpgradeInv, [S!Next]_(S!vars) PROVE UpgradeInv'
  OBVIOUS
<1> DEFINE N == Len(S!Program)
           Through(d, n) == \A i \in 1 .. N : i < n => Done(S!Program[i], d)
           All(d) == \A i \in 1 .. N : Done(S!Program[i], d)
           After == {"init", "serving", "draining", "final"}
<1>0. N \in Nat
  BY ProgramHas
<1>1. (\A d \in Held : Full(d))' /\ {"pc", "restored", "seeding", "step"} \subseteq DOMAIN boot'
  <2>1. {"pc", "restored", "seeding", "step"} \subseteq DOMAIN boot'
    <3>1. \/ boot' = boot
          \/ S!Open \/ S!Boot
          \/ \E now, next, d : S!InitSetup(now, next, d)
      BY DEF S!vars, S!Next, S!Opened, S!InitUser, S!InitHost, S!InitIface, S!InitLists,
             S!InitDone, S!Serve, S!Wizard, S!Setup2, S!CreateUser, S!Advance, S!Setup4,
             S!SetHost, S!SetIface, S!Complete, S!Ask, S!Handle, S!Write, S!OtherWrite, S!EditPort,
             S!Tick, S!Copy,
             S!Promote, S!PromoteFails, S!Stop, S!Drained, S!FinalCopy, S!FinalPromote, S!Gone,
             S!Crash
    <3> QED
      BY <3>1 DEF S!Open, S!Boot, S!InitSetup, UpgradeInv
  <2> QED
    BY <2>1, FullStep DEF UpgradeInv
<1>2. Full(opened)
  BY DEF UpgradeInv, Held
<1>3. /\ phase = "boot" => boot.pc \in Nat \ {0} /\ Through(opened, boot.pc)
      /\ phase \in After => All(opened)
  BY DEF UpgradeInv
<1> SUFFICES /\ phase' = "boot" => boot'.pc \in Nat \ {0} /\ Through(opened', boot'.pc)
             /\ phase' \in After => All(opened')
  BY <1>1 DEF UpgradeInv
<1>4. CASE UNCHANGED S!vars \/ S!Copy \/ S!Promote \/ S!PromoteFails \/ S!FinalCopy \/ S!FinalPromote
  <2>1. UNCHANGED <<opened, boot>> /\ phase' \in {phase, "exited"}
    BY <1>4 DEF S!vars, S!Copy, S!Promote, S!PromoteFails, S!FinalCopy, S!FinalPromote
  <2> QED
    BY <1>3, <2>1
<1>5. CASE S!Open
  <2>1. phase' = "boot" /\ boot'.pc = 1
    BY <1>5 DEF S!Open
  <2> QED
    BY <1>0, <2>1
<1>6. CASE S!Gone \/ S!Crash
  BY <1>6 DEF S!Gone, S!Crash
<1>7. CASE S!Boot
  <2>1. /\ phase = "boot" /\ phase' = "boot" /\ boot.pc <= N
        /\ opened' = S!Effect(S!Program[boot.pc], opened)
        /\ boot'.pc = boot.pc + 1
    BY <1>7 DEF S!Boot, S!Commit, UpgradeInv
  <2>2. Grown(opened, opened') /\ Done(S!Program[boot.pc], opened')
    BY <1>2, <2>1, EffectDone
  <2>4. Through(opened', boot.pc + 1)
    <3> SUFFICES ASSUME NEW i \in 1 .. N, i < boot.pc + 1 PROVE Done(S!Program[i], opened')
      OBVIOUS
    <3>1. CASE i = boot.pc
      BY <2>2, <3>1
    <3>2. CASE i < boot.pc
      BY <1>3, <2>1, <2>2, <3>2, DoneStays
    <3> QED
      BY <1>0, <1>3, <2>1, <3>1, <3>2
  <2> QED
    BY <1>3, <2>1, <2>4
<1>8. CASE S!Opened
  <2>1. phase = "boot" /\ phase' = "init" /\ boot.pc > N /\ opened' = opened
    BY <1>8 DEF S!Opened
  <2>2. All(opened)
    BY <1>0, <1>3, <2>1
  <2> QED
    BY <2>1, <2>2
<1>9. CASE /\ S!Next
           /\ ~(S!Open \/ S!Gone \/ S!Crash \/ S!Boot \/ S!Opened)
           /\ ~(S!Copy \/ S!Promote \/ S!PromoteFails \/ S!FinalCopy \/ S!FinalPromote)
  <2>1. Grown(opened, opened')
    BY <1>2, <1>9, GrownStep
  <2>2. phase' # "boot" /\ (phase' \in After => phase \in After)
    <3>1. CASE S!InitUser \/ S!InitHost \/ S!InitIface \/ S!InitLists \/ S!InitDone \/ S!Serve
      BY <3>1 DEF S!InitUser, S!InitHost, S!InitIface, S!InitLists, S!InitDone, S!InitSetup,
                  S!Serve
    <3>2. ASSUME NEW r \in Reqs, S!Wizard(r) PROVE phase \in After /\ phase' = phase
      BY <3>2 DEF S!Wizard, S!Setup2, S!CreateUser, S!Advance, S!Setup4, S!SetHost, S!SetIface,
                  S!Complete, S!Ask, S!Handle
    <3>3. CASE S!Write \/ S!Tick \/ S!Stop \/ S!Drained
      BY <3>3 DEF S!Write, S!OtherWrite, S!Tick, S!Stop, S!Drained, S!Running
    <3>4. ASSUME NEW p \in Edits, S!EditPort(p) PROVE phase \in After /\ phase' = phase
      BY <3>4 DEF S!EditPort, S!OtherWrite
    <3> QED
      BY <1>9, <3>1, <3>2, <3>3, <3>4 DEF S!Next
  <2> QED
    BY <1>3, <2>1, <2>2, DoneStays
<1> QED
  BY <1>4, <1>5, <1>6, <1>7, <1>8, <1>9

LEMMA UpgradeInit == S!Init => UpgradeInv
<1> SUFFICES ASSUME S!Init PROVE UpgradeInv
  OBVIOUS
<1>1. Held \subseteq S!OldFiles \union {S!NoData}
  BY DEF S!Init, Held, S!NoFile, S!Corrupt, S!NoImage
<1> QED
  BY <1>1, OldSound DEF UpgradeInv, S!Init, Sound

\* A boot that has run everything has upgraded everything.
LEMMA Upgraded == UpgradeInv => UpgradeComplete
<1> SUFFICES ASSUME UpgradeInv, S!Running PROVE
      /\ S!Tables \subseteq opened.tables
      /\ S!RequiredToRead \cup S!RequiredToWrite \subseteq opened.cols
      /\ {"xray_inbound", "dns_bundle", "mtproxy_inbound", "mdnsvpn_inbound"} \subseteq opened.rows
      /\ ~opened.legacy
  BY DEF UpgradeComplete, S!UpgradeComplete
<1>1. \A x : Has(S!Program, x) => Done(x, opened)
  BY DEF UpgradeInv, S!Running, Has
<1>2. S!Tables \subseteq opened.tables
  <2> SUFFICES ASSUME NEW t \in S!Tables PROVE t \in opened.tables
    OBVIOUS
  <2>1. Done([do |-> "create", on |-> t], opened)
    BY <1>1, ProgramHas
  <2> QED
    BY <2>1 DEF Done
<1>3. S!ToSet(S!Migrations) \subseteq opened.cols
  <2> SUFFICES ASSUME NEW c \in S!ToSet(S!Migrations) PROVE c \in opened.cols
    OBVIOUS
  <2>1. Done([do |-> "alter", on |-> c], opened)
    BY <1>1, ProgramHas
  <2> QED
    BY <2>1 DEF Done
<1>4. S!ToSet(S!Backfilled) \subseteq opened.rows
  <2> SUFFICES ASSUME NEW t \in S!ToSet(S!Backfilled) PROVE t \in opened.rows
    OBVIOUS
  <2>1. Done([do |-> "insert", on |-> t], opened)
    BY <1>1, ProgramHas
  <2> QED
    BY <2>1 DEF Done
<1>5. ~opened.legacy
  <2>1. Done([do |-> "hooks", on |-> "hooks"], opened)
    BY <1>1, ProgramHas
  <2> QED
    BY <2>1 DEF Done
<1> QED
  BY <1>2, <1>3, <1>4, <1>5, ColumnsMigrated, Lists

(***************************************************************************)
(* An upgrade is complete (create_tables, apply_migrations,                *)
(* ensure_singleton_rows): whatever older release left the file, with       *)
(* whatever services missing and migrations applied, and wherever earlier   *)
(* boots of this one were killed, a server that answers has every table,     *)
(* every column its reads and writes name, a row in each service table of a *)
(* later release, and no iptables hook.                                     *)
(***************************************************************************)
THEOREM UpgradeCompleteEver == PartsSpec => []UpgradeComplete
<1>1. PartsInit => UpgradeInv
  BY UpgradeInit DEF PartsInit
<1>2. UpgradeInv /\ [PartsNext]_<<part, storeVars, linkVars, vars>> => UpgradeInv'
  <2> SUFFICES ASSUME UpgradeInv, [PartsNext]_<<part, storeVars, linkVars, vars>> PROVE UpgradeInv'
    OBVIOUS
  <2>1. [S!Next]_(S!vars)
    BY DEF PartsNext, storeVars, S!vars
  <2> QED
    BY <2>1, UpgradeStep
<1>3. UpgradeInv => UpgradeComplete
  BY Upgraded
<1> QED
  BY <1>1, <1>2, <1>3, PTL DEF PartsSpec

-----------------------------------------------------------------------------
OneAtATime == \A q, r \in Reqs : q = r

\* When no request is at work nothing is owed to one.
LEMMA IdleWizards ==
  req = [r \in Reqs |-> req[r]] /\ (\A r \in Reqs : req[r] = S!Idle) => Wizards
BY DEF Wizards, S!Idle

LEMMA AllIdle ==
  Wizards /\ phase \notin {"serving", "draining"}
    => req = [r \in Reqs |-> req[r]] /\ \A r \in Reqs : req[r] = S!Idle
BY DEF Wizards

\* A write of something else leaves the setup data sound.
LEMMA SameSound ==
  ASSUME NEW d, NEW e, Sound(d), SameSetup(d, e), e.rows = d.rows
  PROVE  Sound(e) /\ \A p : (Told(d, p) <=> Told(e, p)) /\ (Listens(d, p) <=> Listens(e, p))
BY DEF Sound, SameSetup, Agrees, Told, Listens

\* What is to be shown of a step: that the open database is sound.
LEMMA SoundCopies ==
  ASSUME UpgradeInv, SetupInv, S!Next, Sound(opened') PROVE (\A d \in Held : Sound(d))'
<1>1. Held' \subseteq Held \union {opened', S!NoData}
  BY Copies
<1> QED
  BY <1>1, OldSound DEF SetupInv

LEMMA SetupOpens == ASSUME UpgradeInv, SetupInv, S!Open PROVE SetupInv'
<1>1. /\ phase = "down" /\ phase' = "boot" /\ UNCHANGED <<req, final>>
      /\ boot'.step = "user" /\ ~boot'.seeding
  BY DEF S!Open
<1>2. Sound(opened')
  BY OpensHeld, OldSound DEF SetupInv
<1>3. Wizards'
  BY <1>1, AllIdle DEF SetupInv, Wizards, S!Idle
<1>4. (\A d \in Held : Sound(d))'
  BY <1>2, SoundCopies DEF S!Next
<1> QED
  BY <1>1, <1>3, <1>4 DEF SetupInv, Booting, InitList, Ended

LEMMA SetupDown == ASSUME UpgradeInv, SetupInv, S!Gone \/ S!Crash PROVE SetupInv'
<1>1. opened' = S!NoData /\ phase' = "down" /\ final' = S!NoImage
  BY DEF S!Gone, S!Crash
<1>2. req' = [r \in Reqs |-> req'[r]] /\ \A r \in Reqs : req'[r] = S!Idle
  <2>1. CASE S!Gone
    BY <2>1, AllIdle DEF S!Gone, SetupInv
  <2>2. CASE S!Crash
    BY <2>2 DEF S!Crash
  <2> QED
    BY <2>1, <2>2
<1>3. Wizards'
  BY <1>1, <1>2 DEF Wizards, S!Idle
<1>4. (\A d \in Held : Sound(d))'
  BY <1>1, OldSound, SoundCopies DEF S!Next
<1> QED
  BY <1>1, <1>3, <1>4 DEF SetupInv, Booting, InitList, Ended, S!NoImage

\* Boot adds rows.  The two rows of the ports come with the seeding, which is
\* decided upon only when the wizard's own row is missing: then it is not done.
LEMMA SetupBoots == ASSUME UpgradeInv, SetupInv, S!Boot PROVE SetupInv'
<1> DEFINE st == S!Program[boot.pc]
<1>1. /\ phase = "boot" /\ phase' = "boot" /\ UNCHANGED <<req, final>>
      /\ boot.pc <= Len(S!Program) /\ opened' = S!Effect(st, opened)
  BY DEF S!Boot, S!Commit
<1>2. Full(opened) /\ Sound(opened)
  BY DEF UpgradeInv, SetupInv, Held
<1>3. st \in Statement
  <2>1. boot.pc \in 1 .. Len(S!Program)
    BY <1>1, ProgramHas DEF UpgradeInv
  <2> QED
    BY <2>1, ProgramHas
<1>4. /\ boot'.step = boot.step
      /\ boot'.seeding => boot.seeding \/ (st.do = "decide" /\ "general" \notin opened.rows)
  <2>1. boot'.step = boot.step
    BY DEF S!Boot, UpgradeInv
  <2>2. CASE st.do = "decide"
    <3>1. boot'.seeding = ("general" \notin opened.rows /\ ~boot.restored)
      BY <2>2 DEF S!Boot, UpgradeInv
    <3> QED
      BY <2>1, <2>2, <3>1
  <2>3. CASE st.do # "decide"
    <3>1. boot'.seeding = boot.seeding
      BY <2>3 DEF S!Boot, UpgradeInv
    <3> QED
      BY <2>1, <3>1
  <2> QED
    BY <2>2, <2>3
<1>5. SameSetup(opened, opened')
  BY <1>1, <1>2, EffectDone
<1>6. Sound(opened')
  <2>1. CASE st.do \notin {"insert", "seed"}
    <3>1. opened'.rows = opened.rows
      BY <1>1, <1>2, <2>1, EffectDone
    <3> QED
      BY <1>2, <1>5, <3>1, SameSound
  <2>2. CASE st.do = "insert"
    <3>1. opened'.rows = opened.rows \cup {st.on}
      BY <1>1, <1>2, <2>2, EffectDone
    <3>2. st.on \in {"xray_inbound", "dns_bundle", "mtproxy_inbound", "mdnsvpn_inbound"}
      BY <1>3, <2>2 DEF Statement
    <3> QED
      BY <1>2, <1>5, <3>1, <3>2 DEF Sound, Agrees, SameSetup
  <2>3. CASE st.do = "seed" /\ boot.seeding
    <3>1. opened'.rows = opened.rows \cup {st.on}
      BY <1>1, <1>2, <2>3, EffectDone
    <3>2. opened.step # 0
      BY <1>1, <2>3 DEF SetupInv, Booting
    <3> QED
      BY <1>2, <1>5, <3>1, <3>2 DEF Sound, Agrees, SameSetup
  <2>4. CASE st.do = "seed" /\ ~boot.seeding
    <3>1. opened' = opened
      BY <1>1, <1>2, <2>4, EffectDone
    <3> QED
      BY <1>2, <3>1
  <2> QED
    BY <2>1, <2>2, <2>3, <2>4
<1>7. Booting'
  <2>1. opened'.step = opened.step
    BY <1>5 DEF SameSetup
  <2>2. "general" \notin opened.rows => opened.step # 0
    BY <1>2 DEF Sound
  <2> QED
    BY <1>1, <1>4, <2>1, <2>2 DEF SetupInv, Booting
<1>8. Wizards'
  BY <1>1, AllIdle DEF SetupInv, Wizards, S!Idle
<1>9. (\A d \in Held : Sound(d))'
  BY <1>6, SoundCopies DEF S!Next
<1> QED
  BY <1>1, <1>7, <1>8, <1>9 DEF SetupInv, InitList, Ended

\* Steps that leave the database, the boot and the requests alone.
LEMMA SetupQuiet ==
  ASSUME UpgradeInv, SetupInv,
         \/ S!Opened \/ S!Serve \/ S!Tick \/ S!Copy \/ S!Promote \/ S!PromoteFails \/ S!Stop
         \/ S!Drained \/ S!FinalCopy \/ S!FinalPromote
  PROVE  SetupInv'
<1>1. UNCHANGED <<opened, boot, req>>
  BY DEF S!Opened, S!Serve, S!Tick, S!Copy, S!Promote, S!PromoteFails, S!Stop, S!Drained,
         S!FinalCopy, S!FinalPromote
<1>2. Sound(opened')
  BY <1>1 DEF SetupInv, Held
<1>3. (\A d \in Held : Sound(d))'
  BY <1>2, SoundCopies DEF S!Next
<1>4. Ended' /\ (phase' \in {"init", "boot"} => phase' = phase \/ S!Opened)
  BY DEF S!Opened, S!Serve, S!Tick, S!Copy, S!Promote, S!PromoteFails, S!Stop, S!Drained,
         S!FinalCopy, S!FinalPromote, SetupInv, Ended, S!NoImage, S!Task
<1>5. Wizards'
  <2>1. CASE S!Drained
    BY <1>1, <2>1 DEF S!Drained, SetupInv, Wizards
  <2>2. CASE S!Serve \/ S!Opened \/ S!Stop
    BY <1>1, <2>2 DEF S!Opened, S!Serve, S!Stop, SetupInv, Wizards
  <2>3. CASE S!Tick \/ S!Copy \/ S!Promote \/ S!PromoteFails
    BY <1>1, <2>3 DEF S!Tick, S!Copy, S!Promote, S!PromoteFails, SetupInv, Wizards
  <2>4. CASE S!FinalCopy \/ S!FinalPromote
    BY <1>1, <2>4 DEF S!FinalCopy, S!FinalPromote, SetupInv, Wizards, Ended
  <2> QED
    BY <2>1, <2>2, <2>3, <2>4
<1>6. Booting'
  BY <1>1, <1>4 DEF S!Opened, SetupInv, Booting
<1>7. InitList'
  <2>1. CASE S!Opened
    BY <1>1, <2>1 DEF S!Opened, SetupInv, Booting, InitList
  <2>2. CASE ~S!Opened
    BY <1>1, <1>4, <2>2 DEF SetupInv, InitList
  <2> QED
    BY <2>1, <2>2
<1> QED
  BY <1>3, <1>4, <1>5, <1>6, <1>7 DEF SetupInv

\* The INIT_* setup writes both ports before it closes the wizard.
LEMMA SetupInits ==
  ASSUME UpgradeInv, SetupInv,
         S!InitUser \/ S!InitHost \/ S!InitIface \/ S!InitLists \/ S!InitDone
  PROVE  SetupInv'
<1>1. PICK now \in {"user", "host", "iface", "lists", "done"},
           next \in {"host", "iface", "lists", "done", "end"} :
        /\ phase = "init" /\ boot.step = now /\ boot' = [boot EXCEPT !.step = next]
        /\ now = "user" <=> S!InitUser
        /\ now = "host" <=> S!InitHost
        /\ now = "iface" <=> S!InitIface
        /\ now = "lists" <=> S!InitLists
        /\ now = "done" <=> S!InitDone
        /\ now = "user" => next = "host"
        /\ now = "host" => next = "iface"
        /\ now = "iface" => next = "lists"
        /\ now = "lists" => next = "done"
        /\ now = "done" => next = "end"
  BY DEF S!InitUser, S!InitHost, S!InitIface, S!InitLists, S!InitDone, S!InitSetup
<1>2. phase' = "init" /\ UNCHANGED <<req, final>> /\ boot'.step = next
  BY <1>1 DEF S!InitUser, S!InitHost, S!InitIface, S!InitLists, S!InitDone, S!InitSetup, UpgradeInv
<1>3. Full(opened) /\ Sound(opened)
  BY DEF UpgradeInv, SetupInv, Held
<1>4. Wizards'
  BY <1>1, <1>2, AllIdle DEF SetupInv, Wizards, S!Idle
<1>5. Sound(opened') /\ InitList'
  <2>1. CASE S!InitUser
    <3>1. opened' = [opened EXCEPT !.users = 1, !.ver = @ + 1] /\ opened.users = 0
      BY <2>1 DEF S!InitUser, S!InitSetup, S!Commit
    <3>2. /\ opened'.rows = opened.rows /\ opened'.users = 1 /\ opened'.step = opened.step
          /\ opened'.uport = opened.uport /\ opened'.iport = opened.iport
          /\ opened'.edited = opened.edited
      <4> DEFINE e == [opened EXCEPT !.users = 1, !.ver = @ + 1]
      <4>1. /\ e.rows = opened.rows /\ e.users = 1 /\ e.step = opened.step
            /\ e.uport = opened.uport /\ e.iport = opened.iport /\ e.edited = opened.edited
        BY <1>3, UserDone, Zenon
      <4>2. opened' = e
        BY <3>1
      <4> HIDE DEF e
      <4> QED
        BY <4>1, <4>2
    <3>3. opened.step = 1
      BY <1>3, <3>1 DEF Sound
    <3> QED
      BY <1>1, <1>2, <1>3, <2>1, <3>2, <3>3 DEF Sound, Agrees, InitList
  <2>2. CASE S!InitHost
    <3>1. opened' = S!UpdateHostPort(opened, S!InitPort)
      BY <2>2 DEF S!InitHost, S!InitSetup, S!Commit
    <3>2. /\ opened'.rows = opened.rows /\ opened'.users = opened.users
          /\ "user_configs" \in opened.rows => opened'.uport = S!InitPort
          /\ opened'.step = opened.step /\ opened'.iport = opened.iport
      BY <1>3, <3>1, HostDone
    <3>3. opened.step # 0 /\ opened.users # 0
      BY <1>1, <2>2 DEF SetupInv, InitList
    <3> QED
      BY <1>1, <1>2, <1>3, <2>2, <3>2, <3>3 DEF Sound, Agrees, InitList, Told
  <2>3. CASE S!InitIface
    <3>1. opened' = S!Set(opened, "interfaces", "iport", S!InitPort)
      BY <2>3 DEF S!InitIface, S!InitSetup, S!Commit
    <3>2. /\ opened'.rows = opened.rows /\ opened'.users = opened.users
          /\ "interfaces" \in opened.rows => opened'.iport = S!InitPort
          /\ opened'.step = opened.step /\ opened'.uport = opened.uport
          /\ opened'.edited = opened.edited
      BY <1>3, <3>1, SetIportDone
    <3>3. opened.step # 0 /\ opened.users # 0 /\ Told(opened, S!InitPort)
      BY <1>1, <2>3 DEF SetupInv, InitList
    <3> QED
      BY <1>1, <1>2, <1>3, <2>3, <3>2, <3>3 DEF Sound, Agrees, InitList, Told, Listens
  <2>4. CASE S!InitLists
    <3>1. opened' = [opened EXCEPT !.ver = @ + 1]
      BY <2>4 DEF S!InitLists, S!InitSetup, S!Commit
    <3>2. SameSetup(opened, opened') /\ opened'.rows = opened.rows
      BY <1>3, <3>1, Counted1
    <3>3. Sound(opened') /\ (Told(opened, S!InitPort) => Told(opened', S!InitPort))
          /\ (Listens(opened, S!InitPort) => Listens(opened', S!InitPort))
      BY <1>3, <3>2, SameSound
    <3>4. /\ opened.step # 0 /\ opened.users # 0
          /\ Told(opened, S!InitPort) /\ Listens(opened, S!InitPort)
      BY <1>1, <2>4 DEF SetupInv, InitList
    <3>5. opened'.step # 0 /\ opened'.users # 0
      BY <3>2, <3>4 DEF SameSetup
    <3>6. Told(opened', S!InitPort) /\ Listens(opened', S!InitPort)
      BY <3>3, <3>4
    <3> QED
      BY <3>3, <3>5, <3>6 DEF InitList, Told, Listens, S!InitPort
  <2>5. CASE S!InitDone
    <3>1. opened' = S!Set(opened, "general", "step", 0)
      BY <2>5 DEF S!InitDone, S!InitSetup, S!Commit
    <3>2. /\ opened'.rows = opened.rows /\ opened'.users = opened.users
          /\ "general" \notin opened.rows => opened'.step = opened.step
          /\ opened'.uport = opened.uport /\ opened'.iport = opened.iport
          /\ opened'.edited = opened.edited
      BY <1>3, <3>1, SetStepDone
    <3>3. /\ opened.step # 0 /\ opened.users # 0
          /\ Told(opened, S!InitPort) /\ Listens(opened, S!InitPort)
      BY <1>1, <2>5 DEF SetupInv, InitList
    <3> QED
      BY <1>1, <1>2, <1>3, <2>5, <3>2, <3>3 DEF Sound, Agrees, InitList, Told, Listens
  <2> QED
    BY <2>1, <2>2, <2>3, <2>4, <2>5
<1>6. (\A d \in Held : Sound(d))'
  BY <1>5, SoundCopies DEF S!Next
<1> QED
  BY <1>1, <1>2, <1>4, <1>5, <1>6 DEF SetupInv, Booting, Ended

\* Any other write.
LEMMA SetupWrites == ASSUME UpgradeInv, SetupInv, S!Write PROVE SetupInv'
<1>1. /\ phase = "serving" /\ phase' = phase /\ UNCHANGED <<req, final, boot>>
      /\ opened' = [opened EXCEPT !.ver = @ + 1]
  BY DEF S!Write, S!OtherWrite, S!Commit
<1>2. Full(opened) /\ Sound(opened)
  BY DEF UpgradeInv, SetupInv, Held
<1>3. SameSetup(opened, opened') /\ opened'.rows = opened.rows
  BY <1>1, <1>2, Counted1
<1>4. /\ Sound(opened')
      /\ \A p : (Told(opened, p) <=> Told(opened', p)) /\ (Listens(opened, p) <=> Listens(opened', p))
  BY <1>2, <1>3, SameSound
<1>5. opened'.step = opened.step /\ opened'.users = opened.users
  BY <1>3 DEF SameSetup
<1>6. Wizards'
  BY <1>1, <1>3, <1>5 DEF SetupInv, Wizards, SameSetup, Told, Listens
<1>7. (\A d \in Held : Sound(d))'
  BY <1>4, SoundCopies DEF S!Next
<1> QED
  BY <1>1, <1>6, <1>7 DEF SetupInv, Booting, InitList, Ended

\* An admin sets one of the two ports: the history says so.
LEMMA SetupEdits == ASSUME UpgradeInv, SetupInv, NEW p \in Edits, S!EditPort(p) PROVE SetupInv'
<1>1. /\ phase = "serving" /\ phase' = phase /\ UNCHANGED <<req, final, boot>>
      /\ \/ opened' = [S!Set(opened, "user_configs", "uport", p) EXCEPT !.edited = TRUE]
         \/ opened' = [S!Set(opened, "interfaces", "iport", p) EXCEPT !.edited = TRUE]
  BY DEF S!EditPort, S!OtherWrite, S!Commit
<1>2. Full(opened) /\ Sound(opened)
  BY DEF UpgradeInv, SetupInv, Held
<1>3. /\ opened'.rows = opened.rows /\ opened'.users = opened.users /\ opened'.step = opened.step
      /\ opened'.edited = TRUE
  <2> DEFINE e == opened'
  <2>1. \/ e = [S!Set(opened, "user_configs", "uport", p) EXCEPT !.edited = TRUE]
        \/ e = [S!Set(opened, "interfaces", "iport", p) EXCEPT !.edited = TRUE]
    BY <1>1
  <2> HIDE DEF e
  <2>2. EditsOnly(opened, e)
    BY <2>1, <1>2, EditDone
  <2> QED
    BY <2>2 DEF e, EditsOnly
<1>4. Sound(opened')
  BY <1>2, <1>3 DEF Sound, Agrees
<1>5. Wizards'
  BY <1>1, <1>3 DEF SetupInv, Wizards, Told, Listens
<1>6. (\A d \in Held : Sound(d))'
  BY <1>4, SoundCopies DEF S!Next
<1> QED
  BY <1>1, <1>5, <1>6 DEF SetupInv, Booting, InitList, Ended

\* A request of the wizard: it tells clients a port, sets the interface to the
\* same one, and only then closes the wizard; nobody else is at it meanwhile.
LEMMA SetupWizard ==
  ASSUME OneAtATime, UpgradeInv, SetupInv, NEW r \in Reqs, S!Wizard(r) PROVE SetupInv'
<1>1. Full(opened) /\ Sound(opened) /\ Reqs = {r}
  BY DEF UpgradeInv, SetupInv, Held, OneAtATime
<1>2. UNCHANGED <<phase, boot, final>> /\ phase \in {"serving", "draining"}
  BY DEF S!Wizard, S!Setup2, S!CreateUser, S!Advance, S!Setup4, S!SetHost, S!SetIface,
         S!Complete, S!Ask, S!Handle
<1>3. req = [q \in Reqs |-> req[q]] /\ {"at", "port"} \subseteq DOMAIN req[r]
  BY DEF SetupInv, Wizards
<1> DEFINE Owes(q, d) ==
             /\ {"at", "port"} \subseteq DOMAIN q
             /\ q.at = "advance" => d.users # 0
             /\ q.at \in {"host", "iface", "complete"} => d.step = 3
             /\ q.at \in {"iface", "complete"} => Told(d, q.port)
             /\ q.at = "complete" => Listens(d, q.port)
<1>4. Owes(req[r], opened)
  BY DEF SetupInv, Wizards
<1>5. \A what : Owes(what, opened') /\ req' = [req EXCEPT ![r] = what] => Wizards'
  BY <1>1, <1>2, <1>3 DEF Wizards, Told, Listens
<1>6. SUFFICES Sound(opened') /\ Wizards'
  BY <1>2, SoundCopies DEF SetupInv, Booting, InitList, Ended, S!Next
<1>7. CASE S!Setup2(r) \/ S!Setup4(r)
  <2>1. PICK p : /\ opened' = opened
                 /\ \/ req' = [req EXCEPT ![r] = [at |-> "user", port |-> 0]]
                    \/ opened.step = 3 /\ req' = [req EXCEPT ![r] = [at |-> "host", port |-> p]]
    BY <1>7 DEF S!Setup2, S!Setup4, S!Ask
  <2>2. Owes([at |-> "user", port |-> 0], opened)
    OBVIOUS
  <2>3. opened.step = 3 => Owes([at |-> "host", port |-> p], opened)
    OBVIOUS
  <2> HIDE DEF Owes
  <2> QED
    BY <1>1, <1>5, <2>1, <2>2, <2>3
<1>8. ASSUME NEW next, req' = [req EXCEPT ![r] = [@ EXCEPT !.at = next]]
      PROVE  \E what : /\ req' = [req EXCEPT ![r] = what]
                       /\ {"at", "port"} \subseteq DOMAIN what
                       /\ what.at = next /\ what.port = req[r].port
  <2> DEFINE what == [req[r] EXCEPT !.at = next]
  <2>1. /\ {"at", "port"} \subseteq DOMAIN what /\ what.at = next /\ what.port = req[r].port
    BY <1>3
  <2>2. req' = [req EXCEPT ![r] = what]
    BY <1>1, <1>3, <1>8
  <2> HIDE DEF what
  <2> QED
    BY <2>1, <2>2
<1>9. CASE S!CreateUser(r)
  <2>0. req' = [req EXCEPT ![r] = [@ EXCEPT !.at = "advance"]]
    BY <1>9 DEF S!CreateUser, S!Handle
  <2>1. opened' = [opened EXCEPT !.users = opened.users + 1, !.ver = @ + 1]
    BY <1>9 DEF S!CreateUser, S!Handle, S!Commit
  <2>2. /\ opened'.rows = opened.rows /\ opened'.users = opened.users + 1
        /\ opened'.step = opened.step
        /\ opened'.uport = opened.uport /\ opened'.iport = opened.iport
        /\ opened'.edited = opened.edited
    BY <1>1, <2>1, UserDone
  <2>3. opened'.users \in Nat /\ opened'.users # 0
    BY <1>1, <2>2 DEF Sound
  <2>4. PICK what : /\ req' = [req EXCEPT ![r] = what] /\ {"at", "port"} \subseteq DOMAIN what
                    /\ what.at = "advance"
    BY <1>8, <2>0, Zenon
  <2>5. Owes(what, opened')
    BY <2>3, <2>4
  <2>6. Sound(opened')
    BY <1>1, <2>2, <2>3 DEF Sound, Agrees
  <2> QED
    BY <1>5, <2>4, <2>5, <2>6
<1>10. CASE S!Advance(r)
  <2>1. /\ req' = [req EXCEPT ![r] = S!Idle]
        /\ opened' = S!Set(opened, "general", "step", 3) /\ req[r].at = "advance"
    BY <1>10 DEF S!Advance, S!Handle, S!Commit
  <2>2. /\ opened'.rows = opened.rows /\ opened'.users = opened.users
        /\ opened'.step = 3 \/ opened'.step = opened.step
        /\ opened'.uport = opened.uport /\ opened'.iport = opened.iport
        /\ opened'.edited = opened.edited
    BY <1>1, <2>1, SetStepDone
  <2>3. opened.users # 0
    BY <1>4, <2>1
  <2>4. Owes(S!Idle, opened') /\ req' = [req EXCEPT ![r] = S!Idle]
    BY <2>1 DEF S!Idle
  <2>5. Sound(opened')
    BY <1>1, <2>2, <2>3 DEF Sound, Agrees
  <2> QED
    BY <1>5, <2>4, <2>5
<1>11. CASE S!SetHost(r)
  <2>0. req' = [req EXCEPT ![r] = [@ EXCEPT !.at = "iface"]]
    BY <1>11 DEF S!SetHost, S!Handle
  <2>1. /\ opened' = S!UpdateHostPort(opened, req[r].port) /\ req[r].at = "host"
    BY <1>11 DEF S!SetHost, S!Handle, S!Commit
  <2>2. /\ opened'.rows = opened.rows /\ opened'.users = opened.users
        /\ opened'.step = opened.step /\ opened'.iport = opened.iport
        /\ "user_configs" \in opened.rows => opened'.uport = req[r].port
    BY <1>1, <2>1, HostDone
  <2>3. opened.step = 3
    BY <1>4, <2>1
  <2>4. PICK what : /\ req' = [req EXCEPT ![r] = what] /\ {"at", "port"} \subseteq DOMAIN what
                    /\ what.at = "iface" /\ what.port = req[r].port
    BY <1>8, <2>0, Zenon
  <2>5. Owes(what, opened')
    BY <2>2, <2>3, <2>4 DEF Told
  <2>6. Sound(opened')
    BY <1>1, <2>2, <2>3 DEF Sound, Agrees
  <2> QED
    BY <1>5, <2>4, <2>5, <2>6
<1>12. CASE S!SetIface(r)
  <2>0. req' = [req EXCEPT ![r] = [@ EXCEPT !.at = "complete"]]
    BY <1>12 DEF S!SetIface, S!Handle
  <2>1. /\ opened' = S!Set(opened, "interfaces", "iport", req[r].port) /\ req[r].at = "iface"
    BY <1>12 DEF S!SetIface, S!Handle, S!Commit
  <2>2. /\ opened'.rows = opened.rows /\ opened'.users = opened.users
        /\ opened'.step = opened.step /\ opened'.uport = opened.uport
        /\ opened'.edited = opened.edited
        /\ "interfaces" \in opened.rows => opened'.iport = req[r].port
    BY <1>1, <2>1, SetIportDone
  <2>3. opened.step = 3 /\ Told(opened, req[r].port)
    BY <1>4, <2>1
  <2>4. PICK what : /\ req' = [req EXCEPT ![r] = what] /\ {"at", "port"} \subseteq DOMAIN what
                    /\ what.at = "complete" /\ what.port = req[r].port
    BY <1>8, <2>0, Zenon
  <2>5. Owes(what, opened')
    BY <2>2, <2>3, <2>4 DEF Told, Listens
  <2>6. Sound(opened')
    BY <1>1, <2>2, <2>3 DEF Sound, Agrees
  <2> QED
    BY <1>5, <2>4, <2>5, <2>6
<1>13. CASE S!Complete(r)
  <2>1. /\ req' = [req EXCEPT ![r] = S!Idle]
        /\ opened' = S!Set(opened, "general", "step", 0) /\ req[r].at = "complete"
    BY <1>13 DEF S!Complete, S!Handle, S!Commit
  <2>2. /\ opened'.rows = opened.rows /\ opened'.users = opened.users
        /\ "general" \notin opened.rows => opened'.step = opened.step
        /\ opened'.uport = opened.uport /\ opened'.iport = opened.iport
        /\ opened'.edited = opened.edited
    BY <1>1, <2>1, SetStepDone
  <2>3. opened.step = 3 /\ Told(opened, req[r].port) /\ Listens(opened, req[r].port)
    BY <1>4, <2>1
  <2>4. Owes(S!Idle, opened') /\ req' = [req EXCEPT ![r] = S!Idle]
    BY <2>1 DEF S!Idle
  <2>5. Sound(opened')
    BY <1>1, <2>2, <2>3 DEF Sound, Agrees, Told, Listens
  <2> QED
    BY <1>5, <2>4, <2>5
<1> QED
  BY <1>7, <1>9, <1>10, <1>11, <1>12, <1>13 DEF S!Wizard

LEMMA SetupStep ==
  OneAtATime /\ UpgradeInv /\ SetupInv /\ [S!Next]_(S!vars) => SetupInv'
<1> SUFFICES ASSUME OneAtATime, UpgradeInv, SetupInv, [S!Next]_(S!vars) PROVE SetupInv'
  OBVIOUS
<1>1. CASE UNCHANGED S!vars
  BY <1>1 DEF S!vars, SetupInv, Held, Booting, InitList, Wizards, Ended
<1>2. CASE S!Next
  BY <1>2, SetupOpens, SetupDown, SetupBoots, SetupQuiet, SetupInits, SetupWrites, SetupEdits,
     SetupWizard DEF S!Next
<1> QED
  BY <1>1, <1>2

LEMMA SetupInit == S!Init => SetupInv
<1> SUFFICES ASSUME S!Init PROVE SetupInv
  OBVIOUS
<1>1. Held \subseteq S!OldFiles \union {S!NoData}
  BY DEF S!Init, Held, S!NoFile, S!Corrupt, S!NoImage
<1>2. Wizards
  BY DEF S!Init, Wizards, S!Idle
<1> QED
  BY <1>1, <1>2, OldSound DEF S!Init, SetupInv, Booting, InitList, Ended, S!NoImage

(***************************************************************************)
(* A finished setup is consistent (setup_step4_post,                       *)
(* provision_initial_setup): with one request of the wizard at a time,      *)
(* whatever old release, INIT_* list, kill or snapshot the database has been *)
(* through, when the wizard is closed, and until an admin sets one of the    *)
(* two ports alone, clients are told the port the interface listens on.     *)
(***************************************************************************)
THEOREM SetupConsistentEver == OneAtATime => (PartsSpec => []SetupConsistent)
<1> SUFFICES ASSUME OneAtATime PROVE PartsSpec => []SetupConsistent
  OBVIOUS
<1>1. PartsInit => UpgradeInv /\ SetupInv
  BY UpgradeInit, SetupInit DEF PartsInit
<1>2. UpgradeInv /\ SetupInv /\ [PartsNext]_<<part, storeVars, linkVars, vars>>
        => (UpgradeInv /\ SetupInv)'
  <2> SUFFICES ASSUME UpgradeInv, SetupInv, [PartsNext]_<<part, storeVars, linkVars, vars>>
               PROVE  UpgradeInv' /\ SetupInv'
    OBVIOUS
  <2>1. [S!Next]_(S!vars)
    BY DEF PartsNext, storeVars, S!vars
  <2> QED
    BY <2>1, UpgradeStep, SetupStep
<1>3. SetupInv => SetupConsistent
  BY DEF SetupInv, Held, Sound, Agrees, SetupConsistent, S!SetupConsistent
<1> QED
  BY <1>1, <1>2, <1>3, PTL DEF PartsSpec

-----------------------------------------------------------------------------
(***************************************************************************)
(* 2. One-time links.                                                      *)
(***************************************************************************)
\* What these proofs need of the constants.
LinkAssumption ==
  IsFiniteSet(Workers) /\ MaxTokens \in Nat \ {0} /\ NoLink \notin L!Link

Carries(c, k) == links[c] # NoLink /\ links[c].token = k
Holds(w, k)   == at[w] \in {"render", "serve"} /\ token[w] = k
Holders(k)    == {w \in Workers : Holds(w, k)}

(***************************************************************************)
(* UsesBounded is not inductive: a link whose token was served already     *)
(* would let one more thread in.  A token in a row has not been served, it *)
(* is in one row only, and the threads that hold it will delete that row.  *)
(***************************************************************************)
Unique  == \A c, d \in Clients, k \in L!Token : Carries(c, k) /\ Carries(d, k) => c = d
Unused  == \A c \in Clients, k \in L!Token : Carries(c, k) => k <= issued /\ served[k] = 0
Drawn   == \A k \in L!Token : k > issued => served[k] = 0 /\ Holders(k) = {}
Own     == \A w \in Workers, c \in Clients, k \in L!Token :
             Holds(w, k) /\ Carries(c, k) => c = client[w]
Counted == \A k \in L!Token : served[k] + Cardinality(Holders(k)) <= Cardinality(Workers)

LinkInv == L!TypeOK /\ L!NoOrphanLink /\ Unique /\ Unused /\ Drawn /\ Own /\ Counted

-----------------------------------------------------------------------------
\* The threads that hold a token are finitely many, and threads.
LEMMA HoldersFact ==
  ASSUME LinkAssumption, NEW k
  PROVE  /\ IsFiniteSet(Holders(k))
         /\ Cardinality(Holders(k)) \in Nat
         /\ Cardinality(Workers) \in Nat
         /\ Cardinality(Holders(k)) <= Cardinality(Workers)
<1>1. Holders(k) \subseteq Workers
  BY DEF Holders
<1> QED
  BY <1>1, FS_Subset, FS_CardinalityType DEF LinkAssumption

\* The module's own copy of Cardinality is that of FiniteSets.
LEMMA CardinalityFact == L!Cardinality(Workers) = Cardinality(Workers)
BY DEF L!Cardinality, Cardinality

\* Nothing is issued at startup.
LEMMA LinkInit == LinkAssumption /\ L!Init => LinkInv
<1> SUFFICES ASSUME LinkAssumption, L!Init PROVE LinkInv
  OBVIOUS
<1>1. \A k : Holders(k) = {}
  BY DEF L!Init, Holders, Holds
<1>2. \A c \in Clients, k \in L!Token : ~Carries(c, k)
  BY DEF L!Init, Carries
<1>3. L!TypeOK /\ L!NoOrphanLink
  BY DEF L!Init, L!TypeOK, L!NoOrphanLink, LinkAssumption, L!Token
<1>4. Unique /\ Unused /\ Own
  BY <1>2 DEF Unique, Unused, Own
<1>5. Drawn /\ Counted
  BY <1>1, HoldersFact DEF L!Init, Drawn, Counted
<1> QED
  BY <1>3, <1>4, <1>5 DEF LinkInv

(***************************************************************************)
(* The four ways a step can treat rows and holders.                        *)
(***************************************************************************)
\* A step that adds no row and no holder and serves nothing keeps the
\* accounts of tokens.
LEMMA Shrinking ==
  ASSUME LinkAssumption, LinkInv, L!TypeOK', L!NoOrphanLink',
         issued' = issued, served' = served,
         \A c \in Clients, k \in L!Token : Carries(c, k)' => Carries(c, k),
         \A w \in Workers, k \in L!Token :
           Holds(w, k)' => Holds(w, k) /\ client'[w] = client[w]
  PROVE  LinkInv'
<1>1. Unique' /\ Unused'
  BY DEF LinkInv, Unique, Unused
<1>2. \A k \in L!Token : Holders(k)' \subseteq Holders(k)
  BY DEF Holders
<1>3. Drawn'
  BY <1>2 DEF LinkInv, Drawn
<1>4. Own'
  BY DEF LinkInv, Own
<1>5. Counted'
  <2> SUFFICES ASSUME NEW k \in L!Token
               PROVE  served'[k] + Cardinality(Holders(k)') <= Cardinality(Workers)
    BY DEF Counted
  <2>1. /\ Cardinality(Holders(k)') <= Cardinality(Holders(k))
        /\ Cardinality(Holders(k)') \in Nat
    BY <1>2, HoldersFact, FS_Subset, FS_CardinalityType
  <2>2. served[k] \in Nat /\ served[k] + Cardinality(Holders(k)) <= Cardinality(Workers)
    BY DEF LinkInv, L!TypeOK, Counted
  <2> QED
    BY <2>1, <2>2, HoldersFact
<1> QED
  BY <1>1, <1>3, <1>4, <1>5 DEF LinkInv

\* generate_one_time_link's row carries a token that nobody holds.
LEMMA InsertKeeps ==
  ASSUME LinkAssumption, LinkInv, NEW w \in Workers, L!GenerateInsert(w)
  PROVE  LinkInv'
<1>c. PICK c \in Clients : c = client[w]
  BY DEF LinkInv, L!TypeOK
<1>t. L!TypeOK /\ at[w] = "generate"
  BY DEF LinkInv, L!TypeOK, L!GenerateInsert
<1> DEFINE link == [token |-> issued + 1, expired |-> FALSE]
<1>h. \A v \in Workers, k \in L!Token : Holds(v, k)' <=> Holds(v, k)
  BY <1>t DEF L!TypeOK, L!GenerateInsert, L!Goto, L!local, Holds
<1>1. CASE c \in owners /\ issued < MaxTokens
  <2>1. issued + 1 \in L!Token /\ issued' = issued + 1 /\ issued \in Nat
    BY <1>1, <1>c, <1>t DEF L!TypeOK, L!Token, L!GenerateInsert, LinkAssumption
  <2>2. link \in L!Link /\ link # NoLink /\ link.token = issued + 1
    <3>1. link \in L!Link
      BY <2>1 DEF L!Link
    <3> QED
      BY <3>1 DEF LinkAssumption
  <2>3. links' = [links EXCEPT ![c] = link]
    BY <1>1, <1>c DEF L!GenerateInsert
  <2> HIDE DEF link
  <2>4. L!TypeOK'
    <3>1. links' \in [Clients -> L!Link \union {NoLink}]
      BY <2>2, <2>3, <1>t DEF L!TypeOK
    <3> QED
      BY <3>1, <2>1, <1>t DEF L!TypeOK, L!GenerateInsert, L!Goto, L!local, L!Token, LinkAssumption
  <2>5. L!NoOrphanLink'
    BY <1>1, <1>t, <2>3 DEF LinkInv, L!NoOrphanLink, L!TypeOK, L!GenerateInsert
  <2>6. /\ \A k \in L!Token : Carries(c, k)' <=> k = issued + 1
        /\ \A d \in Clients, k \in L!Token : d # c => (Carries(d, k)' <=> Carries(d, k))
    <3>1. links'[c] = link /\ \A d \in Clients : d # c => links'[d] = links[d]
      BY <2>3, <1>t DEF L!TypeOK
    <3> QED
      BY <2>2, <3>1 DEF Carries
  <2>7. served' = served /\ client' = client
    BY DEF L!GenerateInsert, L!local
  <2>8. Unique'
    BY <2>1, <2>6 DEF LinkInv, Unique, Unused, L!Token, Carries
  <2>9. Unused'
    BY <2>1, <2>6, <2>7 DEF LinkInv, Unused, Drawn, L!Token, Carries
  <2>10. \A k : Holders(k) = {v \in Workers : Holds(v, k)}
    BY DEF Holders
  <2>11. \A k \in L!Token : Holders(k)' = Holders(k)
    BY <1>h DEF Holders
  <2>12. Drawn'
    BY <2>1, <2>7, <2>11 DEF LinkInv, Drawn, L!Token
  <2>13. Own'
    <3> SUFFICES ASSUME NEW v \in Workers, NEW d \in Clients, NEW k \in L!Token,
                        Holds(v, k)', Carries(d, k)'
                 PROVE  d = client'[v]
      BY DEF Own
    <3>1. Holds(v, k) /\ v \in Holders(k)
      BY <1>h, <2>10
    <3>2. k # issued + 1
      BY <3>1, <2>1 DEF LinkInv, Drawn
    <3>3. d # c /\ Carries(d, k)
      BY <3>2, <2>6 DEF Carries
    <3> QED
      BY <3>1, <3>3, <2>7 DEF LinkInv, Own
  <2>14. Counted'
    BY <2>7, <2>11 DEF LinkInv, Counted
  <2> QED
    BY <2>4, <2>5, <2>8, <2>9, <2>12, <2>13, <2>14 DEF LinkInv
<1>2. CASE ~(c \in owners /\ issued < MaxTokens)
  <2>1. UNCHANGED <<owners, links, issued, client, token, served>>
    BY <1>2, <1>c DEF L!GenerateInsert, L!local
  <2>2. L!TypeOK' /\ L!NoOrphanLink'
    BY <2>1, <1>t DEF LinkInv, L!TypeOK, L!NoOrphanLink, L!GenerateInsert, L!Goto
  <2>3. \A d \in Clients, k \in L!Token : Carries(d, k)' => Carries(d, k)
    BY <2>1 DEF Carries
  <2> QED
    BY <2>1, <2>2, <2>3, <1>h, Shrinking
<1> QED
  BY <1>1, <1>2

\* A thread that looks a token up finds it unserved.
LEMMA LookupKeeps ==
  ASSUME LinkAssumption, LinkInv, NEW w \in Workers, L!Lookup(w)
  PROVE  LinkInv'
<1>1. PICK c \in Clients :
        /\ links[c] # NoLink
        /\ client' = [client EXCEPT ![w] = c]
        /\ token' = [token EXCEPT ![w] = links[c].token]
        /\ L!Goto(w, IF links[c].expired THEN "drop" ELSE "render")
  BY DEF L!Lookup
<1>2. UNCHANGED <<owners, links, issued, served>> /\ at[w] = "idle" /\ L!TypeOK
  BY DEF L!Lookup, LinkInv
<1>k. PICK k0 \in L!Token : k0 = links[c].token
  BY <1>1, <1>2 DEF L!TypeOK, L!Link
<1>3. links[c] \in L!Link /\ Carries(c, k0)
  BY <1>1, <1>2, <1>k DEF L!TypeOK, Carries
<1>4. L!TypeOK' /\ L!NoOrphanLink'
  BY <1>1, <1>2, <1>3, <1>k DEF LinkInv, L!TypeOK, L!NoOrphanLink, L!Goto
<1>5. \A d \in Clients, k \in L!Token : Carries(d, k)' <=> Carries(d, k)
  BY <1>2 DEF Carries
<1>6. \A v \in Workers, k \in L!Token :
        v # w => (Holds(v, k)' <=> Holds(v, k)) /\ client'[v] = client[v]
  BY <1>1, <1>2 DEF L!TypeOK, Holds, L!Goto
<1>7. \A k \in L!Token : Holds(w, k)' => k = k0
  BY <1>1, <1>2, <1>k DEF L!TypeOK, Holds
<1>8. client'[w] = c
  BY <1>1, <1>2 DEF L!TypeOK
<1>9. k0 <= issued /\ served[k0] = 0
  BY <1>3 DEF LinkInv, Unused
<1>10. Unique' /\ Unused'
  BY <1>2, <1>5 DEF LinkInv, Unique, Unused
<1>11. Own'
  BY <1>3, <1>5, <1>6, <1>7, <1>8 DEF LinkInv, Own, Unique
<1>12. \A k \in L!Token : k # k0 => Holders(k)' \subseteq Holders(k)
  BY <1>6, <1>7 DEF Holders
<1>13. Drawn'
  BY <1>2, <1>3, <1>9, <1>12 DEF LinkInv, Drawn, L!TypeOK, L!Token
<1>14. Counted'
  <2> SUFFICES ASSUME NEW k \in L!Token
               PROVE  served'[k] + Cardinality(Holders(k)') <= Cardinality(Workers)
    BY DEF Counted
  <2>1. /\ Cardinality(Holders(k)') \in Nat
        /\ Cardinality(Holders(k)') <= Cardinality(Workers)
    <3>1. Holders(k)' \subseteq Workers
      BY DEF Holders
    <3> QED
      BY <3>1, FS_Subset, FS_CardinalityType DEF LinkAssumption
  <2>2. CASE k = k0
    BY <2>1, <2>2, <1>2, <1>9, HoldersFact
  <2>3. CASE k # k0
    <3>1. Cardinality(Holders(k)') <= Cardinality(Holders(k))
      BY <2>3, <1>12, HoldersFact, FS_Subset
    <3>2. served[k] \in Nat /\ served[k] + Cardinality(Holders(k)) <= Cardinality(Workers)
      BY <1>2 DEF LinkInv, L!TypeOK, Counted
    <3> QED
      BY <2>1, <3>1, <3>2, <1>2, HoldersFact
  <2> QED
    BY <2>2, <2>3
<1> QED
  BY <1>4, <1>10, <1>11, <1>13, <1>14 DEF LinkInv

\* Answering removes the one row that carries the token and one holder of it.
LEMMA ServeKeeps ==
  ASSUME LinkAssumption, LinkInv, NEW w \in Workers, L!Serve(w)
  PROVE  LinkInv'
<1>0. PICK k0 \in L!Token, c \in Clients : k0 = token[w] /\ c = client[w]
  BY DEF LinkInv, L!TypeOK
<1>1. /\ L!TypeOK /\ at[w] = "serve" /\ Holds(w, k0)
      /\ UNCHANGED <<owners, issued, client, token>>
  BY <1>0 DEF LinkInv, L!TypeOK, L!Serve, L!local, Holds
<1>2. /\ links' = [links EXCEPT ![c] = NoLink]
      /\ served' = [served EXCEPT ![k0] = @ + 1]
      /\ at' = [at EXCEPT ![w] = "idle"]
  BY <1>0 DEF L!Serve, L!Goto
<1>3. L!TypeOK' /\ L!NoOrphanLink'
  BY <1>1, <1>2 DEF LinkInv, L!TypeOK, L!NoOrphanLink
<1>4. \A d \in Clients, k \in L!Token :
        Carries(d, k)' => Carries(d, k) /\ d # c
  BY <1>1, <1>2 DEF L!TypeOK, Carries
<1>5. \A v \in Workers, k \in L!Token : Holds(v, k)' <=> Holds(v, k) /\ v # w
  BY <1>1, <1>2 DEF L!TypeOK, Holds
<1>6. \A k \in L!Token : served'[k] = IF k = k0 THEN served[k] + 1 ELSE served[k]
  BY <1>1, <1>2 DEF L!TypeOK
<1>7. issued' = issued
  BY <1>1
<1>8. \A d \in Clients : ~Carries(d, k0)'
  BY <1>0, <1>1, <1>4 DEF LinkInv, Own
<1>9. k0 <= issued
  <2>1. w \in Holders(k0)
    BY <1>1 DEF Holders
  <2> QED
    BY <1>1, <2>1 DEF LinkInv, Drawn, L!Token, L!TypeOK
<1>h. \A k \in L!Token : /\ k # k0 => Holders(k)' = Holders(k)
                         /\ k = k0 => Holders(k)' = Holders(k) \ {w} /\ w \in Holders(k)
  BY <1>0, <1>1, <1>5 DEF Holders, Holds
<1>10. Unique'
  BY <1>4 DEF LinkInv, Unique
<1>11. Unused'
  <2> SUFFICES ASSUME NEW d \in Clients, NEW k \in L!Token, Carries(d, k)'
               PROVE  k <= issued' /\ served'[k] = 0
    BY DEF Unused
  <2>1. k # k0 /\ Carries(d, k)
    BY <1>4, <1>8 DEF Carries
  <2> QED
    BY <2>1, <1>6, <1>7 DEF LinkInv, Unused
<1>12. Drawn'
  BY <1>1, <1>6, <1>9, <1>h DEF LinkInv, Drawn, L!Token, L!TypeOK
<1>13. Own'
  BY <1>1, <1>4, <1>5 DEF LinkInv, Own
<1>14. Counted'
  <2> SUFFICES ASSUME NEW k \in L!Token
               PROVE  served'[k] + Cardinality(Holders(k)') <= Cardinality(Workers)
    BY DEF Counted
  <2>1. served[k] \in Nat /\ served[k] + Cardinality(Holders(k)) <= Cardinality(Workers)
    BY <1>1 DEF LinkInv, L!TypeOK, Counted
  <2>2. CASE k = k0
    <3>1. Cardinality(Holders(k)') = Cardinality(Holders(k)) - 1
      BY <2>2, <1>h, HoldersFact, FS_RemoveElement
    <3> QED
      BY <2>1, <2>2, <3>1, <1>6, HoldersFact
  <2>3. CASE k # k0
    BY <2>1, <2>3, <1>6, <1>h
  <2> QED
    BY <2>2, <2>3
<1> QED
  BY <1>3, <1>10, <1>11, <1>12, <1>13, <1>14 DEF LinkInv

-----------------------------------------------------------------------------
\* Every step keeps the invariant: the others neither add a row nor a holder.
LEMMA LinkStep == LinkAssumption /\ LinkInv /\ [L!Next]_(L!vars) => LinkInv'
<1> SUFFICES ASSUME LinkAssumption, LinkInv, [L!Next]_(L!vars) PROVE LinkInv'
  OBVIOUS
<1>t. L!TypeOK /\ L!NoOrphanLink
  BY DEF LinkInv
<1>1. CASE UNCHANGED L!vars
  <2>1. L!TypeOK' /\ L!NoOrphanLink'
    BY <1>1, <1>t DEF L!vars, L!local, L!TypeOK, L!NoOrphanLink
  <2>2. /\ \A d \in Clients, k \in L!Token : Carries(d, k)' => Carries(d, k)
        /\ \A v \in Workers, k \in L!Token :
             Holds(v, k)' => Holds(v, k) /\ client'[v] = client[v]
    BY <1>1 DEF L!vars, L!local, Carries, Holds
  <2> QED
    BY <1>1, <2>1, <2>2, Shrinking DEF L!vars
<1>2. ASSUME NEW w \in Workers, L!GenerateCheck(w) PROVE LinkInv'
  <2>1. L!TypeOK' /\ L!NoOrphanLink'
    BY <1>2, <1>t DEF L!GenerateCheck, L!Goto, L!TypeOK, L!NoOrphanLink
  <2>2. \A d \in Clients, k \in L!Token : Carries(d, k)' => Carries(d, k)
    BY <1>2 DEF L!GenerateCheck, Carries
  <2>3. \A v \in Workers, k \in L!Token :
          Holds(v, k)' => Holds(v, k) /\ client'[v] = client[v]
    BY <1>2, <1>t DEF L!GenerateCheck, L!Goto, L!TypeOK, Holds
  <2> QED
    BY <1>2, <2>1, <2>2, <2>3, Shrinking DEF L!GenerateCheck
<1>3. ASSUME NEW w \in Workers, L!DropExpired(w) PROVE LinkInv'
  <2>1. L!TypeOK' /\ L!NoOrphanLink'
    BY <1>3, <1>t DEF L!DropExpired, L!Goto, L!local, L!TypeOK, L!NoOrphanLink
  <2>2. \A d \in Clients, k \in L!Token : Carries(d, k)' => Carries(d, k)
    BY <1>3, <1>t DEF L!DropExpired, Carries, L!TypeOK
  <2>3. \A v \in Workers, k \in L!Token :
          Holds(v, k)' => Holds(v, k) /\ client'[v] = client[v]
    BY <1>3, <1>t DEF L!DropExpired, L!Goto, L!local, L!TypeOK, Holds
  <2> QED
    BY <1>3, <2>1, <2>2, <2>3, Shrinking DEF L!DropExpired
<1>4. ASSUME NEW w \in Workers, L!RenderConfig(w) PROVE LinkInv'
  <2>1. L!TypeOK' /\ L!NoOrphanLink'
    BY <1>4, <1>t DEF L!RenderConfig, L!Goto, L!local, L!TypeOK, L!NoOrphanLink
  <2>2. \A d \in Clients, k \in L!Token : Carries(d, k)' => Carries(d, k)
    BY <1>4 DEF L!RenderConfig, Carries
  <2>3. \A v \in Workers, k \in L!Token :
          Holds(v, k)' => Holds(v, k) /\ client'[v] = client[v]
    BY <1>4, <1>t DEF L!RenderConfig, L!Goto, L!local, L!TypeOK, Holds
  <2> QED
    BY <1>4, <2>1, <2>2, <2>3, Shrinking DEF L!RenderConfig
<1>5. ASSUME NEW c \in Clients, L!DeleteClient(c) PROVE LinkInv'
  <2>1. L!TypeOK' /\ L!NoOrphanLink'
    BY <1>5, <1>t DEF L!DeleteClient, L!local, L!TypeOK, L!NoOrphanLink
  <2>2. \A d \in Clients, k \in L!Token : Carries(d, k)' => Carries(d, k)
    BY <1>5, <1>t DEF L!DeleteClient, Carries, L!TypeOK
  <2>3. \A v \in Workers, k \in L!Token :
          Holds(v, k)' => Holds(v, k) /\ client'[v] = client[v]
    BY <1>5 DEF L!DeleteClient, L!local, Holds
  <2> QED
    BY <1>5, <2>1, <2>2, <2>3, Shrinking DEF L!DeleteClient
<1>6. ASSUME NEW c \in Clients, L!Expire(c) PROVE LinkInv'
  <2> DEFINE link == [links[c] EXCEPT !.expired = TRUE]
  <2>1. links[c] \in L!Link /\ links' = [links EXCEPT ![c] = link]
    BY <1>6, <1>t DEF L!Expire, L!TypeOK
  <2>2. link \in L!Link /\ link.token = links[c].token
    BY <2>1 DEF L!Link
  <2> HIDE DEF link
  <2>3. links' \in [Clients -> L!Link \union {NoLink}]
    BY <2>1, <2>2, <1>t DEF L!TypeOK
  <2>4. L!TypeOK' /\ L!NoOrphanLink'
    BY <1>6, <2>1, <2>3, <1>t DEF L!Expire, L!local, L!TypeOK, L!NoOrphanLink
  <2>5. \A d \in Clients, k \in L!Token : Carries(d, k)' => Carries(d, k)
    BY <1>6, <1>t, <2>1, <2>2 DEF L!Expire, Carries, L!TypeOK
  <2>6. \A v \in Workers, k \in L!Token :
          Holds(v, k)' => Holds(v, k) /\ client'[v] = client[v]
    BY <1>6 DEF L!Expire, L!local, Holds
  <2> QED
    BY <1>6, <2>4, <2>5, <2>6, Shrinking DEF L!Expire
<1> QED
  BY <1>1, <1>2, <1>3, <1>4, <1>5, <1>6, InsertKeeps, LookupKeeps, ServeKeeps DEF L!Next, L!Handle

\* The steps of MCParts are those of OneTimeLink, or leave it alone.
LEMMA LinkParts ==
  LinkAssumption /\ LinkInv /\ [PartsNext]_<<part, storeVars, linkVars, vars>> => LinkInv'
<1> SUFFICES ASSUME LinkAssumption, LinkInv,
                    [PartsNext]_<<part, storeVars, linkVars, vars>>
             PROVE  [L!Next]_(L!vars)
  BY LinkStep
<1> QED
  BY DEF PartsNext, linkVars, L!vars

(***************************************************************************)
(* "ON DELETE CASCADE" and the foreign key (db.rs): whatever generate and  *)
(* delete interleave, no row is left whose token would render the          *)
(* configuration of a client that is gone.                                 *)
(***************************************************************************)
THEOREM NoOrphanLinkEver == LinkAssumption => (PartsSpec => []NoOrphanLink)
<1> SUFFICES ASSUME LinkAssumption PROVE PartsSpec => []NoOrphanLink
  OBVIOUS
<1>1. PartsInit => LinkInv
  BY LinkInit DEF PartsInit
<1>2. LinkInv => NoOrphanLink
  BY DEF LinkInv, NoOrphanLink
<1> QED
  BY <1>1, <1>2, LinkParts, PTL DEF PartsSpec

(***************************************************************************)
(* The lookup and the deletion of GET /cnf/:oneTimeLink are two database   *)
(* calls (routes.rs:90-135): a token is worth at most one configuration    *)
(* for each thread the server runs.                                        *)
(***************************************************************************)
THEOREM UsesBoundedEver == LinkAssumption => (PartsSpec => []UsesBounded)
<1> SUFFICES ASSUME LinkAssumption PROVE PartsSpec => []UsesBounded
  OBVIOUS
<1>1. PartsInit => LinkInv
  BY LinkInit DEF PartsInit
<1>2. LinkInv => UsesBounded
  <2> SUFFICES ASSUME LinkInv, NEW k \in L!Token PROVE served[k] <= Cardinality(Workers)
    BY CardinalityFact DEF UsesBounded, L!UsesBounded
  <2>1. served[k] \in Nat /\ served[k] + Cardinality(Holders(k)) <= Cardinality(Workers)
    BY DEF LinkInv, L!TypeOK, Counted
  <2> QED
    BY <2>1, HoldersFact
<1> QED
  BY <1>1, <1>2, LinkParts, PTL DEF PartsSpec

-----------------------------------------------------------------------------
(***************************************************************************)
(* 3. The firewall.                                                        *)
(***************************************************************************)
(***************************************************************************)
(* The firewall: what is true between two nft calls when one task at a     *)
(* time is inside rebuild_rules, a restart or startup.                     *)
(***************************************************************************)
DnsOnPc  == {"dns.ensure", "dns.list", "dns.jump", "dns.apply"}
DnsOffPc == {"dns.unjump", "dns.drop"}
FwOnPc   == {"clients.init", "clients.list", "clients.jump", "clients.read", "clients.apply"}
FwOffPc  == {"clients.flush", "clients.unjump"}
UpPc     == {"up", "up.proxy"}
WaitPc   == {"idle", "check", "rebuild", "restart", "lock", "reconcile", "relock"}

RebuildPc == DnsOnPc \union DnsOffPc \union FwOnPc \union FwOffPc

Pending(Q) == \E u \in Tasks : pc[u] \in Q

Jumps == {fwd[i] : i \in DOMAIN fwd}

Wiped == fwd = <<>> /\ filter = NoFilter /\ nat = "absent" /\ ~clients.drop

SameRules(r, s) == r.fw = s.fw /\ r.dns = s.dns /\ r.target = s.target /\ r.strict = s.strict

\* What the DNS half of a rebuild leaves, and what the client half leaves.
DnsState(r) ==
  IF DnsOn(r)
  THEN /\ "dns" \in Jumps /\ nat = r.target
       /\ filter = [mode |-> IF r.strict THEN "strict" ELSE "guard", target |-> r.target]
  ELSE "dns" \notin Jumps /\ filter = NoFilter /\ nat = "absent"

ClientsState == "in" \in Jumps /\ clients.drop /\ clients.grants = enabled

FirewallShape ==
  /\ row \in Row /\ enabled \subseteq Clients
  /\ fwd \in Seq(Jump)
  /\ clients \in [chain : BOOLEAN, grants : SUBSET Clients, drop : BOOLEAN]
  /\ filter \in [mode : {"absent", "empty", "guard", "strict"}, target : Family \union {"none"}]
  /\ nat \in Family \union {"absent", "empty"}
  /\ wiped \in {"no", "restart", "reconcile"}
  /\ pc \in [Tasks -> WaitPc \union RebuildPc \union UpPc]
  /\ copy \in [Tasks -> Row] /\ list \in [Tasks -> SUBSET (Clients \union Jump)]

Alone == \A t, u \in Tasks : pc[t] \notin WaitPc /\ pc[u] \notin WaitPc => t = u

\* Startup has ended before the first request; until its `up` there is no table.
Boot ==
  /\ pc[Main] # "idle" => \A w \in Workers : pc[w] = "idle"
  /\ pc[Main] \in {"lock", "restart"} => Wiped /\ wiped = "restart"

ChainThere == clients.chain \/ pc[Main] \in {"lock", "restart"} \/ Pending(UpPc)

\* The interface row a rebuild works with is the present one, or another
\* rebuild is to come; and how far the rebuild has got.
Progress(t) ==
  LET l == pc[t]  r == copy[t] IN
  /\ l \in RebuildPc => SameRules(r, row) \/ Pending({"rebuild"})
  /\ l \in DnsOnPc => DnsOn(r)
  /\ l \in DnsOffPc => ~DnsOn(r)
  /\ l \in FwOnPc => r.fw
  /\ l \in FwOffPc => ~r.fw
  /\ l = "dns.drop" => "dns" \notin Jumps
  /\ l \in {"dns.list", "dns.jump", "dns.apply"} => filter # NoFilter /\ nat # "absent"
  /\ l = "dns.apply" => "dns" \in Jumps
  /\ l \in FwOnPc \union FwOffPc => DnsState(r)
  /\ l \in {"dns.jump", "clients.jump"} => list[t] = Jumps
  /\ l = "clients.unjump" => ~clients.drop
  /\ l \in {"clients.read", "clients.apply"} => "in" \in Jumps
  /\ l = "clients.apply" =>
       /\ list[t] \subseteq Clients
       /\ row.fw => list[t] = enabled \/ Pending({"check", "rebuild"})
  /\ l \in UpPc => Wiped /\ wiped # "no"
  /\ l = "up.proxy" => wiped = "reconcile"

\* With nobody inside, the rules are those of the rows, or are to be rebuilt.
Calm ==
  (\A t \in Tasks : pc[t] \in WaitPc) =>
    IF wiped = "no"
    THEN /\ DnsState(row) \/ Pending({"rebuild"})
         /\ row.fw => ClientsState \/ Pending({"check", "rebuild"})
    ELSE Wiped

\* After a restart with the firewall on, somebody has a rebuild to do.
Due == row.fw /\ wiped = "restart" => \E u \in Tasks : pc[u] \notin {"idle", "relock"}

FirewallInv ==
  /\ FirewallShape /\ Alone /\ Boot /\ ChainThere
  /\ \A t \in Tasks : Progress(t)
  /\ Calm /\ Due

-----------------------------------------------------------------------------
(* What the calls do to the list of jumps. *)

\* A non-empty set of positions has a first one.
LEMMA NatMin ==
  ASSUME NEW Q \in SUBSET Nat, Q # {}
  PROVE  \E a \in Q : \A b \in Q : a <= b
<1>1. IsWellFoundedOn(OpToRel(<, Nat), Nat)
  BY NatLessThanWellFounded
<1>2. PICK x \in Q : \A y \in Q : ~ (<<y, x>> \in OpToRel(<, Nat))
  BY <1>1, WFMin
<1>3. ASSUME NEW y \in Q PROVE x <= y
  <2>1. x \in Nat /\ y \in Nat
    OBVIOUS
  <2>2. ~ (y < x)
    BY <1>2, <2>1 DEF OpToRel
  <2> QED
    BY <2>1, <2>2
<1> QED
  BY <1>3

\* Deleting by handle takes away the jumps of J and nothing else.
LEMMA DeleteFact ==
  ASSUME fwd \in Seq(Jump), NEW J, Delete(J)
  PROVE  fwd' \in Seq(Jump) /\ Jumps' = Jumps \ J
<1> DEFINE kept == {i \in DOMAIN fwd : fwd[i] \notin J}
<1>1. PICK pos \in [1..Cardinality(kept) -> kept] :
        /\ kept = {pos[n] : n \in DOMAIN pos}
        /\ fwd' = [n \in DOMAIN pos |-> fwd[pos[n]]]
  BY DEF Delete
<1>2. Cardinality(kept) \in Nat
  <2>1. IsFiniteSet(1..Len(fwd))
    BY FS_Interval
  <2>2. kept \subseteq 1..Len(fwd)
    OBVIOUS
  <2> QED
    BY <2>1, <2>2, FS_Subset, FS_CardinalityType
<1> HIDE DEF kept
<1>3. \A n \in 1..Cardinality(kept) : pos[n] \in DOMAIN fwd
  BY DEF kept
<1>4. \A n \in 1..Cardinality(kept) : fwd[pos[n]] \in Jump
  BY <1>3
<1>5. fwd' = [n \in 1..Cardinality(kept) |-> fwd[pos[n]]]
  BY <1>1
<1>6. fwd' \in Seq(Jump)
  BY <1>2, <1>4, <1>5
<1>7. Jumps' = {fwd[i] : i \in kept}
  <2>1. Jumps' = {fwd[pos[n]] : n \in 1..Cardinality(kept)}
    BY <1>5 DEF Jumps
  <2>2. ASSUME NEW i \in kept PROVE \E n \in 1..Cardinality(kept) : pos[n] = i
    BY <1>1
  <2> QED
    BY <2>1, <2>2
<1>8. {fwd[i] : i \in kept} = Jumps \ J
  BY DEF kept, Jumps
<1> QED
  BY <1>6, <1>7, <1>8

\* A rule is added at the end of chain forward.
LEMMA AddFact ==
  ASSUME fwd \in Seq(Jump), NEW s \in Seq(Jump), fwd' = fwd \o s
  PROVE  fwd' \in Seq(Jump) /\ Jumps' = Jumps \union {s[i] : i \in DOMAIN s}
<1>1. fwd' \in Seq(Jump) /\ Len(fwd') = Len(fwd) + Len(s)
  OBVIOUS
<1>2. \A i \in DOMAIN fwd : fwd'[i] = fwd[i] /\ i \in DOMAIN fwd'
  BY <1>1
<1>3. \A i \in DOMAIN s : fwd'[Len(fwd) + i] = s[i] /\ Len(fwd) + i \in DOMAIN fwd'
  BY <1>1
<1>4. \A i \in DOMAIN fwd' : \/ i \in DOMAIN fwd /\ fwd'[i] = fwd[i]
                             \/ i - Len(fwd) \in DOMAIN s /\ fwd'[i] = s[i - Len(fwd)]
  BY <1>1
<1>5. ASSUME NEW j PROVE j \in Jumps' <=> j \in Jumps \union {s[i] : i \in DOMAIN s}
  <2>1. (\E i \in DOMAIN fwd' : fwd'[i] = j)
          <=> (\E i \in DOMAIN fwd : fwd[i] = j) \/ (\E i \in DOMAIN s : s[i] = j)
    <3>1. ASSUME NEW i \in DOMAIN fwd', fwd'[i] = j
          PROVE  (\E k \in DOMAIN fwd : fwd[k] = j) \/ (\E k \in DOMAIN s : s[k] = j)
      BY <1>4, <3>1
    <3>2. ASSUME NEW i \in DOMAIN fwd, fwd[i] = j PROVE \E k \in DOMAIN fwd' : fwd'[k] = j
      BY <1>2, <3>2
    <3>3. ASSUME NEW i \in DOMAIN s, s[i] = j PROVE \E k \in DOMAIN fwd' : fwd'[k] = j
      BY <1>3, <3>3
    <3> QED
      BY <3>1, <3>2, <3>3
  <2> QED
    BY <2>1 DEF Jumps
<1> QED
  BY <1>1, <1>5

\* The jumps to wg-clients that a listing lacks, in order and once each.
Missing(listed) ==
  (IF "in" \in listed THEN <<>> ELSE <<"in">>) \o (IF "out" \in listed THEN <<>> ELSE <<"out">>)

LEMMA MissingFact ==
  ASSUME NEW listed
  PROVE  /\ Missing(listed) \in Seq(Jump)
         /\ {Missing(listed)[i] : i \in DOMAIN Missing(listed)} = {"in", "out"} \ listed
         /\ \A i, j \in DOMAIN Missing(listed) :
              Missing(listed)[i] = Missing(listed)[j] => i = j
<1>1. CASE "in" \in listed /\ "out" \in listed
  <2>1. Missing(listed) = <<>>
    BY <1>1 DEF Missing
  <2>2. Missing(listed) \in Seq(Jump) /\ DOMAIN Missing(listed) = {}
    BY <2>1
  <2>3. {Missing(listed)[i] : i \in DOMAIN Missing(listed)} = {}
    BY <2>2, Zenon
  <2>4. {"in", "out"} \ listed = {}
    BY <1>1, Zenon
  <2> QED
    BY <2>2, <2>3, <2>4
<1>2. CASE "in" \in listed /\ "out" \notin listed
  <2>1. Missing(listed) = <<"out">>
    BY <1>2 DEF Missing
  <2>2. <<"out">> \in Seq(Jump) /\ DOMAIN <<"out">> = {1} /\ <<"out">>[1] = "out"
    BY DEF Jump
  <2>3. Missing(listed) \in Seq(Jump) /\ DOMAIN Missing(listed) = {1} /\ Missing(listed)[1] = "out"
    BY <2>1, <2>2, Zenon
  <2> QED
    BY <1>2, <2>3
<1>3. CASE "in" \notin listed /\ "out" \in listed
  <2>1. Missing(listed) = <<"in">>
    BY <1>3 DEF Missing
  <2>2. <<"in">> \in Seq(Jump) /\ DOMAIN <<"in">> = {1} /\ <<"in">>[1] = "in"
    BY DEF Jump
  <2>3. Missing(listed) \in Seq(Jump) /\ DOMAIN Missing(listed) = {1} /\ Missing(listed)[1] = "in"
    BY <2>1, <2>2, Zenon
  <2> QED
    BY <1>3, <2>3
<1>4. CASE "in" \notin listed /\ "out" \notin listed
  <2>1. Missing(listed) = <<"in">> \o <<"out">>
    BY <1>4 DEF Missing
  <2>2. <<"in">> \in Seq(Jump) /\ <<"out">> \in Seq(Jump)
    BY DEF Jump
  <2>3. /\ Missing(listed) \in Seq(Jump) /\ Len(Missing(listed)) = 2
        /\ Missing(listed)[1] = "in" /\ Missing(listed)[2] = "out"
    BY <2>1, <2>2
  <2>4. DOMAIN Missing(listed) = {1, 2}
    BY <2>3
  <2> QED
    BY <1>4, <2>3, <2>4
<1> QED
  BY <1>1, <1>2, <1>3, <1>4

-----------------------------------------------------------------------------
(* One task at a time inside, and steps of the ones outside. *)

LEMMA NobodyInside ==
  ASSUME MaxNft = 1, MayTouch
  PROVE  \A t \in Tasks : pc[t] \in WaitPc
<1> DEFINE inside == {t \in Tasks : Touching(t)}
<1>1. IsFiniteSet(inside)
  <2>1. IsFiniteSet(Tasks)
    BY FirewallAssumption, FS_Singleton, FS_Union DEF Tasks
  <2> QED
    BY <2>1, FS_Subset
<1>2. Cardinality(inside) < 1
  BY DEF MayTouch
<1>3. inside = {}
  BY <1>1, <1>2, FS_CardinalityType, FS_EmptySet
<1> QED
  BY <1>3 DEF Touching, WaitPc

LEMMA FirewallInit == Init => FirewallInv
<1> SUFFICES ASSUME Init PROVE FirewallInv
  OBVIOUS
<1>1. NoRow \in Row
  BY FirewallAssumption DEF NoRow
<1>2. FirewallShape
  BY <1>1, FirewallAssumption
  DEF Init, FirewallShape, NoChain, NoFilter, WaitPc, RebuildPc, DnsOnPc, DnsOffPc,
      FwOnPc, FwOffPc, UpPc, Jump, Tasks, Family
<1>3. \A t \in Tasks : pc[t] = "idle" \/ (t = Main /\ pc[t] = "lock")
  BY DEF Init
<1>4. Wiped /\ wiped = "restart" /\ pc[Main] = "lock" /\ Main \in Tasks
  BY DEF Init, Wiped, NoChain, Tasks
<1>5. Alone
  BY <1>3 DEF Alone, WaitPc
<1>6. \A w \in Workers : pc[w] = "idle"
  BY <1>3, FirewallAssumption DEF Tasks
<1>7. Boot /\ ChainThere
  BY <1>4, <1>6 DEF Boot, ChainThere
<1>8. ASSUME NEW t \in Tasks PROVE Progress(t)
  BY <1>3 DEF Progress, RebuildPc, DnsOnPc, DnsOffPc, FwOnPc, FwOffPc, UpPc
<1>9. Calm /\ Due
  BY <1>4 DEF Calm, Due
<1> QED
  BY <1>2, <1>5, <1>7, <1>8, <1>9 DEF FirewallInv

\* A step from one wait to another: commits, the look at firewall_enabled, the
\* proxy's lockdown.
LEMMA WaitKeeps ==
  ASSUME FirewallInv, NEW t \in Tasks, NEW l \in WaitPc,
         pc[t] \in WaitPc, pc[t] # "rebuild", Goto(t, l),
         UNCHANGED <<fwd, clients, filter, nat, wiped>>,
         row' \in Row, enabled' \subseteq Clients,
         SameRules(row, row') \/ l = "rebuild",
         enabled' = enabled \/ l \in {"check", "rebuild"},
         pc[t] = "check" => l = "rebuild" \/ (~row.fw /\ row' = row),
         pc[t] = "idle" => t \in Workers /\ pc[Main] = "idle",
         t = Main => (l \in {"lock", "restart"} <=> pc[t] \in {"lock", "restart"}),
         l \in {"idle", "relock"} => row' = row /\ (pc[t] = "relock" \/ ~row.fw)
  PROVE  FirewallInv'
<1> USE DEF FirewallInv
<1>1. /\ pc' = [pc EXCEPT ![t] = l] /\ pc \in [Tasks -> WaitPc \union RebuildPc \union UpPc]
      /\ Main \in Tasks /\ Main \notin Workers
  BY FirewallAssumption DEF Goto, Move, FirewallShape, Tasks
<1>2. /\ copy' \in [Tasks -> Row] /\ list' \in [Tasks -> SUBSET (Clients \union Jump)]
      /\ \A u \in Tasks : u # t => copy'[u] = copy[u] /\ list'[u] = list[u]
  <2>1. NoRow \in Row
    BY FirewallAssumption DEF NoRow
  <2> QED
    BY <2>1 DEF Goto, FirewallShape
<1>3. \A u \in Tasks : u # t => pc'[u] = pc[u]
  BY <1>1
<1>4. pc'[t] = l
  BY <1>1
<1>5. FirewallShape'
  BY <1>1, <1>2 DEF FirewallShape
<1>6. Alone'
  BY <1>3, <1>4 DEF Alone
<1>7. Wiped' = Wiped /\ Jumps' = Jumps /\ (\A r : DnsState(r)' = DnsState(r))
  BY DEF Wiped, Jumps, DnsState
<1>8. Boot'
  <2>1. CASE t = Main
    BY <2>1, <1>1, <1>3, <1>4, <1>7 DEF Boot, Tasks
  <2>2. CASE t # Main
    BY <2>2, <1>1, <1>3, <1>4, <1>7 DEF Boot, Tasks
  <2> QED
    BY <2>1, <2>2
<1>9. ChainThere'
  <2>1. \A u \in Tasks : pc[u] \in UpPc => pc'[u] \in UpPc
    BY <1>3, <1>4 DEF UpPc, WaitPc
  <2>2. pc[Main] \in {"lock", "restart"} => pc'[Main] \in {"lock", "restart"}
    BY <1>1, <1>3, <1>4
  <2> QED
    BY <2>1, <2>2 DEF ChainThere, Pending
<1>10. Pending({"rebuild"}) => Pending({"rebuild"})'
  BY <1>3, <1>4 DEF Pending
<1>11. row'.fw /\ Pending({"check", "rebuild"}) => Pending({"check", "rebuild"})'
  <2>1. CASE pc[t] \notin {"check", "rebuild"}
    BY <2>1, <1>3, <1>4 DEF Pending
  <2>2. CASE pc[t] = "check" /\ l = "rebuild"
    BY <2>2, <1>4 DEF Pending
  <2>3. CASE pc[t] = "check" /\ ~row.fw /\ row' = row
    BY <2>3
  <2> QED
    BY <2>1, <2>2, <2>3
<1>12. SameRules(row, row') \/ Pending({"rebuild"})'
  BY <1>4 DEF Pending
<1>13. enabled' = enabled \/ Pending({"check", "rebuild"})'
  BY <1>4 DEF Pending
<1>14. Pending({"rebuild"})' => Pending({"check", "rebuild"})'
  BY DEF Pending
<1>15. ASSUME NEW u \in Tasks PROVE Progress(u)'
  <2>1. CASE u = t
    BY <2>1, <1>4 DEF Progress, WaitPc, RebuildPc, DnsOnPc, DnsOffPc, FwOnPc, FwOffPc, UpPc
  <2>2. CASE u # t
    <3>1. /\ pc'[u] = pc[u] /\ copy'[u] = copy[u] /\ list'[u] = list[u]
          /\ filter' = filter /\ nat' = nat /\ clients' = clients /\ wiped' = wiped
      BY <2>2, <1>2, <1>3
    <3>2. SameRules(copy[u], row) \/ Pending({"rebuild"})
            => SameRules(copy[u], row') \/ Pending({"rebuild"})'
      BY <1>10, <1>12 DEF SameRules
    <3>3. ASSUME row.fw => list[u] = enabled \/ Pending({"check", "rebuild"})
          PROVE  row'.fw => list[u] = enabled' \/ Pending({"check", "rebuild"})'
      BY <3>3, <1>11, <1>12, <1>13, <1>14 DEF SameRules
    <3>4. Progress(u)
      OBVIOUS
    <3> QED
      BY <3>1, <3>2, <3>3, <3>4, <1>7 DEF Progress
  <2> QED
    BY <2>1, <2>2
<1>16. Calm'
  <2> SUFFICES ASSUME \A u \in Tasks : pc'[u] \in WaitPc
               PROVE  IF wiped = "no"
                      THEN /\ DnsState(row)' \/ Pending({"rebuild"})'
                           /\ row'.fw => ClientsState' \/ Pending({"check", "rebuild"})'
                      ELSE Wiped
    BY <1>7 DEF Calm
  <2>1. \A u \in Tasks : pc[u] \in WaitPc
    BY <1>3
  <2>2. CASE wiped # "no"
    BY <2>1, <2>2 DEF Calm
  <2>3. CASE wiped = "no"
    <3>1. /\ DnsState(row) \/ Pending({"rebuild"})
          /\ row.fw => ClientsState \/ Pending({"check", "rebuild"})
      BY <2>1, <2>3 DEF Calm
    <3>2. DnsState(row)' \/ Pending({"rebuild"})'
      BY <3>1, <1>7, <1>10, <1>12 DEF DnsState, DnsOn, SameRules, Jumps
    <3>3. row'.fw => ClientsState' \/ Pending({"check", "rebuild"})'
      BY <3>1, <1>7, <1>11, <1>12, <1>13, <1>14 DEF ClientsState, SameRules
    <3> QED
      BY <2>3, <3>2, <3>3
  <2> QED
    BY <2>2, <2>3
<1>17. Due'
  <2>1. CASE l \notin {"idle", "relock"}
    BY <2>1, <1>4 DEF Due
  <2>2. CASE l \in {"idle", "relock"}
    BY <2>2, <1>3, <1>4 DEF Due
  <2> QED
    BY <2>1, <2>2
<1> QED
  BY <1>5, <1>6, <1>8, <1>9, <1>15, <1>16, <1>17
-----------------------------------------------------------------------------
(* Steps of the one inside. *)

LEMMA InsideAlone ==
  ASSUME FirewallInv, NEW t \in Tasks, pc[t] \notin WaitPc
  PROVE  /\ \A u \in Tasks : u # t => pc[u] \in WaitPc
         /\ pc[Main] \notin {"lock", "restart"}
         /\ pc[t] \notin UpPc => clients.chain
<1>1. \A u \in Tasks : u # t => pc[u] \in WaitPc
  BY DEF FirewallInv, Alone
<1>2. pc[Main] \notin {"lock", "restart"}
  <2>1. SUFFICES ASSUME pc[Main] \in {"lock", "restart"} PROVE FALSE
    OBVIOUS
  <2>2. \A w \in Workers : pc[w] = "idle"
    BY <2>1 DEF FirewallInv, Boot
  <2> QED
    BY <2>1, <2>2 DEF Tasks, WaitPc
<1>3. pc[t] \notin UpPc => clients.chain
  BY <1>1, <1>2 DEF FirewallInv, ChainThere, Pending, UpPc, WaitPc
<1> QED
  BY <1>1, <1>2, <1>3

\* It goes on, or enters, with the tables changed.
LEMMA InsideKeeps ==
  ASSUME FirewallInv, NEW t \in Tasks, NEW l \in RebuildPc,
         \A u \in Tasks : u # t => pc[u] \in WaitPc,
         pc[Main] \notin {"lock", "restart"},
         pc[t] = "idle" => FALSE,
         Move(t, l), UNCHANGED <<row, enabled, wiped>>,
         copy' \in [Tasks -> Row],
         list' \in [Tasks -> SUBSET (Clients \union Jump)],
         fwd' \in Seq(Jump),
         clients' \in [chain : BOOLEAN, grants : SUBSET Clients, drop : BOOLEAN],
         filter' \in [mode : {"absent", "empty", "guard", "strict"},
                      target : Family \union {"none"}],
         nat' \in Family \union {"absent", "empty"},
         clients'.chain,
         Progress(t)'
  PROVE  FirewallInv'
<1>1. /\ pc' = [pc EXCEPT ![t] = l] /\ pc \in [Tasks -> WaitPc \union RebuildPc \union UpPc]
      /\ Main \in Tasks /\ Main \notin Workers
  BY FirewallAssumption DEF Move, FirewallInv, FirewallShape, Tasks
<1>2. \A u \in Tasks : u # t => pc'[u] = pc[u]
  BY <1>1
<1>3. pc'[t] = l /\ l \notin WaitPc /\ l \notin UpPc
  BY <1>1 DEF RebuildPc, WaitPc, UpPc, DnsOnPc, DnsOffPc, FwOnPc, FwOffPc
<1>4. FirewallShape'
  BY <1>1 DEF FirewallInv, FirewallShape
<1>5. Alone'
  BY <1>2, <1>3 DEF Alone
<1>6. Boot'
  <2>1. CASE t = Main
    <3>1. \A w \in Workers : pc'[w] = "idle"
      BY <2>1, <1>1, <1>2 DEF FirewallInv, Boot, Tasks
    <3> QED
      BY <2>1, <3>1, <1>3 DEF Boot, WaitPc
  <2>2. CASE t # Main
    <3>1. pc[Main] = "idle"
      BY <2>2 DEF FirewallInv, Boot, Tasks
    <3> QED
      BY <3>1, <2>2, <1>1, <1>2 DEF Boot
  <2> QED
    BY <2>1, <2>2
<1>7. ChainThere'
  BY DEF ChainThere
<1>8. ASSUME NEW u \in Tasks, u # t PROVE Progress(u)'
  <2>1. pc'[u] \in WaitPc
    BY <1>2, <1>8
  <2> QED
    BY <2>1 DEF Progress, WaitPc, RebuildPc, DnsOnPc, DnsOffPc, FwOnPc, FwOffPc, UpPc
<1>9. Calm' /\ Due'
  BY <1>3 DEF Calm, Due, WaitPc
<1> QED
  BY <1>4, <1>5, <1>6, <1>7, <1>8, <1>9 DEF FirewallInv

\* The end of a rebuild: the rules are those of the rows it has read.
LEMMA LeavesKeeps ==
  ASSUME FirewallInv, NEW t \in Tasks, NEW r, r = copy[t], pc[t] \in RebuildPc, Finish(t),
         UNCHANGED <<row, enabled>>,
         fwd' \in Seq(Jump),
         clients' \in [chain : BOOLEAN, grants : SUBSET Clients, drop : BOOLEAN],
         UNCHANGED <<filter, nat>>,
         clients'.chain, wiped' = "no",
         DnsState(r)',
         row.fw => ClientsState' \/ Pending({"check", "rebuild"})
  PROVE  FirewallInv'
<1> DEFINE l == IF t = Main THEN "relock" ELSE "idle"
<1>0. pc[t] \notin WaitPc /\ pc[t] \notin {"idle", "check", "rebuild"} /\ pc[t] \notin UpPc
  BY DEF WaitPc, UpPc, RebuildPc, DnsOnPc, DnsOffPc, FwOnPc, FwOffPc
<1>1. /\ pc' = [pc EXCEPT ![t] = l] /\ pc \in [Tasks -> WaitPc \union RebuildPc \union UpPc]
      /\ Main \in Tasks /\ Main \notin Workers
      /\ copy' = [copy EXCEPT ![t] = NoRow] /\ list' = [list EXCEPT ![t] = {}]
  BY FirewallAssumption DEF Finish, Goto, Move, FirewallInv, FirewallShape, Tasks
<1>2. \A u \in Tasks : u # t => pc'[u] = pc[u] /\ pc[u] \in WaitPc
  BY <1>0, <1>1, InsideAlone
<1>3. pc'[t] = l /\ l \in {"idle", "relock"}
  BY <1>1
<1>4. FirewallShape'
  <2>1. NoRow \in Row
    BY FirewallAssumption DEF NoRow
  <2> QED
    BY <2>1, <1>1, <1>3 DEF FirewallInv, FirewallShape, WaitPc
<1>5. Alone'
  BY <1>2, <1>3 DEF Alone, WaitPc
<1>6. Boot'
  <2>1. CASE t = Main
    <3>1. \A w \in Workers : pc'[w] = "idle"
      BY <2>1, <1>0, <1>1, <1>2 DEF FirewallInv, Boot, Tasks
    <3> QED
      BY <2>1, <3>1, <1>3 DEF Boot
  <2>2. CASE t # Main
    <3>1. pc[Main] = "idle"
      BY <2>2, <1>0 DEF FirewallInv, Boot, Tasks
    <3> QED
      BY <3>1, <2>2, <1>1, <1>2 DEF Boot
  <2> QED
    BY <2>1, <2>2
<1>7. ChainThere'
  BY DEF ChainThere
<1>8. ASSUME NEW u \in Tasks PROVE Progress(u)'
  <2>1. pc'[u] \in WaitPc
    BY <1>2, <1>3 DEF WaitPc
  <2> QED
    BY <2>1 DEF Progress, WaitPc, RebuildPc, DnsOnPc, DnsOffPc, FwOnPc, FwOffPc, UpPc
<1>9. /\ Pending({"rebuild"}) => Pending({"rebuild"})'
      /\ Pending({"check", "rebuild"}) => Pending({"check", "rebuild"})'
  BY <1>0, <1>2 DEF Pending
<1>10. DnsState(row)' \/ Pending({"rebuild"})'
  <2>1. SameRules(r, row') \/ Pending({"rebuild"})
    BY DEF FirewallInv, Progress
  <2>2. SameRules(r, row') => (DnsState(r)' <=> DnsState(row)')
    BY DEF DnsState, DnsOn, SameRules
  <2> QED
    BY <2>1, <2>2, <1>9
<1>11. Calm' /\ Due'
  BY <1>9, <1>10 DEF Calm, Due
<1> QED
  BY <1>4, <1>5, <1>6, <1>7, <1>8, <1>11 DEF FirewallInv
-----------------------------------------------------------------------------
(* The actions. *)

LEMMA HandleKeeps ==
  ASSUME FirewallInv, NEW t \in Workers, Handle(t)
  PROVE  FirewallInv'
<1>0. /\ t \in Tasks /\ t # Main /\ row \in Row /\ enabled \subseteq Clients
      /\ SameRules(row, row)
      /\ {"check", "rebuild", "lock", "restart"} \subseteq WaitPc
  BY FirewallAssumption DEF Tasks, FirewallInv, FirewallShape, WaitPc, SameRules
<1>1. /\ pc[t] = "idle" /\ pc[t] \in WaitPc /\ pc[Main] = "idle"
  BY DEF Handle, ClientCommit, UpdateInterface, UpdateProxy, RestartInterface, Arrives,
         Serving, At, WaitPc
<1>2. ASSUME NEW c \in Clients, ClientCommit(t, c) PROVE FirewallInv'
  BY <1>0, <1>1, <1>2, WaitKeeps DEF ClientCommit, rules
<1>3. ASSUME NEW r \in Rows, UpdateInterface(t, r) PROVE FirewallInv'
  <2>1. row' \in Row
    BY <1>0, <1>3, FirewallAssumption DEF UpdateInterface, Row
  <2> QED
    BY <2>1, <1>0, <1>1, <1>3, WaitKeeps DEF UpdateInterface, rules
<1>4. ASSUME NEW on \in BOOLEAN, UpdateProxy(t, on) PROVE FirewallInv'
  <2>1. row' \in Row /\ SameRules(row, row')
    BY <1>0, <1>4 DEF UpdateProxy, Row, SameRules
  <2> QED
    BY <2>1, <1>0, <1>1, <1>4, WaitKeeps DEF UpdateProxy, rules
<1>5. ASSUME RestartInterface(t) PROVE FirewallInv'
  BY <1>0, <1>1, <1>5, WaitKeeps DEF RestartInterface, rules, db
<1> QED
  BY <1>2, <1>3, <1>4, <1>5 DEF Handle

LEMMA LookKeeps ==
  ASSUME FirewallInv, NEW t \in Tasks, CheckFirewall(t) \/ ApplyLockdown(t)
  PROVE  FirewallInv'
<1>0. /\ row \in Row /\ enabled \subseteq Clients /\ SameRules(row, row)
      /\ {"idle", "rebuild", "relock", "restart", "reconcile"} \subseteq WaitPc
  BY DEF FirewallInv, FirewallShape, WaitPc, SameRules
<1>1. CASE CheckFirewall(t)
  <2> DEFINE l == IF row.fw THEN "rebuild" ELSE IF t = Main THEN "relock" ELSE "idle"
  <2>1. /\ pc[t] = "check" /\ pc[t] \in WaitPc /\ Goto(t, l) /\ l \in WaitPc
        /\ UNCHANGED <<row, enabled, fwd, clients, filter, nat, wiped>>
    BY <1>0, <1>1 DEF CheckFirewall, At, WaitPc, db, rules
  <2> QED
    BY <2>1, <1>0, WaitKeeps
<1>2. CASE ApplyLockdown(t)
  <2> DEFINE l == IF At(t, "relock") THEN "idle" ELSE IF t = Main THEN "restart" ELSE "reconcile"
  <2>1. /\ pc[t] \in {"lock", "relock"} /\ pc[t] \in WaitPc /\ Goto(t, l) /\ l \in WaitPc
        /\ UNCHANGED <<row, enabled, fwd, clients, filter, nat, wiped>>
    BY <1>0, <1>2 DEF ApplyLockdown, At, WaitPc, db, dns
  <2> QED
    BY <2>1, <1>0, WaitKeeps DEF At
<1> QED
  BY <1>1, <1>2

LEMMA RestartKeeps ==
  ASSUME MaxNft = 1, FirewallInv, NEW t \in Tasks, RestartDown(t) \/ RestartUp(t)
  PROVE  FirewallInv'
<1>0. /\ pc \in [Tasks -> WaitPc \union RebuildPc \union UpPc]
      /\ Main \in Tasks /\ Main \notin Workers /\ pc[t] # "idle"
  BY FirewallAssumption
  DEF FirewallInv, FirewallShape, Tasks, RestartDown, RestartUp
<1>1. CASE RestartDown(t)
  <2> DEFINE l == IF At(t, "restart") THEN "up" ELSE "up.proxy"
  <2>1. /\ pc' = [pc EXCEPT ![t] = l] /\ UNCHANGED <<row, enabled, copy, list>>
        /\ fwd' = <<>> /\ clients' = NoChain /\ filter' = NoFilter /\ nat' = "absent"
        /\ wiped' = pc[t] /\ pc[t] \in {"restart", "reconcile"}
    BY <1>1 DEF RestartDown, Goto, Move, db
  <2>2. \A u \in Tasks : u # t => pc'[u] = pc[u] /\ pc[u] \in WaitPc
    BY <1>1, <2>1, NobodyInside DEF RestartDown
  <2>3. pc'[t] = l /\ l \in UpPc /\ l \notin WaitPc /\ l \notin RebuildPc
    BY <1>0, <2>1 DEF UpPc, WaitPc, RebuildPc, DnsOnPc, DnsOffPc, FwOnPc, FwOffPc
  <2>4. FirewallShape' /\ Wiped'
    BY <1>0, <2>1, <2>3
    DEF FirewallInv, FirewallShape, Wiped, NoChain, NoFilter, Family, UpPc
  <2>5. Alone'
    BY <2>2, <2>3 DEF Alone
  <2>6. Boot'
    <3>1. CASE t = Main
      BY <3>1, <1>0, <2>2, <2>3, <2>4 DEF FirewallInv, Boot, Tasks, UpPc
    <3>2. CASE t # Main
      <4>1. pc[Main] = "idle"
        BY <1>0, <3>2 DEF FirewallInv, Boot, Tasks
      <4> QED
        BY <4>1, <3>2, <1>0, <2>2 DEF Boot
    <3> QED
      BY <3>1, <3>2
  <2>7. ChainThere'
    BY <2>3 DEF ChainThere, Pending
  <2>8. ASSUME NEW u \in Tasks PROVE Progress(u)'
    BY <2>1, <2>2, <2>3, <2>4
    DEF At, Progress, WaitPc, RebuildPc, DnsOnPc, DnsOffPc, FwOnPc, FwOffPc, UpPc
  <2>9. Calm' /\ Due'
    BY <2>3 DEF Calm, Due, WaitPc
  <2> QED
    BY <2>4, <2>5, <2>6, <2>7, <2>8, <2>9 DEF FirewallInv
<1>2. CASE RestartUp(t)
  <2> DEFINE l == IF At(t, "up") THEN "check" ELSE "idle"
  <2>1. /\ pc' = [pc EXCEPT ![t] = l] /\ UNCHANGED <<row, enabled, fwd, filter, nat, wiped>>
        /\ clients' = [clients EXCEPT !.chain = TRUE]
        /\ pc[t] \in {"up", "up.proxy"} /\ pc[t] \notin WaitPc
    BY <1>2 DEF RestartUp, Goto, Move, db, dns, WaitPc
  <2>2. \A u \in Tasks : u # t => pc'[u] = pc[u] /\ pc[u] \in WaitPc
    BY <2>1, InsideAlone
  <2>3. pc'[t] = l /\ l \in WaitPc
    BY <1>0, <2>1 DEF WaitPc
  <2>4. FirewallShape'
    <3>1. /\ copy' \in [Tasks -> Row] /\ list' \in [Tasks -> SUBSET (Clients \union Jump)]
      <4>1. NoRow \in Row
        BY FirewallAssumption DEF NoRow
      <4>2. /\ copy' \in {copy, [copy EXCEPT ![t] = NoRow]}
            /\ list' \in {list, [list EXCEPT ![t] = {}]}
        BY <1>2 DEF RestartUp, Goto
      <4> QED
        BY <4>1, <4>2 DEF FirewallInv, FirewallShape
    <3> QED
      BY <3>1, <1>0, <2>1, <2>3 DEF FirewallInv, FirewallShape
  <2>5. Alone'
    BY <2>2, <2>3 DEF Alone
  <2>6. Boot'
    <3>1. CASE t = Main
      BY <3>1, <1>0, <2>2, <2>3 DEF FirewallInv, Boot, Tasks
    <3>2. CASE t # Main
      <4>1. pc[Main] = "idle"
        BY <1>0, <3>2 DEF FirewallInv, Boot, Tasks
      <4> QED
        BY <4>1, <3>2, <1>0, <2>2 DEF Boot
    <3> QED
      BY <3>1, <3>2
  <2>7. ChainThere'
    BY <2>1 DEF ChainThere, FirewallInv, FirewallShape
  <2>8. ASSUME NEW u \in Tasks PROVE Progress(u)'
    <3>1. pc'[u] \in WaitPc
      BY <2>2, <2>3
    <3> QED
      BY <3>1 DEF Progress, WaitPc, RebuildPc, DnsOnPc, DnsOffPc, FwOnPc, FwOffPc, UpPc
  <2>9. Wiped /\ wiped # "no"
    BY <2>1 DEF FirewallInv, Progress, UpPc
  <2>10. Calm'
    BY <2>1, <2>9 DEF Calm, Wiped, FirewallInv, FirewallShape
  <2>11. Due'
    <3>1. CASE l = "check"
      BY <3>1, <2>3 DEF Due
    <3>2. CASE pc[t] = "up.proxy"
      <4>1. wiped = "reconcile"
        BY <3>2 DEF FirewallInv, Progress
      <4> QED
        BY <4>1, <2>1 DEF Due
    <3> QED
      BY <3>1, <3>2, <2>1 DEF At
  <2> QED
    BY <2>4, <2>5, <2>6, <2>7, <2>8, <2>10, <2>11 DEF FirewallInv
<1> QED
  BY <1>1, <1>2
\* What every step inside rebuild_rules may rely on.
LEMMA Inside ==
  ASSUME FirewallInv, NEW t \in Tasks, pc[t] \in RebuildPc
  PROVE  /\ \A u \in Tasks : u # t => pc[u] \in WaitPc
         /\ pc[Main] \notin {"lock", "restart"} /\ pc[t] # "idle"
         /\ clients.chain /\ Progress(t) /\ FirewallShape
<1>1. pc[t] \notin WaitPc /\ pc[t] \notin UpPc
  BY DEF WaitPc, UpPc, RebuildPc, DnsOnPc, DnsOffPc, FwOnPc, FwOffPc
<1> QED
  BY <1>1, InsideAlone DEF WaitPc, FirewallInv

\* The work still to come is still to come after a step inside.
LEMMA PendingKept ==
  ASSUME FirewallInv, NEW t \in Tasks, pc[t] \in RebuildPc, NEW l, Move(t, l)
  PROVE  /\ Pending({"rebuild"}) => Pending({"rebuild"})'
         /\ Pending({"check", "rebuild"}) => Pending({"check", "rebuild"})'
         /\ pc'[t] = l
<1>1. pc[t] \notin {"check", "rebuild"}
  BY DEF RebuildPc, DnsOnPc, DnsOffPc, FwOnPc, FwOffPc
<1>2. pc'[t] = l /\ \A u \in Tasks : u # t => pc'[u] = pc[u]
  BY DEF Move, FirewallInv, FirewallShape
<1> QED
  BY <1>1, <1>2 DEF Pending

LEMMA RebuildReadKeeps ==
  ASSUME MaxNft = 1, FirewallInv, NEW t \in Tasks, RebuildRead(t)
  PROVE  FirewallInv'
<1> DEFINE l == IF DnsOn(row) THEN "dns.ensure" ELSE "dns.unjump"
<1>1. /\ pc[t] = "rebuild" /\ Move(t, l) /\ copy' = [copy EXCEPT ![t] = row]
      /\ UNCHANGED <<row, enabled, fwd, clients, filter, nat, wiped, list>>
  BY DEF RebuildRead, At, db, rules
<1>2. FirewallShape /\ \A u \in Tasks : pc[u] \in WaitPc
  BY NobodyInside DEF RebuildRead, FirewallInv
<1>3. pc[Main] \notin {"lock", "restart"}
  BY <1>1 DEF FirewallInv, Boot, Tasks
<1>4. clients.chain
  BY <1>2, <1>3 DEF FirewallInv, ChainThere, Pending, UpPc, WaitPc
<1>5. pc'[t] = l /\ copy'[t] = row /\ l \in RebuildPc
  BY <1>1, <1>2
  DEF Move, FirewallShape, RebuildPc, DnsOnPc, DnsOffPc, FwOnPc, FwOffPc
<1>6. Progress(t)'
  BY <1>1, <1>5 DEF Progress, SameRules, RebuildPc, DnsOnPc, DnsOffPc, FwOnPc, FwOffPc, UpPc
<1>7. copy' \in [Tasks -> Row]
  BY <1>1, <1>2 DEF FirewallShape
<1> QED
  BY <1>1, <1>2, <1>3, <1>4, <1>5, <1>6, <1>7, InsideKeeps DEF FirewallShape

LEMMA DnsOffKeeps ==
  ASSUME FirewallInv, NEW t \in Tasks, DnsUnjump(t) \/ DnsDrop(t)
  PROVE  FirewallInv'
<1>0. pc[t] \in RebuildPc
  BY DEF DnsUnjump, DnsDrop, At, RebuildPc, DnsOffPc
<1>1. /\ \A u \in Tasks : u # t => pc[u] \in WaitPc
      /\ pc[Main] \notin {"lock", "restart"} /\ pc[t] # "idle"
      /\ clients.chain /\ Progress(t) /\ FirewallShape
  BY <1>0, Inside
<1>2. CASE DnsUnjump(t)
  <2>1. /\ pc[t] = "dns.unjump" /\ Move(t, "dns.drop") /\ Delete({"dns"})
        /\ UNCHANGED <<row, enabled, clients, filter, nat, wiped, copy, list>>
    BY <1>2 DEF DnsUnjump, At, Goto, db, dns
  <2>2. fwd' \in Seq(Jump) /\ "dns" \notin Jumps'
    BY <1>1, <2>1, DeleteFact DEF FirewallShape
  <2>3. Progress(t)'
    BY <1>0, <1>1, <2>1, <2>2, PendingKept
    DEF Progress, RebuildPc, DnsOnPc, DnsOffPc, FwOnPc, FwOffPc, UpPc
  <2>4. "dns.drop" \in RebuildPc
    BY DEF RebuildPc, DnsOffPc
  <2> QED
    BY <1>1, <2>1, <2>2, <2>3, <2>4, InsideKeeps DEF FirewallShape
<1>3. CASE DnsDrop(t)
  <2> DEFINE l == IF copy[t].fw THEN "clients.init" ELSE "clients.flush"
  <2>1. /\ pc[t] = "dns.drop" /\ Move(t, l) /\ nat' = "absent"
        /\ filter' = [NoFilter EXCEPT
             !.mode = IF \E i \in DOMAIN fwd : fwd[i] = "dns" /\ filter # NoFilter
                      THEN "empty" ELSE "absent"]
        /\ UNCHANGED <<row, enabled, fwd, clients, wiped, copy, list>>
    BY <1>3 DEF DnsDrop, At, Goto, ClientsFirst, db
  <2>2. "dns" \notin Jumps
    BY <1>1, <2>1 DEF Progress
  <2>3. filter' = NoFilter
    BY <2>1, <2>2 DEF Jumps, NoFilter
  <2>4. l \in RebuildPc /\ l \in FwOnPc \union FwOffPc /\ l \in {"clients.init", "clients.flush"}
    BY DEF RebuildPc, FwOnPc, FwOffPc
  <2>5. ~DnsOn(copy[t]) /\ "dns" \notin Jumps'
    BY <1>1, <2>1, <2>2 DEF Progress, DnsOffPc, Jumps
  <2>6. DnsState(copy[t])'
    BY <2>1, <2>3, <2>5 DEF DnsState, DnsOn
  <2>7. Progress(t)'
    BY <1>0, <1>1, <2>1, <2>4, <2>6, PendingKept
    DEF Progress, RebuildPc, DnsOnPc, DnsOffPc, FwOnPc, FwOffPc, UpPc
  <2> QED
    BY <1>1, <2>1, <2>3, <2>4, <2>7, InsideKeeps DEF FirewallShape, NoFilter, Family
<1> QED
  BY <1>2, <1>3

LEMMA DnsOnKeeps ==
  ASSUME FirewallInv, NEW t \in Tasks,
         DnsEnsure(t) \/ DnsList(t) \/ DnsJump(t) \/ DnsApply(t)
  PROVE  FirewallInv'
<1>0. pc[t] \in RebuildPc
  BY DEF DnsEnsure, DnsList, DnsJump, DnsApply, At, RebuildPc, DnsOnPc
<1>1. /\ \A u \in Tasks : u # t => pc[u] \in WaitPc
      /\ pc[Main] \notin {"lock", "restart"} /\ pc[t] # "idle"
      /\ clients.chain /\ Progress(t) /\ FirewallShape
  BY <1>0, Inside
<1>2. CASE DnsEnsure(t)
  <2>1. /\ pc[t] = "dns.ensure" /\ Move(t, "dns.list")
        /\ filter' = IF filter = NoFilter THEN [NoFilter EXCEPT !.mode = "empty"] ELSE filter
        /\ nat' = IF nat = "absent" THEN "empty" ELSE nat
        /\ UNCHANGED <<row, enabled, fwd, clients, wiped, copy, list>>
    BY <1>2 DEF DnsEnsure, At, Goto, db
  <2>2. /\ filter' # NoFilter /\ nat' # "absent"
        /\ filter' \in [mode : {"absent", "empty", "guard", "strict"},
                        target : Family \union {"none"}]
        /\ nat' \in Family \union {"absent", "empty"}
    BY <1>1, <2>1 DEF FirewallShape, NoFilter
  <2>3. Progress(t)'
    BY <1>0, <1>1, <2>1, <2>2, PendingKept
    DEF Progress, RebuildPc, DnsOnPc, DnsOffPc, FwOnPc, FwOffPc, UpPc
  <2>4. "dns.list" \in RebuildPc
    BY DEF RebuildPc, DnsOnPc
  <2> QED
    BY <1>1, <2>1, <2>2, <2>3, <2>4, InsideKeeps DEF FirewallShape
<1>3. CASE DnsList(t)
  <2>1. /\ pc[t] = "dns.list" /\ Move(t, "dns.jump")
        /\ list' = [list EXCEPT ![t] = Jumps]
        /\ UNCHANGED <<row, enabled, fwd, clients, filter, nat, wiped, copy>>
    BY <1>3 DEF DnsList, ListForward, At, Jumps, db, rules
  <2>2. Jumps \subseteq Jump /\ Jumps' = Jumps
    BY <1>1, <2>1 DEF FirewallShape, Jumps
  <2>3. list' \in [Tasks -> SUBSET (Clients \union Jump)] /\ list'[t] = Jumps
    BY <1>1, <2>1, <2>2 DEF FirewallShape
  <2>4. Progress(t)'
    BY <1>0, <1>1, <2>1, <2>2, <2>3, PendingKept
    DEF Progress, RebuildPc, DnsOnPc, DnsOffPc, FwOnPc, FwOffPc, UpPc
  <2>5. "dns.jump" \in RebuildPc
    BY DEF RebuildPc, DnsOnPc
  <2> QED
    BY <1>1, <2>1, <2>3, <2>4, <2>5, InsideKeeps DEF FirewallShape
<1>4. CASE DnsJump(t)
  <2>1. /\ pc[t] = "dns.jump" /\ list[t] = Jumps /\ filter # NoFilter
        /\ DnsOn(copy[t]) /\ nat # "absent"
    BY <1>1, <1>4 DEF DnsJump, At, Progress, DnsOnPc
  <2>2. /\ Move(t, "dns.apply")
        /\ UNCHANGED <<row, enabled, clients, filter, nat, wiped, copy, list>>
        /\ IF "dns" \in Jumps THEN fwd' = fwd ELSE fwd' = Append(fwd, "dns")
    BY <1>4, <2>1 DEF DnsJump, Goto, db, dns
  <2>3. fwd' \in Seq(Jump) /\ "dns" \in Jumps'
    <3>1. CASE fwd' = fwd
      BY <1>1, <2>2, <3>1 DEF FirewallShape, Jumps
    <3>2. CASE fwd' = Append(fwd, "dns")
      <4>1. fwd' \in Seq(Jump) /\ Len(fwd') = Len(fwd) + 1 /\ fwd'[Len(fwd) + 1] = "dns"
        BY <1>1, <3>2 DEF FirewallShape, Jump
      <4>2. Len(fwd) + 1 \in DOMAIN fwd'
        BY <1>1, <4>1 DEF FirewallShape
      <4> QED
        BY <4>1, <4>2 DEF Jumps
    <3> QED
      BY <2>2, <3>1, <3>2
  <2>4. Progress(t)'
    BY <1>0, <1>1, <2>1, <2>2, <2>3, PendingKept
    DEF Progress, RebuildPc, DnsOnPc, DnsOffPc, FwOnPc, FwOffPc, UpPc
  <2>5. "dns.apply" \in RebuildPc
    BY DEF RebuildPc, DnsOnPc
  <2> QED
    BY <1>1, <2>2, <2>3, <2>4, <2>5, InsideKeeps DEF FirewallShape
<1>5. CASE DnsApply(t)
  <2> DEFINE l == IF copy[t].fw THEN "clients.init" ELSE "clients.flush"
  <2>1. /\ pc[t] = "dns.apply" /\ filter # NoFilter /\ nat # "absent" /\ "dns" \in Jumps
        /\ DnsOn(copy[t])
    BY <1>1, <1>5 DEF DnsApply, At, Progress, DnsOnPc
  <2>2. /\ Move(t, l) /\ nat' = copy[t].target
        /\ filter' = [mode |-> IF copy[t].strict THEN "strict" ELSE "guard",
                      target |-> copy[t].target]
        /\ UNCHANGED <<row, enabled, fwd, clients, wiped, copy, list>>
    BY <1>5, <2>1 DEF DnsApply, Goto, ClientsFirst, db
  <2>3. /\ filter' \in [mode : {"absent", "empty", "guard", "strict"},
                        target : Family \union {"none"}]
        /\ nat' \in Family \union {"absent", "empty"}
    BY <1>1, <2>1, <2>2 DEF FirewallShape, Row, DnsOn
  <2>4. l \in RebuildPc /\ l \in FwOnPc \union FwOffPc /\ l \in {"clients.init", "clients.flush"}
    BY DEF RebuildPc, FwOnPc, FwOffPc
  <2>5. DnsState(copy[t])'
    BY <2>1, <2>2 DEF DnsState, DnsOn, Jumps
  <2>6. Progress(t)'
    BY <1>0, <1>1, <2>2, <2>4, <2>5, PendingKept
    DEF Progress, RebuildPc, DnsOnPc, DnsOffPc, FwOnPc, FwOffPc, UpPc
  <2> QED
    BY <1>1, <2>2, <2>3, <2>4, <2>6, InsideKeeps DEF FirewallShape
<1> QED
  BY <1>2, <1>3, <1>4, <1>5
LEMMA FwOffKeeps ==
  ASSUME FirewallInv, NEW t \in Tasks, ClientsFlush(t) \/ ClientsUnjump(t)
  PROVE  FirewallInv'
<1>0. pc[t] \in RebuildPc
  BY DEF ClientsFlush, ClientsUnjump, At, RebuildPc, FwOffPc
<1>1. /\ \A u \in Tasks : u # t => pc[u] \in WaitPc
      /\ pc[Main] \notin {"lock", "restart"} /\ pc[t] # "idle"
      /\ clients.chain /\ Progress(t) /\ FirewallShape
  BY <1>0, Inside
<1>2. CASE ClientsFlush(t)
  <2>1. /\ pc[t] = "clients.flush" /\ Move(t, "clients.unjump")
        /\ clients' = [NoChain EXCEPT !.chain = TRUE]
        /\ UNCHANGED <<row, enabled, fwd, filter, nat, wiped, copy, list>>
    BY <1>1, <1>2 DEF ClientsFlush, At, Goto, db, dns
  <2>2. DnsState(copy[t])'
    BY <1>1, <2>1 DEF Progress, DnsState, FwOffPc, Jumps
  <2>3. Progress(t)'
    BY <1>0, <1>1, <2>1, <2>2, PendingKept
    DEF Progress, NoChain, RebuildPc, DnsOnPc, DnsOffPc, FwOnPc, FwOffPc, UpPc
  <2>4. "clients.unjump" \in RebuildPc
    BY DEF RebuildPc, FwOffPc
  <2> QED
    BY <1>1, <2>1, <2>3, <2>4, InsideKeeps DEF FirewallShape, NoChain
<1>3. CASE ClientsUnjump(t)
  <2>1. /\ pc[t] = "clients.unjump" /\ Delete({"in", "out"}) /\ wiped' = "no" /\ Finish(t)
        /\ UNCHANGED <<row, enabled, clients, filter, nat>>
    BY <1>3 DEF ClientsUnjump, At, db, dns
  <2>2. PICK r : r = copy[t]
    OBVIOUS
  <2>3. fwd' \in Seq(Jump) /\ ("dns" \in Jumps' <=> "dns" \in Jumps)
    BY <1>1, <2>1, DeleteFact DEF FirewallShape
  <2>4. /\ DnsState(r) /\ ~r.fw
        /\ SameRules(r, row) \/ Pending({"rebuild"})
    BY <1>0, <1>1, <2>1, <2>2 DEF Progress, FwOffPc
  <2>5. DnsState(r)'
    BY <2>1, <2>3, <2>4 DEF DnsState
  <2>6. row.fw => Pending({"check", "rebuild"})
    BY <2>4 DEF SameRules, Pending
  <2> QED
    BY <1>0, <1>1, <2>1, <2>2, <2>3, <2>5, <2>6, LeavesKeeps DEF FirewallShape
<1> QED
  BY <1>2, <1>3

LEMMA FwOnKeeps ==
  ASSUME FirewallInv, NEW t \in Tasks,
         \/ ClientsInit(t) \/ ClientsList(t) \/ ClientsJump(t)
         \/ ClientsRead(t) \/ ClientsApply(t)
  PROVE  FirewallInv'
<1>0. pc[t] \in RebuildPc /\ pc[t] \in FwOnPc
  BY DEF ClientsInit, ClientsList, ClientsJump, ClientsRead, ClientsApply, At, RebuildPc, FwOnPc
<1>1. /\ \A u \in Tasks : u # t => pc[u] \in WaitPc
      /\ pc[Main] \notin {"lock", "restart"} /\ pc[t] # "idle"
      /\ clients.chain /\ Progress(t) /\ FirewallShape
  BY <1>0, Inside
<1>2. copy[t].fw /\ DnsState(copy[t]) /\ (SameRules(copy[t], row) \/ Pending({"rebuild"}))
  BY <1>0, <1>1 DEF Progress
<1>3. {"clients.list", "clients.jump", "clients.read", "clients.apply"} \subseteq RebuildPc
  BY DEF RebuildPc, FwOnPc
<1>4. CASE ClientsInit(t)
  <2>1. /\ pc[t] = "clients.init" /\ Move(t, "clients.list")
        /\ clients' = [clients EXCEPT !.chain = TRUE]
        /\ UNCHANGED <<row, enabled, fwd, filter, nat, wiped, copy, list>>
    BY <1>4 DEF ClientsInit, At, Goto, db, dns
  <2>2. DnsState(copy[t])'
    BY <1>2, <2>1 DEF DnsState, Jumps
  <2>3. Progress(t)'
    BY <1>0, <1>2, <2>1, <2>2, PendingKept
    DEF Progress, RebuildPc, DnsOnPc, DnsOffPc, FwOnPc, FwOffPc, UpPc
  <2> QED
    BY <1>1, <1>3, <2>1, <2>3, InsideKeeps DEF FirewallShape
<1>5. CASE ClientsList(t)
  <2>1. /\ pc[t] = "clients.list" /\ Move(t, "clients.jump")
        /\ list' = [list EXCEPT ![t] = Jumps]
        /\ UNCHANGED <<row, enabled, fwd, clients, filter, nat, wiped, copy>>
    BY <1>5 DEF ClientsList, ListForward, At, Jumps, db, rules
  <2>2. Jumps \subseteq Jump /\ Jumps' = Jumps
    BY <1>1, <2>1 DEF FirewallShape, Jumps
  <2>3. list' \in [Tasks -> SUBSET (Clients \union Jump)] /\ list'[t] = Jumps
    BY <1>1, <2>1, <2>2 DEF FirewallShape
  <2>4. DnsState(copy[t])'
    BY <1>2, <2>1, <2>2 DEF DnsState
  <2>5. Progress(t)'
    BY <1>0, <1>2, <2>1, <2>2, <2>3, <2>4, PendingKept
    DEF Progress, RebuildPc, DnsOnPc, DnsOffPc, FwOnPc, FwOffPc, UpPc
  <2> QED
    BY <1>1, <1>3, <2>1, <2>3, <2>5, InsideKeeps DEF FirewallShape
<1>6. CASE ClientsJump(t)
  <2> DEFINE add(j)  == IF j \in list[t] THEN <<>> ELSE <<j>>
             missing == add("in") \o add("out")
  <2>1. /\ pc[t] = "clients.jump" /\ Move(t, "clients.read") /\ fwd' = fwd \o missing
        /\ UNCHANGED <<row, enabled, clients, filter, nat, wiped, copy, list>>
    BY <1>1, <1>6 DEF ClientsJump, At, Goto, db, dns
  <2>m. missing = Missing(list[t])
    BY DEF Missing
  <2> HIDE DEF missing
  <2>2. missing \in Seq(Jump) /\ {missing[i] : i \in DOMAIN missing} = {"in", "out"} \ list[t]
    BY <2>m, MissingFact
  <2>3. fwd' \in Seq(Jump) /\ Jumps' = Jumps \union ({"in", "out"} \ list[t])
    BY <1>1, <2>1, <2>2, AddFact DEF FirewallShape
  <2>4. list[t] = Jumps
    BY <1>1, <2>1 DEF Progress
  <2>5. "in" \in Jumps' /\ ("dns" \in Jumps' <=> "dns" \in Jumps)
    BY <2>3, <2>4
  <2>6. DnsState(copy[t])'
    BY <1>2, <2>1, <2>5 DEF DnsState
  <2>7. Progress(t)'
    BY <1>0, <1>2, <2>1, <2>5, <2>6, PendingKept
    DEF Progress, RebuildPc, DnsOnPc, DnsOffPc, FwOnPc, FwOffPc, UpPc
  <2> QED
    BY <1>1, <1>3, <2>1, <2>3, <2>7, InsideKeeps DEF FirewallShape
<1>7. CASE ClientsRead(t)
  <2>1. /\ pc[t] = "clients.read" /\ Move(t, "clients.apply")
        /\ list' = [list EXCEPT ![t] = enabled]
        /\ UNCHANGED <<row, enabled, fwd, clients, filter, nat, wiped, copy>>
    BY <1>7 DEF ClientsRead, At, db, rules
  <2>2. /\ list' \in [Tasks -> SUBSET (Clients \union Jump)] /\ list'[t] = enabled
        /\ enabled \subseteq Clients /\ Jumps' = Jumps
    BY <1>1, <2>1 DEF FirewallShape, Jumps
  <2>3. DnsState(copy[t])' /\ "in" \in Jumps
    BY <1>1, <1>2, <2>1, <2>2 DEF DnsState, Progress
  <2>4. Progress(t)'
    BY <1>0, <1>2, <2>1, <2>2, <2>3, PendingKept
    DEF Progress, RebuildPc, DnsOnPc, DnsOffPc, FwOnPc, FwOffPc, UpPc
  <2> QED
    BY <1>1, <1>3, <2>1, <2>2, <2>4, InsideKeeps DEF FirewallShape
<1>8. CASE ClientsApply(t)
  <2>1. /\ pc[t] = "clients.apply" /\ Finish(t) /\ wiped' = "no"
        /\ clients' = [chain |-> TRUE, grants |-> list[t], drop |-> TRUE]
        /\ UNCHANGED <<row, enabled, fwd, filter, nat>>
    BY <1>1, <1>8 DEF ClientsApply, At, db, dns
  <2>2. PICK r : r = copy[t]
    OBVIOUS
  <2>3. /\ "in" \in Jumps /\ list[t] \subseteq Clients
        /\ row.fw => list[t] = enabled \/ Pending({"check", "rebuild"})
    BY <1>1, <2>1 DEF Progress
  <2>4. DnsState(r)'
    BY <1>2, <2>1, <2>2 DEF DnsState, Jumps
  <2>5. row.fw => ClientsState' \/ Pending({"check", "rebuild"})
    BY <2>1, <2>3 DEF ClientsState, Jumps
  <2> QED
    BY <1>0, <1>1, <2>1, <2>2, <2>3, <2>4, <2>5, LeavesKeeps DEF FirewallShape
<1> QED
  BY <1>4, <1>5, <1>6, <1>7, <1>8

LEMMA FirewallStep == MaxNft = 1 /\ FirewallInv /\ [Next]_vars => FirewallInv'
<1> SUFFICES ASSUME MaxNft = 1, FirewallInv, [Next]_vars PROVE FirewallInv'
  OBVIOUS
<1>1. ASSUME NEW t \in Workers, Handle(t) PROVE FirewallInv'
  BY <1>1, HandleKeeps
<1>2. ASSUME NEW t \in Tasks, Rebuild(t) PROVE FirewallInv'
  BY <1>2, LookKeeps, RebuildReadKeeps, DnsOffKeeps, DnsOnKeeps, FwOffKeeps, FwOnKeeps
  DEF Rebuild
<1>3. ASSUME NEW t \in Tasks, Restart(t) PROVE FirewallInv'
  BY <1>3, LookKeeps, RestartKeeps DEF Restart
<1>4. CASE UNCHANGED vars
  BY <1>4
  DEF vars, FirewallInv, FirewallShape, Alone, Boot, ChainThere, Progress, Calm, Due, Pending,
      Jumps, Wiped, DnsState, ClientsState
<1> QED
  BY <1>1, <1>2, <1>3, <1>4 DEF Next

-----------------------------------------------------------------------------
(* What becomes of packets when no handler is at work. *)

\* With the firewall on, and no proxy restart since the last rebuild, the rules
\* are those of the rows.
LEMMA RulesOfRows ==
  ASSUME FirewallInv, Settled
  PROVE  /\ row.fw /\ wiped # "reconcile" => ClientsState /\ DnsState(row)
         /\ wiped = "no" \/ (row.fw /\ wiped = "restart") => DnsState(row)
<1>1. \A t \in Tasks : pc[t] = "idle"
  BY DEF Settled, At
<1>2. ~Pending({"rebuild"}) /\ ~Pending({"check", "rebuild"})
  BY <1>1 DEF Pending
<1>3. row.fw => wiped # "restart"
  BY <1>1 DEF FirewallInv, Due
<1>4. wiped = "no" => DnsState(row) /\ (row.fw => ClientsState)
  BY <1>1, <1>2 DEF FirewallInv, Calm, WaitPc
<1> QED
  BY <1>3, <1>4 DEF FirewallInv, FirewallShape

\* A packet that passes has a first verdict, and it is to accept.
LEMMA FirstVerdict ==
  ASSUME fwd \in Seq(Jump), NEW p, Passes(p), NEW i \in DOMAIN fwd,
         Verdict(fwd[i], Routed(p)) # "none"
  PROVE  \E j \in DOMAIN fwd : Verdict(fwd[j], Routed(p)) = "accept"
<1> DEFINE decided == {k \in DOMAIN fwd : Verdict(fwd[k], Routed(p)) # "none"}
<1>1. decided \in SUBSET Nat /\ decided # {}
  OBVIOUS
<1>2. PICK j \in decided : \A k \in decided : j <= k
  BY <1>1, NatMin
<1> QED
  BY <1>2 DEF Passes
\* With the lockdown's verdicts, and whom the client rules accept.
LEMMA Accepted ==
  ASSUME FirewallInv, ClientsState, DnsState(row), NEW p \in Out, NEW j \in DOMAIN fwd,
         Verdict(fwd[j], Routed(p)) = "accept"
  PROVE  \/ p.peer \in enabled /\ Routed(p).place \in Targets[p.peer]
         \/ DnsOn(row) /\ Routed(p).place = "resolver"
<1> DEFINE q == Routed(p)
<1>1. p \in Packet /\ ~p.back
  BY DEF Out
<1>2. q.peer = p.peer /\ q.back = p.back /\ q.fam = p.fam /\ q.query = p.query
  BY <1>1 DEF Routed, Packet
<1> HIDE DEF q
<1>3. Verdict(fwd[j], q) = "accept" /\ fwd[j] \in Jumps
  BY DEF Jumps, q
<1>4. CASE fwd[j] = "dns"
  <2>1. FilterVerdict(q) = "accept" /\ DnsOn(row)
    BY <1>1, <1>2, <1>3, <1>4 DEF Verdict, DnsState
  <2>2. q.place = "resolver"
    BY <2>1 DEF FilterVerdict
  <2> QED
    BY <2>1, <2>2 DEF q
<1>5. CASE fwd[j] # "dns"
  <2>1. ClientVerdict(q) = "accept"
    BY <1>3, <1>5 DEF Verdict
  <2>2. q.peer \in clients.grants /\ q.place \in Targets[q.peer]
    BY <2>1 DEF ClientVerdict
  <2> QED
    BY <2>2, <1>2 DEF ClientsState, q
<1> QED
  BY <1>4, <1>5

LEMMA InvDefaultDeny == FirewallInv => DefaultDeny
<1> SUFFICES ASSUME FirewallInv, Settled, row.fw, wiped # "reconcile", NEW p \in Out, Passes(p)
             PROVE  \/ p.peer \in enabled /\ Routed(p).place \in Targets[p.peer]
                    \/ DnsOn(row) /\ Routed(p).place = "resolver"
  BY DEF DefaultDeny
<1>1. ClientsState /\ DnsState(row) /\ fwd \in Seq(Jump)
  BY RulesOfRows DEF FirewallInv, FirewallShape
<1>2. PICK i \in DOMAIN fwd : fwd[i] = "in"
  BY <1>1 DEF ClientsState, Jumps
<1>3. Verdict(fwd[i], Routed(p)) # "none"
  <2>1. ~Routed(p).back
    BY DEF Out, Routed, Packet
  <2>2. Verdict(fwd[i], Routed(p)) = ClientVerdict(Routed(p))
    BY <1>2, <2>1 DEF Verdict
  <2> QED
    BY <1>1, <2>2 DEF ClientVerdict, ClientsState
<1>4. PICK j \in DOMAIN fwd : Verdict(fwd[j], Routed(p)) = "accept"
  BY <1>1, <1>3, FirstVerdict
<1> QED
  BY <1>1, <1>4, Accepted

LEMMA InvGrantsHold == FirewallInv => GrantsHold
<1> SUFFICES ASSUME FirewallInv, Settled, row.fw, wiped # "reconcile", NEW p \in Out,
                    p.peer \in enabled, p.place \in Targets[p.peer], ~p.query
             PROVE  Passes(p)
  BY DEF GrantsHold
<1>1. ClientsState /\ DnsState(row)
  BY RulesOfRows
<1>2. Routed(p) = p
  BY DEF Routed, Out, Packet
<1>3. ASSUME NEW i \in DOMAIN fwd PROVE Verdict(fwd[i], p) \in {"accept", "none"}
  <2>1. FilterVerdict(p) \in {"accept", "none"}
    BY DEF FilterVerdict
  <2>2. ~p.back /\ ClientVerdict(p) = "accept"
    BY <1>1 DEF ClientVerdict, ClientsState, Out
  <2> QED
    BY <2>1, <2>2 DEF Verdict
<1> QED
  BY <1>2, <1>3 DEF Passes

LEMMA InvDnsRedirected == FirewallInv => DnsRedirected
<1> SUFFICES ASSUME FirewallInv, Settled, DnsOn(row),
                    wiped = "no" \/ (row.fw /\ wiped = "restart"),
                    NEW p \in Out, p.query, p.fam = row.target
             PROVE  Routed(p).place = "resolver"
  BY DEF DnsRedirected
<1>1. nat = row.target
  BY RulesOfRows DEF DnsState
<1> QED
  BY <1>1 DEF Routed, Out, Packet

\* "default-deny" (README:40), for every number of clients, workers and rules,
\* one nft transaction at a time: with the firewall on and no handler at work,
\* only the enabled clients' own destinations and the resolver are open.
THEOREM DefaultDenyEver == MaxNft = 1 => (Spec => []DefaultDeny)
<1> SUFFICES ASSUME MaxNft = 1 PROVE Spec => []DefaultDeny
  OBVIOUS
<1>1. MaxNft = 1 /\ FirewallInv /\ [Next]_vars => FirewallInv'
  BY FirewallStep
<1> QED
  BY <1>1, FirewallInit, InvDefaultDeny, PTL DEF Spec

\* What the rules of an enabled client open stays open, in the same instances.
THEOREM GrantsHoldEver == MaxNft = 1 => (Spec => []GrantsHold)
<1> SUFFICES ASSUME MaxNft = 1 PROVE Spec => []GrantsHold
  OBVIOUS
<1> QED
  BY FirewallStep, FirewallInit, InvGrantsHold, PTL DEF Spec

\* A DNS query of the target's family goes to the target, in the same instances.
THEOREM DnsRedirectedEver == MaxNft = 1 => (Spec => []DnsRedirected)
<1> SUFFICES ASSUME MaxNft = 1 PROVE Spec => []DnsRedirected
  OBVIOUS
<1> QED
  BY FirewallStep, FirewallInit, InvDnsRedirected, PTL DEF Spec

-----------------------------------------------------------------------------
(* The default-deny between two steps. *)

\* Only a flush found with the firewall off, or the end of the table, takes the
\* enforcement away.
LEMMA EnforcedKeeps ==
  ASSUME MaxNft = 1, FirewallInv, [Next]_vars, Enforced, ~Enforced'
  PROVE  \E t \in Tasks : RestartDown(t) \/ (At(t, "clients.flush") /\ ~copy[t].fw)
<1>1. Enforced <=> clients.drop /\ "in" \in Jumps
  BY DEF Enforced, Jumps
<1>2. (clients.drop /\ "in" \in Jumps)' <=> Enforced'
  BY DEF Enforced, Jumps
<1>3. fwd \in Seq(Jump)
  BY DEF FirewallInv, FirewallShape
<1>4. ASSUME UNCHANGED <<fwd, clients>> PROVE FALSE
  BY <1>4 DEF Enforced
<1>5. ASSUME NEW t \in Workers, Handle(t) PROVE FALSE
  BY <1>4, <1>5
  DEF Handle, ClientCommit, UpdateInterface, UpdateProxy, RestartInterface, rules
<1>6. ASSUME NEW t \in Tasks, CheckFirewall(t) \/ RebuildRead(t) \/ DnsDrop(t) \/ DnsEnsure(t)
               \/ DnsList(t) \/ DnsApply(t) \/ ClientsList(t) \/ ClientsRead(t) \/ ApplyLockdown(t)
      PROVE FALSE
  BY <1>4, <1>6
  DEF CheckFirewall, RebuildRead, DnsDrop, DnsEnsure, DnsList, DnsApply, ClientsList, ClientsRead,
      ApplyLockdown, ListForward, rules
<1>7. ASSUME NEW t \in Tasks, DnsUnjump(t) PROVE FALSE
  <2>1. Jumps' = Jumps \ {"dns"} /\ clients' = clients
    BY <1>3, <1>7, DeleteFact DEF DnsUnjump
  <2> QED
    BY <1>1, <1>2, <2>1
<1>8. ASSUME NEW t \in Tasks, DnsJump(t) \/ ClientsJump(t) PROVE FALSE
  <2>1. clients' = clients
    BY <1>8 DEF DnsJump, ClientsJump
  <2>2. "in" \in Jumps => "in" \in Jumps'
    <3>1. CASE DnsJump(t)
      <4>1. fwd' = fwd \/ fwd' = Append(fwd, "dns")
        BY <3>1 DEF DnsJump
      <4>2. Len(Append(fwd, "dns")) = Len(fwd) + 1 /\ Len(fwd) \in Nat
        BY <1>3
      <4>3. /\ DOMAIN fwd \subseteq DOMAIN Append(fwd, "dns")
            /\ \A i \in DOMAIN fwd : Append(fwd, "dns")[i] = fwd[i]
        BY <1>3, <4>2
      <4> QED
        BY <4>1, <4>3 DEF Jumps
    <3>2. CASE ClientsJump(t)
      <4> DEFINE add(j)  == IF j \in list[t] THEN <<>> ELSE <<j>>
      <4>1. fwd' = fwd \/ fwd' = fwd \o (add("in") \o add("out"))
        BY <3>2 DEF ClientsJump
      <4>2. add("in") \in Seq(Jump) /\ add("out") \in Seq(Jump)
        <5>1. <<>> \in Seq(Jump) /\ (\A j \in Jump : <<j>> \in Seq(Jump))
          OBVIOUS
        <5> QED
          BY <5>1 DEF Jump
      <4> HIDE DEF add
      <4>3. add("in") \o add("out") \in Seq(Jump)
        BY <4>2
      <4> QED
        BY <1>3, <4>1, <4>3, AddFact DEF Jumps
    <3> QED
      BY <1>8, <3>1, <3>2
  <2> QED
    BY <1>1, <1>2, <2>1, <2>2
<1>9. ASSUME NEW t \in Tasks, ClientsInit(t) \/ RestartUp(t) \/ ClientsApply(t) PROVE FALSE
  <2>1. fwd' = fwd /\ (clients.drop => clients'.drop)
    BY <1>9 DEF ClientsInit, RestartUp, ClientsApply, FirewallInv, FirewallShape
  <2> QED
    BY <2>1 DEF Enforced
<1>10. ASSUME NEW t \in Tasks, ClientsFlush(t) PROVE At(t, "clients.flush") /\ ~copy[t].fw
  BY <1>10 DEF ClientsFlush, FirewallInv, Progress, At, FwOffPc
<1>11. ASSUME NEW t \in Tasks, ClientsUnjump(t) PROVE FALSE
  <2>1. ~clients.drop
    BY <1>11 DEF ClientsUnjump, At, FirewallInv, Progress
  <2> QED
    BY <2>1 DEF Enforced
<1>12. ASSUME UNCHANGED vars PROVE FALSE
  BY <1>4, <1>12 DEF vars
<1>13. ASSUME NEW t \in Tasks, Rebuild(t) \/ Restart(t)
       PROVE  RestartDown(t) \/ (At(t, "clients.flush") /\ ~copy[t].fw)
  BY <1>6, <1>7, <1>8, <1>9, <1>10, <1>11, <1>13 DEF Rebuild, Restart
<1> QED
  BY <1>5, <1>12, <1>13 DEF Next

\* "peers never see a half-applied ruleset" (firewall.rs:38): for every number
\* of clients, workers and rules, one nft transaction at a time, the default-deny
\* goes away only with the table or because a handler found the firewall off.
THEOREM NeverHalfAppliedEver == MaxNft = 1 => (Spec => NeverHalfApplied)
<1> SUFFICES ASSUME MaxNft = 1 PROVE Spec => NeverHalfApplied
  OBVIOUS
<1>1. FirewallInv /\ [Next]_vars =>
        [Enforced /\ ~Enforced' =>
           \E t \in Tasks : \/ RestartDown(t)
                            \/ At(t, "clients.flush") /\ ~copy[t].fw]_vars
  BY EnforcedKeeps
<1> QED
  BY <1>1, FirewallStep, FirewallInit, PTL DEF Spec, NeverHalfApplied

-----------------------------------------------------------------------------
(***************************************************************************)
(* The jumps of chain forward.  None is there twice; the two of wg-clients *)
(* come and go together, with the firewall, though the rebuild that takes  *)
(* note of a change may be still to come.                                  *)
(***************************************************************************)
Lone       == \A i, j \in DOMAIN fwd : fwd[i] = fwd[j] => i = j
Steered(t) == pc[t] \in {"clients.read", "clients.apply"} => {"in", "out"} \subseteq Jumps
Owned ==
  (\A t \in Tasks : pc[t] \in WaitPc) /\ wiped = "no" =>
    \/ Pending({"rebuild"})
    \/ IF row.fw THEN {"in", "out"} \subseteq Jumps ELSE {"in", "out"} \cap Jumps = {}

JumpInv == Lone /\ (\A t \in Tasks : Steered(t)) /\ Owned

LEMMA JumpInit == Init => JumpInv
BY DEF Init, JumpInv, Lone, Steered, Owned

\* A deletion by handle makes no jump double.
LEMMA DeleteLone ==
  ASSUME fwd \in Seq(Jump), NEW J, Delete(J), Lone
  PROVE  Lone'
<1> DEFINE kept == {i \in DOMAIN fwd : fwd[i] \notin J}
<1>1. PICK pos \in [1..Cardinality(kept) -> kept] :
        /\ \A m, n \in DOMAIN pos : m < n => pos[m] < pos[n]
        /\ fwd' = [n \in DOMAIN pos |-> fwd[pos[n]]]
  BY DEF Delete
<1>2. Cardinality(kept) \in Nat
  <2>1. IsFiniteSet(1..Len(fwd))
    BY FS_Interval
  <2>2. kept \subseteq 1..Len(fwd)
    OBVIOUS
  <2> QED
    BY <2>1, <2>2, FS_Subset, FS_CardinalityType
<1>3. \A n \in 1..Cardinality(kept) : pos[n] \in DOMAIN fwd
  OBVIOUS
<1>4. DOMAIN fwd \subseteq Nat
  OBVIOUS
<1> HIDE DEF kept
<1> SUFFICES ASSUME NEW m \in DOMAIN fwd', NEW n \in DOMAIN fwd', fwd'[m] = fwd'[n], m # n
             PROVE  FALSE
  BY DEF Lone
<1>5. m \in 1..Cardinality(kept) /\ n \in 1..Cardinality(kept)
  BY <1>1
<1>6. pos[m] = pos[n]
  BY <1>1, <1>3, <1>5 DEF Lone
<1>7. m < n \/ n < m
  BY <1>2, <1>5
<1>8. pos[m] < pos[n] \/ pos[n] < pos[m]
  BY <1>1, <1>5, <1>7
<1> QED
  BY <1>3, <1>4, <1>5, <1>6, <1>8

\* Nor does the addition of what is missing.
LEMMA AddLone ==
  ASSUME fwd \in Seq(Jump), NEW s \in Seq(Jump), fwd' = fwd \o s, Lone,
         \A i, j \in DOMAIN s : s[i] = s[j] => i = j,
         \A i \in DOMAIN s : s[i] \notin Jumps
  PROVE  Lone'
<1>1. fwd' \in Seq(Jump) /\ Len(fwd') = Len(fwd) + Len(s)
  OBVIOUS
<1>2. ASSUME NEW i \in DOMAIN fwd'
      PROVE  /\ i \in Nat
             /\ \/ i \in DOMAIN fwd /\ fwd'[i] = fwd[i] /\ fwd'[i] \in Jumps
                \/ /\ i - Len(fwd) \in DOMAIN s /\ fwd'[i] = s[i - Len(fwd)]
                   /\ fwd'[i] \notin Jumps
  <2>1. \/ i \in DOMAIN fwd /\ fwd'[i] = fwd[i]
        \/ i - Len(fwd) \in DOMAIN s /\ fwd'[i] = s[i - Len(fwd)]
    BY <1>1
  <2>2. i \in Nat
    BY <1>1
  <2> QED
    BY <2>1, <2>2 DEF Jumps
<1> SUFFICES ASSUME NEW i \in DOMAIN fwd', NEW j \in DOMAIN fwd', fwd'[i] = fwd'[j]
             PROVE  i = j
  BY DEF Lone
<1>3. CASE fwd'[i] \in Jumps
  BY <1>2, <1>3 DEF Lone
<1>4. CASE fwd'[i] \notin Jumps
  <2>1. i - Len(fwd) = j - Len(fwd)
    BY <1>2, <1>4
  <2>2. i \in Nat /\ j \in Nat /\ Len(fwd) \in Nat
    BY <1>2
  <2> QED
    BY <2>1, <2>2
<1> QED
  BY <1>3, <1>4

\* A step that leaves the jumps alone and does not end a rebuild.
LEMMA JumpKeeps ==
  ASSUME FirewallInv, JumpInv, NEW t \in Tasks, NEW l, Move(t, l), fwd' = fwd,
         l \notin {"clients.read", "clients.apply"} \/ pc[t] \in {"clients.read", "clients.apply"},
         \/ l \notin WaitPc
         \/ wiped' # "no"
         \/ /\ pc[t] \in WaitPc /\ wiped' = wiped
            /\ l = "rebuild" \/ (pc[t] # "rebuild" /\ row'.fw = row.fw)
  PROVE  JumpInv'
<1>1. pc'[t] = l /\ \A u \in Tasks : u # t => pc'[u] = pc[u]
  BY DEF Move, FirewallInv, FirewallShape
<1>2. Jumps' = Jumps
  BY DEF Jumps
<1>3. Lone'
  BY DEF JumpInv, Lone
<1>4. \A u \in Tasks : Steered(u)'
  BY <1>1, <1>2 DEF JumpInv, Steered
<1>5. Owned'
  <2> SUFFICES ASSUME \A u \in Tasks : pc'[u] \in WaitPc, wiped' = "no", ~Pending({"rebuild"})'
               PROVE  IF row'.fw THEN {"in", "out"} \subseteq Jumps
                      ELSE {"in", "out"} \cap Jumps = {}
    BY <1>2 DEF Owned
  <2>1. /\ pc[t] \in WaitPc /\ wiped = "no" /\ l # "rebuild"
        /\ pc[t] # "rebuild" /\ row'.fw = row.fw
    BY <1>1 DEF Pending
  <2>2. (\A u \in Tasks : pc[u] \in WaitPc) /\ ~Pending({"rebuild"})
    BY <1>1, <2>1 DEF Pending
  <2> QED
    BY <2>1, <2>2 DEF JumpInv, Owned
<1> QED
  BY <1>3, <1>4, <1>5 DEF JumpInv

\* A step that changes the jumps, or ends a rebuild, has the chain to itself.
LEMMA JumpMoves ==
  ASSUME FirewallInv, JumpInv, NEW t \in Tasks, NEW l, Move(t, l), Lone',
         \A u \in Tasks : u # t => pc[u] \in WaitPc,
         l \in {"clients.read", "clients.apply"} => {"in", "out"} \subseteq Jumps',
         Owned' \/ l \notin WaitPc
  PROVE  JumpInv'
<1>1. pc'[t] = l /\ \A u \in Tasks : u # t => pc'[u] = pc[u]
  BY DEF Move, FirewallInv, FirewallShape
<1>2. \A u \in Tasks : Steered(u)'
  BY <1>1 DEF Steered, WaitPc
<1>3. Owned'
  BY <1>1 DEF Owned
<1> QED
  BY <1>2, <1>3 DEF JumpInv

\* The handlers, the looks at the rows, and the calls that add no jump.
LEMMA JumpQuiet ==
  ASSUME FirewallInv, JumpInv, NEW t \in Tasks,
         \/ t \in Workers /\ Handle(t)
         \/ CheckFirewall(t) \/ ApplyLockdown(t) \/ RebuildRead(t)
         \/ DnsDrop(t) \/ DnsEnsure(t) \/ DnsList(t) \/ DnsApply(t)
         \/ ClientsFlush(t) \/ ClientsInit(t) \/ ClientsList(t) \/ ClientsRead(t)
         \/ RestartUp(t)
  PROVE  JumpInv'
<1>1. CASE t \in Workers /\ Handle(t)
  <2>1. pc[t] = "idle" /\ pc[t] \in WaitPc /\ fwd' = fwd /\ wiped' = wiped
    BY <1>1 DEF Handle, ClientCommit, UpdateInterface, UpdateProxy, RestartInterface, Arrives,
                At, WaitPc, rules
  <2>2. \E l \in {"check", "rebuild", "lock", "restart"} :
          Move(t, l) /\ (l = "rebuild" \/ row'.fw = row.fw)
    <3>1. row \in Row
      BY DEF FirewallInv, FirewallShape
    <3> QED
      BY <1>1, <3>1 DEF Handle, ClientCommit, UpdateInterface, UpdateProxy, RestartInterface, Goto,
                        db, Row
  <2> QED
    BY <2>1, <2>2, JumpKeeps
<1>2. CASE CheckFirewall(t) \/ ApplyLockdown(t)
  <2>1. pc[t] \in WaitPc /\ pc[t] # "rebuild" /\ fwd' = fwd /\ wiped' = wiped /\ row' = row
    BY <1>2 DEF CheckFirewall, ApplyLockdown, At, WaitPc, db, rules, dns
  <2>2. \E l \in WaitPc : Move(t, l)
    BY <1>2 DEF CheckFirewall, ApplyLockdown, Goto, WaitPc
  <2>3. \A l \in WaitPc : l \notin {"clients.read", "clients.apply"}
    BY DEF WaitPc
  <2> QED
    BY <2>1, <2>2, <2>3, JumpKeeps
<1>3. CASE \/ RebuildRead(t) \/ DnsDrop(t) \/ DnsEnsure(t) \/ DnsList(t) \/ DnsApply(t)
           \/ ClientsFlush(t) \/ ClientsInit(t) \/ ClientsList(t)
  <2>1. fwd' = fwd
    BY <1>3 DEF RebuildRead, DnsDrop, DnsEnsure, DnsList, DnsApply, ClientsFlush, ClientsInit,
                ClientsList, ListForward, rules
  <2>2. DnsApply(t) => filter # NoFilter /\ nat # "absent"
    BY DEF DnsApply, At, FirewallInv, Progress
  <2>3. ClientsFlush(t) => clients.chain
    <3> SUFFICES ASSUME ClientsFlush(t) PROVE clients.chain
      OBVIOUS
    <3>1. pc[t] \in RebuildPc
      BY DEF ClientsFlush, At, RebuildPc, FwOffPc
    <3> QED
      BY <3>1, Inside
  <2>4. \E l \in {"dns.ensure", "dns.unjump", "clients.init", "clients.flush", "dns.list", "dns.jump",
                  "clients.unjump", "clients.list", "clients.jump"} : Move(t, l)
    BY <1>3, <2>2, <2>3
    DEF RebuildRead, DnsDrop, DnsEnsure, DnsList, DnsApply, ClientsFlush, ClientsInit, ClientsList,
        ListForward, ClientsFirst, Goto
  <2>5. \A l \in {"dns.ensure", "dns.unjump", "clients.init", "clients.flush", "dns.list", "dns.jump",
                  "clients.unjump", "clients.list", "clients.jump"} : l \notin WaitPc
    BY DEF WaitPc
  <2> QED
    BY <2>1, <2>4, <2>5, JumpKeeps
<1>4. CASE ClientsRead(t)
  <2>1. pc[t] = "clients.read" /\ fwd' = fwd /\ Move(t, "clients.apply")
    BY <1>4 DEF ClientsRead, At, rules
  <2>2. "clients.apply" \notin WaitPc
    BY DEF WaitPc
  <2> QED
    BY <2>1, <2>2, JumpKeeps
<1>5. CASE RestartUp(t)
  <2>1. /\ pc[t] \in UpPc /\ fwd' = fwd /\ wiped' = wiped
        /\ \E l \in {"check", "idle"} : Move(t, l)
    BY <1>5 DEF RestartUp, UpPc, Goto, dns
  <2>2. wiped # "no"
    BY <2>1 DEF FirewallInv, Progress
  <2> QED
    BY <2>1, <2>2, JumpKeeps
<1> QED
  BY <1>1, <1>2, <1>3, <1>4, <1>5

\* The calls that change the jumps.
LEMMA JumpChanges ==
  ASSUME FirewallInv, JumpInv, NEW t \in Tasks,
         DnsUnjump(t) \/ DnsJump(t) \/ ClientsUnjump(t) \/ ClientsJump(t) \/ ClientsApply(t)
  PROVE  JumpInv'
<1>0. pc[t] \in RebuildPc
  BY DEF DnsUnjump, DnsJump, ClientsUnjump, ClientsJump, ClientsApply, At, RebuildPc, DnsOnPc,
         DnsOffPc, FwOnPc, FwOffPc
<1>1. /\ \A u \in Tasks : u # t => pc[u] \in WaitPc
      /\ clients.chain /\ Progress(t) /\ fwd \in Seq(Jump) /\ Lone
  BY <1>0, Inside DEF FirewallShape, JumpInv
<1>2. Pending({"rebuild"}) /\ UNCHANGED row => \A l : Move(t, l) => Pending({"rebuild"})'
  BY <1>0, PendingKept
<1>3. CASE DnsUnjump(t)
  <2>1. Delete({"dns"}) /\ Move(t, "dns.drop") /\ "dns.drop" \notin WaitPc
    BY <1>3 DEF DnsUnjump, Goto, WaitPc
  <2> QED
    BY <1>1, <2>1, DeleteLone, JumpMoves
<1>4. CASE DnsJump(t)
  <2>1. list[t] = Jumps /\ filter # NoFilter
    BY <1>1, <1>4 DEF DnsJump, At, Progress
  <2>2. Move(t, "dns.apply") /\ "dns.apply" \notin WaitPc
    BY <1>4, <2>1 DEF DnsJump, Goto, WaitPc
  <2>3. Lone'
    <3>1. CASE "dns" \in Jumps
      BY <1>1, <1>4, <2>1, <3>1 DEF DnsJump, Lone
    <3>2. CASE "dns" \notin Jumps
      <4>1. fwd' = Append(fwd, "dns")
        BY <1>4, <2>1, <3>2 DEF DnsJump
      <4>2. <<"dns">> \in Seq(Jump) /\ Append(fwd, "dns") = fwd \o <<"dns">>
        BY <1>1 DEF Jump
      <4>3. DOMAIN <<"dns">> = {1} /\ <<"dns">>[1] = "dns"
        OBVIOUS
      <4> QED
        BY <1>1, <3>2, <4>1, <4>2, <4>3, AddLone
    <3> QED
      BY <3>1, <3>2
  <2> QED
    BY <1>1, <2>2, <2>3, JumpMoves
<1>5. CASE ClientsUnjump(t)
  <2> DEFINE l == IF t = Main THEN "relock" ELSE "idle"
  <2>1. Delete({"in", "out"}) /\ Move(t, l) /\ row' = row /\ l \notin {"clients.read", "clients.apply"}
    BY <1>5 DEF ClientsUnjump, Finish, Goto, db
  <2>2. {"in", "out"} \cap Jumps' = {}
    BY <1>1, <2>1, DeleteFact
  <2>3. ~row.fw \/ Pending({"rebuild"})
    BY <1>1, <1>5 DEF ClientsUnjump, At, Progress, RebuildPc, FwOffPc, SameRules
  <2>4. Owned'
    BY <1>2, <2>1, <2>2, <2>3 DEF Owned
  <2> QED
    BY <1>1, <2>1, <2>4, DeleteLone, JumpMoves
<1>6. CASE ClientsJump(t)
  <2> DEFINE add(j)  == IF j \in list[t] THEN <<>> ELSE <<j>>
             missing == add("in") \o add("out")
  <2>1. /\ list[t] = Jumps /\ Move(t, "clients.read") /\ "clients.read" \notin WaitPc
        /\ fwd' = fwd \o missing
    BY <1>1, <1>6 DEF ClientsJump, At, Goto, Progress, WaitPc
  <2>m. missing = Missing(list[t])
    BY DEF Missing
  <2> HIDE DEF missing
  <2>2. /\ missing \in Seq(Jump)
        /\ {missing[i] : i \in DOMAIN missing} = {"in", "out"} \ list[t]
        /\ \A i, j \in DOMAIN missing : missing[i] = missing[j] => i = j
    BY <2>m, MissingFact
  <2>3. Lone' /\ Jumps' = Jumps \union ({"in", "out"} \ list[t])
    <3>1. \A i \in DOMAIN missing : missing[i] \notin Jumps
      BY <2>1, <2>2
    <3> QED
      BY <1>1, <2>1, <2>2, <3>1, AddLone, AddFact
  <2>4. {"in", "out"} \subseteq Jumps'
    BY <2>1, <2>3
  <2> QED
    BY <1>1, <2>1, <2>3, <2>4, JumpMoves
<1>7. CASE ClientsApply(t)
  <2> DEFINE l == IF t = Main THEN "relock" ELSE "idle"
  <2>1. /\ pc[t] = "clients.apply" /\ Move(t, l) /\ UNCHANGED <<row, fwd>>
        /\ l \notin {"clients.read", "clients.apply"}
    BY <1>7 DEF ClientsApply, At, Finish, Goto, db
  <2>2. {"in", "out"} \subseteq Jumps /\ Jumps' = Jumps /\ Lone'
    BY <1>1, <2>1 DEF JumpInv, Steered, Jumps, Lone
  <2>3. row.fw \/ Pending({"rebuild"})
    BY <1>1, <2>1 DEF Progress, RebuildPc, FwOnPc, SameRules
  <2>4. Owned'
    BY <1>2, <2>1, <2>2, <2>3 DEF Owned
  <2> QED
    BY <1>1, <2>1, <2>2, <2>4, JumpMoves
<1> QED
  BY <1>3, <1>4, <1>5, <1>6, <1>7

LEMMA JumpStep == MaxNft = 1 /\ FirewallInv /\ JumpInv /\ [Next]_vars => JumpInv'
<1> SUFFICES ASSUME MaxNft = 1, FirewallInv, JumpInv, [Next]_vars PROVE JumpInv'
  OBVIOUS
<1>1. ASSUME NEW t \in Workers, Handle(t) PROVE JumpInv'
  BY <1>1, JumpQuiet DEF Tasks
<1>2. ASSUME NEW t \in Tasks, Rebuild(t) PROVE JumpInv'
  BY <1>2, JumpQuiet, JumpChanges DEF Rebuild
<1>3. ASSUME NEW t \in Tasks, RestartDown(t) PROVE JumpInv'
  <2>1. (\A u \in Tasks : pc[u] \in WaitPc) /\ fwd' = <<>>
    BY <1>3, NobodyInside DEF RestartDown
  <2>2. PICK l \in {"up", "up.proxy"} : Move(t, l)
    BY <1>3 DEF RestartDown, Goto
  <2>3. l \notin WaitPc /\ Lone'
    BY <2>1 DEF WaitPc, Lone
  <2> QED
    BY <2>1, <2>2, <2>3, JumpMoves
<1>4. ASSUME NEW t \in Tasks, Restart(t) PROVE JumpInv'
  BY <1>3, <1>4, JumpQuiet DEF Restart
<1>5. CASE UNCHANGED vars
  BY <1>5 DEF vars, JumpInv, Lone, Steered, Owned, Jumps, Pending
<1> QED
  BY <1>1, <1>2, <1>4, <1>5 DEF Next

\* With no handler at work each jump is there once, or not at all.
LEMMA InvJumpsOnce == FirewallInv /\ JumpInv => JumpsOnce
<1> SUFFICES ASSUME FirewallInv, JumpInv, Settled, NEW j \in Jump
             PROVE  Cardinality({i \in DOMAIN fwd : fwd[i] = j}) =
                      IF wiped = "no" /\ (IF j = "dns" THEN DnsOn(row) ELSE row.fw) THEN 1 ELSE 0
  BY DEF JumpsOnce
<1> DEFINE rule == {i \in DOMAIN fwd : fwd[i] = j}
<1>1. (\A t \in Tasks : pc[t] \in WaitPc) /\ ~Pending({"rebuild"})
  BY DEF Settled, At, WaitPc, Pending
<1>2. CASE j \in Jumps
  <2>1. PICK i \in DOMAIN fwd : fwd[i] = j
    BY <1>2 DEF Jumps
  <2>2. rule = {i}
    BY <2>1 DEF JumpInv, Lone
  <2>3. Cardinality(rule) = 1
    BY <2>2, FS_Singleton
  <2>4. wiped = "no"
    BY <1>1, <1>2 DEF FirewallInv, Calm, Wiped, Jumps
  <2>5. IF j = "dns" THEN DnsOn(row) ELSE row.fw
    <3>1. DnsState(row)
      BY <2>4, RulesOfRows
    <3> QED
      BY <1>1, <1>2, <2>4, <3>1 DEF JumpInv, Owned, DnsState, Jump
  <2> QED
    BY <2>3, <2>4, <2>5
<1>3. CASE j \notin Jumps
  <2>1. rule = {}
    BY <1>3 DEF Jumps
  <2>2. Cardinality(rule) = 0
    BY <2>1, FS_EmptySet
  <2>3. ASSUME wiped = "no" PROVE IF j = "dns" THEN ~DnsOn(row) ELSE ~row.fw
    <3>1. DnsState(row)
      BY <2>3, RulesOfRows
    <3> QED
      BY <1>1, <1>3, <2>3, <3>1 DEF JumpInv, Owned, DnsState, Jump
  <2> QED
    BY <2>2, <2>3
<1> QED
  BY <1>2, <1>3

\* With the firewall off only the lockdown's jump is left, which drops the
\* queries it does not redirect.
LEMMA InvLeakGuarded == FirewallInv /\ JumpInv => LeakGuarded
<1> SUFFICES ASSUME FirewallInv, JumpInv, Settled, DnsOn(row), ~row.fw, wiped = "no",
                    NEW p \in Out, p.query, Passes(p), Routed(p).place # "resolver"
             PROVE  FALSE
  BY DEF LeakGuarded
<1> DEFINE q == Routed(p)
<1>1. (\A t \in Tasks : pc[t] \in WaitPc) /\ ~Pending({"rebuild"})
  BY DEF Settled, At, WaitPc, Pending
<1>2. {"in", "out"} \cap Jumps = {}
  BY <1>1 DEF JumpInv, Owned
<1>3. DnsState(row) /\ fwd \in Seq(Jump)
  BY RulesOfRows DEF FirewallInv, FirewallShape
<1>4. p \in Packet /\ ~p.back
  BY DEF Out
<1>5. q.back = p.back /\ q.fam = p.fam /\ q.query = p.query /\ p.fam # nat
  BY <1>4 DEF Routed, Packet
<1> HIDE DEF q
<1>6. FilterVerdict(q) = "drop"
  <2>1. /\ filter = [mode |-> IF row.strict THEN "strict" ELSE "guard", target |-> row.target]
        /\ nat = row.target
    BY <1>3 DEF DnsState
  <2>2. q.place # "resolver" /\ q.query /\ q.fam # filter.target
    BY <1>5, <2>1 DEF q
  <2> QED
    BY <2>1, <2>2 DEF FilterVerdict
<1>7. PICK i \in DOMAIN fwd : fwd[i] = "dns"
  BY <1>3 DEF DnsState, Jumps
<1>8. Verdict(fwd[i], q) = "drop"
  BY <1>4, <1>5, <1>6, <1>7 DEF Verdict
<1>9. PICK j \in DOMAIN fwd : Verdict(fwd[j], q) = "accept"
  BY <1>3, <1>8, FirstVerdict DEF q
<1>10. fwd[j] = "dns"
  <2>1. fwd[j] \in Jump /\ fwd[j] \in Jumps
    BY <1>3 DEF Jumps
  <2> QED
    BY <1>2, <2>1 DEF Jump
<1> QED
  BY <1>4, <1>5, <1>6, <1>9, <1>10 DEF Verdict

\* init_chain and ensure_dns_chains are idempotent and the removals complete
\* (firewall.rs), whatever toggles, restarts and edits came before, one nft
\* transaction at a time.
THEOREM JumpsOnceEver == MaxNft = 1 => (Spec => []JumpsOnce)
<1> SUFFICES ASSUME MaxNft = 1 PROVE Spec => []JumpsOnce
  OBVIOUS
<1> QED
  BY FirewallStep, FirewallInit, JumpStep, JumpInit, InvJumpsOnce, PTL DEF Spec

\* With the per-client firewall off no query leaves but to the lockdown's
\* target, of either family (firewall.rs:539), in the same instances.
THEOREM LeakGuardedEver == MaxNft = 1 => (Spec => []LeakGuarded)
<1> SUFFICES ASSUME MaxNft = 1 PROVE Spec => []LeakGuarded
  OBVIOUS
<1> QED
  BY FirewallStep, FirewallInit, JumpStep, JumpInit, InvLeakGuarded, PTL DEF Spec
=============================================================================
