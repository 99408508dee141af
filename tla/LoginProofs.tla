---------------------------- MODULE LoginProofs ----------------------------
(***************************************************************************)
(* That a code is not replayed, for every number of requests, names, codes *)
(* and restarts, and every limit.                                          *)
(***************************************************************************)
EXTENDS Login, TLAPS

(***************************************************************************)
(* The shape of what a request holds, of the row and of the counters.      *)
(***************************************************************************)
Held ==
  [pc : {"idle", "clear"}]
    \cup [pc : {"lookup"}, name : Names, pw : Passwords, code : Int \X Int, floor : Nat]
    \cup [pc : {"last", "burn", "mint"}, step : Int, key : Int, floor : Nat]
    \cup [pc : {"setpw"}, new : Passwords]
    \cup [pc : {"setkey"}, key : Int]
    \cup [pc : {"setver", "enrol"}, step : Int, key : Int]

Shape ==
  /\ now \in Int
  /\ user \in [pw : Passwords, key : Int, verified : BOOLEAN, last : Int]
  /\ req \in [Reqs -> Held]
  /\ issued \in [tokens : Int, secrets : Int, requests : Int, restarts : Int]
  /\ taken \in Nat

(***************************************************************************)
(* NoReplay is not inductive: it speaks of a request about to mint.  Every *)
(* login began at a floor no higher than what has been taken since; one    *)
(* that passed the test against the watermark is above its floor, and one  *)
(* that wrote the watermark is below it; and nothing is taken above it.    *)
(***************************************************************************)
Begun(q)  == q.pc \in {"lookup", "last", "burn", "mint"} => q.floor <= taken
Passed(q) == q.pc = "burn" => q.floor < q.step
Marked(q) == q.pc = "mint" /\ q.step > 0 => q.floor < q.step /\ q.step <= user.last

Watermark ==
  /\ taken <= user.last
  /\ \A r \in Reqs : Begun(req[r]) /\ Passed(req[r]) /\ Marked(req[r])

ReplayInv == Shape /\ Watermark

-----------------------------------------------------------------------------
\* What the larger of two steps is.
LEMMA MaxFact == \A a, b \in Int : /\ Max2(a, b) \in Int
                                   /\ a <= Max2(a, b) /\ b <= Max2(a, b)
                                   /\ Max2(a, b) \in {a, b}
BY DEF Max2

\* A submitted code is a pair of numbers.
LEMMA CodeFact == ASSUME Shape, NEW c \in Codes PROVE c \in Int \X Int
BY DEF Codes, NoCode, None, Empty, Shape

\* verify_totp_secret_step returns a step.
LEMMA MatchFact == \A key \in Int, code \in Int \X Int : Match(key, code) \in Int
BY DEF Match

\* The invariant holds of the row the wizard left.
LEMMA ReplayInit == Init => ReplayInv
<1> SUFFICES ASSUME Init PROVE ReplayInv
  OBVIOUS
<1>1. /\ user \in [pw : Passwords, key : Int, verified : BOOLEAN, last : Int]
      /\ user.last = 0
  <2>1. CASE user = [pw |-> "old", key |-> None, verified |-> FALSE, last |-> 0]
    BY <2>1 DEF None, Passwords
  <2>2. CASE user = [pw |-> "old", key |-> 1, verified |-> TRUE, last |-> 0]
    BY <2>2 DEF Passwords
  <2> QED
    BY <2>1, <2>2 DEF Init
<1>2. Max2(user.key, 0) \in Int
  BY <1>1, MaxFact
<1>3. Idle \in Held
  BY DEF Idle, Held
<1> QED
  BY <1>1, <1>2, <1>3 DEF Init, ReplayInv, Shape, Watermark, Begun, Passed, Marked, Idle

-----------------------------------------------------------------------------
(***************************************************************************)
(* A step that leaves the row's watermark and what was taken alone keeps   *)
(* the invariant when what its request comes to hold satisfies it.         *)
(***************************************************************************)
LEMMA HoldKeeps ==
  ASSUME ReplayInv, NEW r \in Reqs, NEW q \in Held,
         req' = [req EXCEPT ![r] = q], Begun(q), Passed(q), Marked(q),
         taken' = taken,
         user' \in [pw : Passwords, key : Int, verified : BOOLEAN, last : Int],
         user'.last = user.last, now' = now,
         issued' \in [tokens : Int, secrets : Int, requests : Int, restarts : Int]
  PROVE  ReplayInv'
<1>1. Shape'
  BY DEF ReplayInv, Shape
<1>2. Watermark'
  BY DEF ReplayInv, Shape, Watermark, Begun, Passed, Marked
<1> QED
  BY <1>1, <1>2 DEF ReplayInv

\* A request that starts or ends.
LEMMA Counted ==
  ASSUME Shape, Count PROVE issued' \in [tokens : Int, secrets : Int, requests : Int, restarts : Int]
BY DEF Shape, Count

\* What a handler other than login holds says nothing of the watermark.
LEMMA PlainHeld ==
  ASSUME NEW q \in Held, q.pc \in {"idle", "clear", "setpw", "setkey", "setver", "enrol"}
  PROVE  Begun(q) /\ Passed(q) /\ Marked(q)
BY DEF Begun, Passed, Marked

\* Nor does a request that is not there.
LEMMA IdleHeld == Idle \in Held /\ Begun(Idle) /\ Passed(Idle) /\ Marked(Idle)
BY DEF Idle, Held, Begun, Passed, Marked

-----------------------------------------------------------------------------
\* create_session: the gate, the row, the watermark read, burnt, the token.
LEMMA LoginKeeps ==
  ASSUME LimitsAssumption, ReplayInv, NEW r \in Reqs,
         Gate(r) \/ Lookup(r) \/ ReadLast(r) \/ Burn(r) \/ Mint(r)
  PROVE  ReplayInv'
<1> USE DEF ReplayInv
<1>1. CASE Gate(r)
  <2>1. PICK form \in Forms : \/ Done(r)
                              \/ Hold(r, Asked(form))
    BY <1>1 DEF Gate
  <2>2. issued' \in [tokens : Int, secrets : Int, requests : Int, restarts : Int]
    BY <1>1, Counted DEF Gate
  <2>3. Asked(form) \in Held /\ Asked(form).pc = "lookup" /\ Asked(form).floor = taken
    <3>1. form.code \in Int \X Int
      BY <2>1, CodeFact DEF Forms, NoCode, None
    <3>2. form.name \in Names /\ form.pw \in Passwords
      BY <2>1 DEF Forms, LimitsAssumption, Passwords
    <3> QED
      BY <3>1, <3>2 DEF Asked, Held, Shape
  <2>4. Begun(Asked(form)) /\ Passed(Asked(form)) /\ Marked(Asked(form))
    BY <2>3 DEF Begun, Passed, Marked, Shape
  <2>5. /\ user' = user /\ taken' = taken /\ now' = now
        /\ user \in [pw : Passwords, key : Int, verified : BOOLEAN, last : Int]
    BY <1>1 DEF Gate, Shape
  <2>6. CASE Done(r)
    BY <2>6, <2>2, <2>5, IdleHeld, HoldKeeps DEF Done, Hold
  <2>7. CASE Hold(r, Asked(form))
    BY <2>7, <2>2, <2>3, <2>4, <2>5, HoldKeeps DEF Hold
  <2> QED
    BY <2>1, <2>6, <2>7
<1>2. CASE Lookup(r)
  <2> DEFINE q    == req[r]
             step == Match(user.key, q.code)
             free == [pc |-> "mint", step |-> 0, key |-> user.key, floor |-> q.floor]
             last == [pc |-> "last", step |-> step, key |-> user.key, floor |-> q.floor]
  <2>1. q \in Held /\ q.pc = "lookup" /\ q.code \in Int \X Int /\ q.floor \in Nat /\ q.floor <= taken
    <3>1. q \in Held /\ q.pc = "lookup" /\ Begun(q)
      BY <1>2 DEF Lookup, Shape, Watermark
    <3> QED
      BY <3>1 DEF Held, Begun
  <2>2. step \in Int /\ user.key \in Int
    BY <2>1, MatchFact DEF Shape
  <2>3. free \in Held /\ Begun(free) /\ Passed(free) /\ Marked(free)
    BY <2>1, <2>2 DEF Held, Begun, Passed, Marked
  <2>4. last \in Held /\ Begun(last) /\ Passed(last) /\ Marked(last)
    BY <2>1, <2>2 DEF Held, Begun, Passed, Marked
  <2>5. /\ user' = user /\ taken' = taken /\ now' = now /\ issued' = issued
        /\ user \in [pw : Passwords, key : Int, verified : BOOLEAN, last : Int]
        /\ issued \in [tokens : Int, secrets : Int, requests : Int, restarts : Int]
    BY <1>2 DEF Lookup, Shape
  <2>6. Done(r) \/ Hold(r, free) \/ Hold(r, last)
    BY <1>2 DEF Lookup
  <2>7. CASE Done(r)
    BY <2>7, <2>5, IdleHeld, HoldKeeps DEF Done, Hold
  <2>8. CASE Hold(r, free)
    BY <2>8, <2>3, <2>5, HoldKeeps DEF Hold
  <2>9. CASE Hold(r, last)
    BY <2>9, <2>4, <2>5, HoldKeeps DEF Hold
  <2> QED
    BY <2>6, <2>7, <2>8, <2>9
<1>3. CASE ReadLast(r)
  <2> DEFINE q    == req[r]
             burn == [q EXCEPT !.pc = "burn"]
  <2>1. q \in [pc : {"last"}, step : Int, key : Int, floor : Nat] /\ q.floor <= taken
    <3>1. q \in Held /\ q.pc = "last" /\ Begun(q)
      BY <1>3 DEF ReadLast, Shape, Watermark
    <3> QED
      BY <3>1 DEF Held, Begun
  <2>2. /\ user' = user /\ taken' = taken /\ now' = now /\ issued' = issued
        /\ user \in [pw : Passwords, key : Int, verified : BOOLEAN, last : Int]
        /\ issued \in [tokens : Int, secrets : Int, requests : Int, restarts : Int]
        /\ taken \in Nat /\ user.last \in Int /\ taken <= user.last
    BY <1>3 DEF ReadLast, Shape, Watermark
  <2>3. CASE q.step <= user.last
    <3>1. Done(r)
      BY <1>3, <2>3 DEF ReadLast
    <3> QED
      BY <3>1, <2>2, IdleHeld, HoldKeeps DEF Done, Hold
  <2>4. CASE ~ (q.step <= user.last)
    <3>1. Hold(r, burn)
      BY <1>3, <2>4 DEF ReadLast
    <3>2. burn \in Held /\ Begun(burn) /\ Passed(burn) /\ Marked(burn)
      BY <2>1, <2>2, <2>4 DEF Held, Begun, Passed, Marked
    <3> QED
      BY <3>1, <3>2, <2>2, HoldKeeps DEF Hold
  <2> QED
    BY <2>3, <2>4
<1>4. CASE Burn(r)
  <2> DEFINE q    == req[r]
             mint == [q EXCEPT !.pc = "mint"]
  <2>1. q \in [pc : {"burn"}, step : Int, key : Int, floor : Nat]
    <3>1. q \in Held /\ q.pc = "burn"
      BY <1>4 DEF Burn, Shape
    <3> QED
      BY <3>1 DEF Held
  <2>2. q.floor <= taken /\ q.floor < q.step
    BY <2>1 DEF Watermark, Begun, Passed
  <2>3. /\ user.last \in Int
        /\ user'.last = Max2(user.last, q.step)
        /\ user' \in [pw : Passwords, key : Int, verified : BOOLEAN, last : Int]
    BY <1>4, <2>1, MaxFact DEF Burn, Advance, Shape
  <2>4. /\ user.last <= user'.last /\ q.step <= user'.last /\ user'.last \in Int
    BY <2>1, <2>3 DEF Max2
  <2>5. req' = [req EXCEPT ![r] = mint] /\ mint \in Held /\ taken' = taken
    BY <1>4, <2>1 DEF Burn, Hold, Held
  <2>6. Shape'
    BY <1>4, <2>3, <2>5 DEF Burn, Shape
  <2>7. taken' <= user'.last
    BY <2>3, <2>4, <2>5 DEF Shape, Watermark
  <2>8. ASSUME NEW s \in Reqs PROVE (Begun(req[s]) /\ Passed(req[s]) /\ Marked(req[s]))'
    <3>1. CASE s = r
      BY <3>1, <2>1, <2>2, <2>4, <2>5 DEF Shape, Begun, Passed, Marked
    <3>2. CASE s # r
      <4>1. req'[s] = req[s] /\ req[s] \in Held
        BY <3>2, <2>5 DEF Shape
      <4>2. req[s].pc = "mint" => req[s].step \in Int
        BY <4>1 DEF Held
      <4> QED
        BY <4>1, <4>2, <2>3, <2>4, <2>5 DEF Watermark, Begun, Passed, Marked
    <3> QED
      BY <3>1, <3>2
  <2> QED
    BY <2>6, <2>7, <2>8 DEF Watermark
<1>5. CASE Mint(r)
  <2> DEFINE q == req[r]
  <2>1. q \in [pc : {"mint"}, step : Int, key : Int, floor : Nat]
    <3>1. q \in Held /\ q.pc = "mint"
      BY <1>5 DEF Mint, Shape
    <3> QED
      BY <3>1 DEF Held
  <2>2. q.step > 0 => q.step <= user.last
    BY <2>1 DEF Watermark, Marked
  <2>3. /\ taken' = Max2(taken, q.step) /\ user' = user
        /\ req' = [req EXCEPT ![r] = Idle]
    BY <1>5 DEF Mint, Done, Hold
  <2>4. taken \in Nat /\ user.last \in Int /\ taken <= user.last
    BY DEF Shape, Watermark
  <2>5. taken' \in Nat /\ taken <= taken' /\ taken' <= user.last
    BY <2>1, <2>2, <2>3, <2>4, MaxFact
  <2>6. Shape'
    BY <1>5, <2>3, <2>5, IdleHeld DEF Mint, Shape
  <2>7. ASSUME NEW s \in Reqs PROVE (Begun(req[s]) /\ Passed(req[s]) /\ Marked(req[s]))'
    <3>1. CASE s = r
      BY <3>1, <2>3, IdleHeld DEF Shape, Begun, Passed, Marked, Idle
    <3>2. CASE s # r
      <4>1. req'[s] = req[s] /\ req[s] \in Held
        BY <3>2, <2>3 DEF Shape
      <4>2. req[s].pc \in {"lookup", "last", "burn", "mint"} => req[s].floor \in Nat
        BY <4>1 DEF Held
      <4> QED
        BY <4>1, <4>2, <2>3, <2>4, <2>5 DEF Watermark, Begun, Passed, Marked
    <3> QED
      BY <3>1, <3>2
  <2> QED
    BY <2>3, <2>5, <2>6, <2>7 DEF Watermark
<1> QED
  BY <1>1, <1>2, <1>3, <1>4, <1>5

-----------------------------------------------------------------------------
\* The other handlers leave the watermark alone, but for the end of an
\* enrolment, which advances it and takes its step at once.
LEMMA AccountKeeps ==
  ASSUME LimitsAssumption, ReplayInv, NEW r \in Reqs,
         \/ ChangePassword(r) \/ StorePassword(r)
         \/ Setup(r) \/ StoreSecret(r) \/ Create(r) \/ StoreVerified(r)
         \/ Delete(r) \/ ClearSecret(r) \/ Logout(r) \/ SetTimeout(r)
  PROVE  ReplayInv'
<1> USE DEF ReplayInv
<1> DEFINE Row == [pw : Passwords, key : Int, verified : BOOLEAN, last : Int]
           Counters == [tokens : Int, secrets : Int, requests : Int, restarts : Int]
<1>0. /\ user \in Row /\ issued \in Counters /\ req \in [Reqs -> Held]
      /\ Empty \in Int
  BY DEF Shape, Empty
<1>1. CASE ChangePassword(r)
  <2>1. PICK new \in Passwords : Hold(r, [pc |-> "setpw", new |-> new])
    BY <1>1 DEF ChangePassword
  <2>2. [pc |-> "setpw", new |-> new] \in Held
    BY DEF Held
  <2>3. issued' \in Counters
    BY <1>1, Counted DEF ChangePassword
  <2> QED
    BY <1>0, <1>1, <2>1, <2>2, <2>3, PlainHeld, HoldKeeps DEF ChangePassword, Hold
<1>2. CASE StorePassword(r)
  <2>1. req[r] \in Held /\ req[r].pc = "setpw"
    BY <1>0, <1>2 DEF StorePassword
  <2>2. req[r].new \in Passwords
    BY <2>1 DEF Held
  <2>3. user' \in Row /\ user'.last = user.last
    BY <1>0, <1>2, <2>2 DEF StorePassword
  <2> QED
    BY <1>0, <1>2, <2>3, IdleHeld, HoldKeeps DEF StorePassword, Done, Hold
<1>3. CASE Setup(r)
  <2> DEFINE next == [pc |-> "setkey", key |-> issued.secrets + 1]
  <2>1. next \in Held
    BY <1>0 DEF Held
  <2>2. issued' \in Counters
    <3> DEFINE counted == [issued EXCEPT !.requests = @ + 1]
    <3>1. counted \in Counters
      BY <1>0
    <3>2. issued' = [counted EXCEPT !.secrets = issued.secrets + 1]
      BY <1>0, <1>3 DEF Setup
    <3>3. issued.secrets + 1 \in Int
      BY <1>0
    <3> HIDE DEF counted
    <3> QED
      BY <3>1, <3>2, <3>3
  <2> QED
    BY <1>0, <1>3, <2>1, <2>2, PlainHeld, HoldKeeps DEF Setup, Hold
<1>4. CASE StoreSecret(r)
  <2>1. req[r] \in Held /\ req[r].pc = "setkey"
    BY <1>0, <1>4 DEF StoreSecret
  <2>2. req[r].key \in Int
    BY <2>1 DEF Held
  <2>3. user' \in Row /\ user'.last = user.last
    BY <1>0, <1>4, <2>2 DEF StoreSecret
  <2> QED
    BY <1>0, <1>4, <2>3, IdleHeld, HoldKeeps DEF StoreSecret, Done, Hold
<1>5. CASE Create(r)
  <2>1. PICK code \in Codes :
          Done(r) \/ Hold(r, [pc |-> "setver", step |-> code[2], key |-> user.key])
    BY <1>5 DEF Create
  <2>2. [pc |-> "setver", step |-> code[2], key |-> user.key] \in Held
    BY <1>0, CodeFact DEF Held
  <2>3. issued' \in Counters
    BY <1>5, Counted DEF Create
  <2>4. CASE Done(r)
    BY <1>0, <1>5, <2>3, <2>4, IdleHeld, HoldKeeps DEF Create, Done, Hold
  <2>5. CASE Hold(r, [pc |-> "setver", step |-> code[2], key |-> user.key])
    BY <1>0, <1>5, <2>2, <2>3, <2>5, PlainHeld, HoldKeeps DEF Create, Hold
  <2> QED
    BY <2>1, <2>4, <2>5
<1>6. CASE StoreVerified(r)
  <2> DEFINE next == [req[r] EXCEPT !.pc = "enrol"]
  <2>1. req[r] \in Held /\ req[r].pc = "setver"
    BY <1>0, <1>6 DEF StoreVerified
  <2>2. req[r] \in [pc : {"setver", "enrol"}, step : Int, key : Int]
    BY <2>1 DEF Held
  <2>3. next \in Held /\ next.pc = "enrol"
    BY <2>2 DEF Held
  <2>4. user' \in Row /\ user'.last = user.last
    BY <1>0, <1>6 DEF StoreVerified
  <2> QED
    BY <1>0, <1>6, <2>3, <2>4, PlainHeld, HoldKeeps DEF StoreVerified, Hold
<1>7. CASE Delete(r)
  <2>1. [pc |-> "clear"] \in Held
    BY DEF Held
  <2>2. issued' \in Counters
    BY <1>7, Counted DEF Delete
  <2> QED
    BY <1>0, <1>7, <2>1, <2>2, PlainHeld, HoldKeeps DEF Delete, Hold
<1>8. CASE ClearSecret(r)
  <2>1. user' \in Row /\ user'.last = user.last
    BY <1>0, <1>8 DEF ClearSecret
  <2> QED
    BY <1>0, <1>8, <2>1, IdleHeld, HoldKeeps DEF ClearSecret, Done, Hold
<1>9. CASE Logout(r) \/ SetTimeout(r)
  <2>1. issued' \in Counters
    BY <1>9, Counted DEF Logout, SetTimeout
  <2>2. req' = req /\ user' = user /\ taken' = taken /\ now' = now
    BY <1>9 DEF Logout, SetTimeout
  <2> QED
    BY <2>1, <2>2 DEF Shape, Watermark, Begun, Passed, Marked
<1> QED
  BY <1>1, <1>2, <1>3, <1>4, <1>5, <1>6, <1>7, <1>8, <1>9

\* The end of an enrolment: its step is burnt and taken at once.
LEMMA EnrolledKeeps ==
  ASSUME ReplayInv, NEW r \in Reqs, Enrolled(r) PROVE ReplayInv'
<1> DEFINE q == req[r]
<1>1. q \in [pc : {"enrol"}, step : Int, key : Int]
  <2>1. q \in Held /\ q.pc = "enrol"
    BY DEF Enrolled, ReplayInv, Shape
  <2> QED
    BY <2>1 DEF Held
<1>2. /\ taken' = Max2(taken, q.step)
      /\ user'.last = Max2(user.last, q.step)
      /\ user' \in [pw : Passwords, key : Int, verified : BOOLEAN, last : Int]
      /\ req' = [req EXCEPT ![r] = Idle]
  BY <1>1, MaxFact DEF Enrolled, Advance, Done, Hold, ReplayInv, Shape
<1>3. taken \in Nat /\ user.last \in Int /\ taken <= user.last
  BY DEF ReplayInv, Shape, Watermark
<1>4. taken' \in Nat /\ taken <= taken' /\ taken' <= user'.last /\ user.last <= user'.last
  BY <1>1, <1>2, <1>3 DEF Max2
<1>5. Shape'
  BY <1>2, <1>4, IdleHeld DEF Enrolled, ReplayInv, Shape
<1>6. ASSUME NEW s \in Reqs PROVE (Begun(req[s]) /\ Passed(req[s]) /\ Marked(req[s]))'
  <2>1. CASE s = r
    BY <2>1, <1>2 DEF ReplayInv, Shape, Begun, Passed, Marked, Idle
  <2>2. CASE s # r
    <3>1. req'[s] = req[s] /\ req[s] \in Held
      BY <2>2, <1>2 DEF ReplayInv, Shape
    <3>2. req[s].pc \in {"lookup", "last", "burn", "mint"} => req[s].floor \in Nat
      BY <3>1 DEF Held
    <3>3. req[s].pc = "mint" => req[s].step \in Int
      BY <3>1 DEF Held
    <3>4. user'.last \in Int
      BY <1>2
    <3> QED
      BY <3>1, <3>2, <3>3, <3>4, <1>3, <1>4
      DEF ReplayInv, Watermark, Begun, Passed, Marked
  <2> QED
    BY <2>1, <2>2
<1> QED
  BY <1>4, <1>5, <1>6 DEF ReplayInv, Watermark

-----------------------------------------------------------------------------
\* The cron job, the clock and a restart; the row outlives the process.
LEMMA WorldKeeps ==
  ASSUME ReplayInv, CronRead \/ Prune \/ Tick \/ Restart \/ UNCHANGED vars
  PROVE  ReplayInv'
<1> USE DEF ReplayInv
<1>1. CASE CronRead \/ Prune \/ Tick \/ UNCHANGED vars
  <2>1. /\ req' = req /\ user' = user /\ taken' = taken /\ issued' = issued
        /\ now' \in Int
    BY <1>1 DEF CronRead, Prune, Tick, vars, Shape
  <2> QED
    BY <2>1 DEF Shape, Watermark, Begun, Passed, Marked
<1>2. CASE Restart
  <2>1. /\ req' = [r \in Reqs |-> Idle] /\ user' = user /\ taken' = taken /\ now' = now
        /\ issued' \in [tokens : Int, secrets : Int, requests : Int, restarts : Int]
    BY <1>2 DEF Restart, Shape
  <2> QED
    BY <2>1, IdleHeld DEF Shape, Watermark, Begun, Passed, Marked, Idle
<1> QED
  BY <1>1, <1>2

\* Every step of the specification.
LEMMA ReplayStep ==
  ASSUME LimitsAssumption, ReplayInv, [Next]_vars PROVE ReplayInv'
<1>1. ASSUME NEW r \in Reqs, Handler(r) PROVE ReplayInv'
  BY <1>1, LoginKeeps, AccountKeeps, EnrolledKeeps DEF Handler
<1>2. CASE CronRead \/ Prune \/ Tick \/ Restart \/ UNCHANGED vars
  BY <1>2, WorldKeeps
<1> QED
  BY <1>1, <1>2 DEF Next

(***************************************************************************)
(* A login that begins after another login or an enrolment finished is     *)
(* never let in with the step of its code, nor with an earlier one         *)
(* (create_session, update_totp): whatever runs in between, for any number *)
(* of requests, secrets, password changes and restarts.                    *)
(***************************************************************************)
THEOREM NoCodeReplayed == Spec => []NoReplay
<1>1. Init => ReplayInv
  BY ReplayInit
<1>2. ReplayInv /\ [Next]_vars => ReplayInv'
  BY ReplayStep, LimitsAssumption
<1>3. ReplayInv => NoReplay
  BY DEF ReplayInv, Watermark, Marked, NoReplay
<1> QED
  BY <1>1, <1>2, <1>3, PTL DEF Spec
=============================================================================
