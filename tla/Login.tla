------------------------------- MODULE Login -------------------------------
(***************************************************************************)
(* Login, sessions, the rate limiters and the second factor: api/session.rs *)
(* and the session helpers of api/mod.rs.  Handlers run on several threads  *)
(* and hold a lock (sessions, attempts, database) for one statement at a    *)
(* time, so a step below is what happens between two of them: what a        *)
(* request read of its row stays in the request.                            *)
(*                                                                         *)
(* Time counts TOTP steps of thirty seconds.  A code is the pair of the     *)
(* secret and the step it was computed from (hotp_sha1 taken injective).    *)
(* There is one account, as the setup wizard leaves it; other names exist   *)
(* only as login attempts.  The database is on disk: a restart keeps the    *)
(* row and drops the sessions and both limiters.                            *)
(***************************************************************************)
EXTENDS Integers, Sequences, FiniteSets, TLC

CONSTANTS
  Reqs,          \* requests in flight
  Names, Admin,  \* user names submitted; the one that has an account
  Addrs,         \* source addresses
  UserLimit,     \* attempts of a name in a window (10)
  IpLimit,       \* attempts of an address in a window (50)
  Window,        \* both windows, in steps (2: 60 s)
  MaxKeys,       \* MAX_RATE_LIMIT_KEYS
  TotpLimit,     \* code attempts in a TOTP window (5)
  TotpWindow,    \* in steps (10: 300 s)
  Timeouts,      \* values of session_timeout
  MaxTime, MaxRequests, MaxSecrets, MaxRestarts   \* bounds

ASSUME LimitsAssumption ==
  /\ Admin \in Names
  /\ {UserLimit, IpLimit, TotpLimit, Window, TotpWindow} \subseteq Nat \ {0}
  /\ {MaxKeys, MaxTime, MaxRequests, MaxSecrets, MaxRestarts} \subseteq Nat
  /\ Timeouts # {} /\ Timeouts \subseteq Nat

VARIABLES
  now,        \* the clock, in TOTP steps
  user,       \* the account's row
  timeout,    \* general_table.session_timeout
  sessions,   \* AppState.sessions: token -> created_at
  attempts,   \* LOGIN_ATTEMPTS: key -> times, for the keys present
  totp,       \* TOTP_ATTEMPTS of the account
  req,        \* what each request holds
  cron,       \* the timeout the cron job has read, or None
  issued,     \* tokens issued, secrets generated, requests started, restarts
  taken       \* history: the highest step a finished login or enrolment took

vars == <<now, user, timeout, sessions, attempts, totp, req, cron, issued, taken>>

None == -1
Empty == 0           \* totp_key = '' once the factor was deleted
Secrets == 1 .. MaxSecrets
Passwords == {"old", "new"}
NoCode == <<None, None>>

\* A user row: totp_key is NULL until the first setup.
Rows == [pw : Passwords, key : {None, Empty} \cup Secrets, verified : BOOLEAN,
         last : 0 .. MaxTime + 1]

Idle == [pc |-> "idle"]

\* Codes a client can hold: of a secret it was shown or of the empty one, of a
\* step near the clock.
Codes == {NoCode} \cup ((Empty .. issued.secrets) \X ((now - 1) .. (now + 1)))

\* What is submitted at the login form: of a name without an account, only the
\* name matters.
Forms ==
  [name : {Admin}, pw : Passwords, code : Codes]
    \cup [name : Names \ {Admin}, pw : {"old"}, code : {NoCode}]

Fresh(times, width) == SelectSeq(times, LAMBDA t : now - t < width)

\* rate_limit_key: a name and an address never share a bucket.
UserKey(n) == <<"user", n>>
IpKey(a) == <<"ip", a>>

Put(f, k, v) == (k :> v) @@ f

\* The sweep of aged-out windows, once the map is over its cap.
Swept ==
  IF Cardinality(DOMAIN attempts) <= MaxKeys THEN attempts
  ELSE LET live == {k \in DOMAIN attempts : Fresh(attempts[k], Window) # <<>>}
       IN [k \in live |-> Fresh(attempts[k], Window)]

Recent(k) == IF k \in DOMAIN Swept THEN Fresh(Swept[k], Window) ELSE <<>>

\* verify_totp_secret_step: the step whose code this is, if it is one of the
\* three the clock allows, else 0.
Match(key, code) ==
  IF code[1] = key /\ code[2] \in (now - 1) .. (now + 1) THEN code[2] ELSE 0

TotpOpen == Len(Fresh(totp, TotpWindow)) < TotpLimit
TotpBurn == totp' = Append(Fresh(totp, TotpWindow), now)

Max2(a, b) == IF a > b THEN a ELSE b

\* The row as the wizard left it, or with the factor of an earlier run.
Init ==
  /\ now = 1
  /\ user \in {[pw |-> "old", key |-> None, verified |-> FALSE, last |-> 0],
              [pw |-> "old", key |-> 1, verified |-> TRUE, last |-> 0]}
  /\ timeout \in Timeouts
  /\ sessions = << >>
  /\ attempts = << >>
  /\ totp = << >>
  /\ req = [r \in Reqs |-> Idle]
  /\ cron = None
  /\ issued = [tokens |-> 0, secrets |-> Max2(user.key, 0), requests |-> 0, restarts |-> 0]
  /\ taken = 0

Begin(r) ==
  /\ req[r] = Idle
  /\ issued.requests < MaxRequests

Count == issued' = [issued EXCEPT !.requests = @ + 1]

Hold(r, what) == req' = [req EXCEPT ![r] = what]

Done(r) == Hold(r, Idle)

------------------------------------------------------------------------------
(* POST /api/session                                                         *)

Asked(form) == [pc |-> "lookup", name |-> form.name, pw |-> form.pw,
                code |-> form.code, floor |-> taken]

\* The limiter, under its lock: the sweep and the cap, then the name's bucket,
\* then the address's.  A request refused by the address has already been
\* recorded against the name.
Gate(r) ==
  \E form \in Forms, a \in Addrs :
    /\ Begin(r)
    /\ Count
    /\ LET n == form.name
           named == Put(Swept, UserKey(n), Append(Recent(UserKey(n)), now))
       IN \/ /\ Cardinality(DOMAIN Swept) > MaxKeys
             /\ attempts' = Swept
             /\ Done(r)
          \/ /\ Cardinality(DOMAIN Swept) <= MaxKeys
             /\ Len(Recent(UserKey(n))) >= UserLimit
             /\ attempts' = Put(Swept, UserKey(n), Recent(UserKey(n)))
             /\ Done(r)
          \/ /\ Cardinality(DOMAIN Swept) <= MaxKeys
             /\ Len(Recent(UserKey(n))) < UserLimit
             /\ Len(Recent(IpKey(a))) >= IpLimit
             /\ attempts' = Put(named, IpKey(a), Recent(IpKey(a)))
             /\ Done(r)
          \/ /\ Cardinality(DOMAIN Swept) <= MaxKeys
             /\ Len(Recent(UserKey(n))) < UserLimit
             /\ Len(Recent(IpKey(a))) < IpLimit
             /\ attempts' = Put(named, IpKey(a), Append(Recent(IpKey(a)), now))
             /\ Hold(r, Asked(form))
    /\ UNCHANGED <<now, user, timeout, sessions, totp, cron, taken>>

\* The row is read and the password checked against it; with an active second
\* factor the code is rated and matched too.  Without a code: TOTP_REQUIRED.
Lookup(r) ==
  /\ req[r].pc = "lookup"
  /\ LET q == req[r]
         step == Match(user.key, q.code)
     IN \/ /\ q.name # Admin \/ q.pw # user.pw
           /\ Done(r)
           /\ UNCHANGED totp
        \/ /\ q.name = Admin /\ q.pw = user.pw
           /\ ~user.verified \/ user.key \in {None, Empty}
           /\ Hold(r, [pc |-> "mint", step |-> 0, key |-> user.key, floor |-> q.floor])
           /\ UNCHANGED totp
        \/ /\ q.name = Admin /\ q.pw = user.pw
           /\ user.verified /\ user.key \in Secrets
           /\ q.code = NoCode \/ ~TotpOpen
           /\ Done(r)
           /\ UNCHANGED totp
        \/ /\ q.name = Admin /\ q.pw = user.pw
           /\ user.verified /\ user.key \in Secrets
           /\ q.code # NoCode /\ TotpOpen
           /\ TotpBurn
           /\ IF step = 0 THEN Done(r)
              ELSE Hold(r, [pc |-> "last", step |-> step, key |-> user.key, floor |-> q.floor])
  /\ UNCHANGED <<now, user, timeout, sessions, attempts, cron, issued, taken>>

\* get_totp_last_step.
ReadLast(r) ==
  /\ req[r].pc = "last"
  /\ IF req[r].step <= user.last THEN Done(r) ELSE Hold(r, [req[r] EXCEPT !.pc = "burn"])
  /\ UNCHANGED <<now, user, timeout, sessions, attempts, totp, cron, issued, taken>>

Advance_Plain(step) == \* Faulty variant: the watermark is overwritten.
  user' = [user EXCEPT !.last = step]

\* set_totp_last_step only ever advances.
Advance(step) == user' = [user EXCEPT !.last = Max2(@, step)]

Burn(r) ==
  /\ req[r].pc = "burn"
  /\ Advance(req[r].step)
  /\ Hold(r, [req[r] EXCEPT !.pc = "mint"])
  /\ UNCHANGED <<now, timeout, sessions, attempts, totp, cron, issued, taken>>

\* The token and its session; the login is answered.
Mint(r) ==
  /\ req[r].pc = "mint"
  /\ issued' = [issued EXCEPT !.tokens = @ + 1]
  /\ sessions' = Put(sessions, issued.tokens + 1, now)
  /\ taken' = Max2(taken, req[r].step)
  /\ Done(r)
  /\ UNCHANGED <<now, user, timeout, attempts, totp, cron>>

------------------------------------------------------------------------------
(* Requests that carry a session: require_auth, then the handler.            *)

Expired(tok) == now - sessions[tok] > timeout

\* require_auth holds the sessions lock over its reads of the timeout and of
\* the user's row.
Authorised(tok) == tok \in DOMAIN sessions /\ ~Expired(tok)

\* POST /api/me/password: the current password is checked against the row.
ChangePassword(r) ==
  /\ Begin(r)
  /\ \E tok \in DOMAIN sessions, pw, new \in Passwords :
       /\ Authorised(tok) /\ pw = user.pw
       /\ Hold(r, [pc |-> "setpw", new |-> new])
  /\ Count
  /\ UNCHANGED <<now, user, timeout, sessions, attempts, totp, cron, taken>>

StorePassword(r) ==
  /\ req[r].pc = "setpw"
  /\ user' = [user EXCEPT !.pw = req[r].new]
  /\ Done(r)
  /\ UNCHANGED <<now, timeout, sessions, attempts, totp, cron, issued, taken>>

\* POST /api/me/totp, setup: an active factor asks for the password.
Setup(r) ==
  /\ Begin(r)
  /\ issued.secrets < MaxSecrets
  /\ \E tok \in DOMAIN sessions, pw \in Passwords :
       /\ Authorised(tok)
       /\ user.verified => pw = user.pw
  /\ Hold(r, [pc |-> "setkey", key |-> issued.secrets + 1])
  /\ issued' = [issued EXCEPT !.requests = @ + 1, !.secrets = @ + 1]
  /\ UNCHANGED <<now, user, timeout, sessions, attempts, totp, cron, taken>>

StoreSecret(r) ==
  /\ req[r].pc = "setkey"
  /\ user' = [user EXCEPT !.key = req[r].key, !.verified = FALSE]
  /\ Done(r)
  /\ UNCHANGED <<now, timeout, sessions, attempts, totp, cron, issued, taken>>

\* ... create: the code is rated, then matched against the secret of the row
\* as it was read.
Create(r) ==
  /\ Begin(r)
  /\ \E tok \in DOMAIN sessions, code \in Codes :
       /\ Authorised(tok)
       /\ user.key # None
       /\ TotpOpen
       /\ TotpBurn
       /\ IF Match(user.key, code) = 0 THEN Done(r)
          ELSE Hold(r, [pc |-> "setver", step |-> code[2], key |-> user.key])
  /\ Count
  /\ UNCHANGED <<now, user, timeout, sessions, attempts, cron, taken>>

StoreVerified(r) ==
  /\ req[r].pc = "setver"
  /\ user' = [user EXCEPT !.verified = TRUE]
  /\ Hold(r, [req[r] EXCEPT !.pc = "enrol"])
  /\ UNCHANGED <<now, timeout, sessions, attempts, totp, cron, issued, taken>>

\* The enrolment code's step is consumed.
Enrolled(r) ==
  /\ req[r].pc = "enrol"
  /\ Advance(req[r].step)
  /\ taken' = Max2(taken, req[r].step)
  /\ Done(r)
  /\ UNCHANGED <<now, timeout, sessions, attempts, totp, cron, issued>>

\* ... delete: the password, then an empty secret.
Delete(r) ==
  /\ Begin(r)
  /\ \E tok \in DOMAIN sessions, pw \in Passwords : Authorised(tok) /\ pw = user.pw
  /\ Hold(r, [pc |-> "clear"])
  /\ Count
  /\ UNCHANGED <<now, user, timeout, sessions, attempts, totp, cron, taken>>

ClearSecret(r) ==
  /\ req[r].pc = "clear"
  /\ user' = [user EXCEPT !.key = Empty, !.verified = FALSE]
  /\ Done(r)
  /\ UNCHANGED <<now, timeout, sessions, attempts, totp, cron, issued, taken>>

\* DELETE /api/session asks for no authorisation.
Logout(r) ==
  /\ Begin(r)
  /\ \E tok \in DOMAIN sessions :
       sessions' = [t \in DOMAIN sessions \ {tok} |-> sessions[t]]
  /\ Count
  /\ UNCHANGED <<now, user, timeout, attempts, totp, req, cron, taken>>

\* POST /api/admin/general with a new sessionTimeout.
SetTimeout(r) ==
  /\ Begin(r)
  /\ \E tok \in DOMAIN sessions : Authorised(tok)
  /\ timeout' \in Timeouts \ {timeout}
  /\ Count
  /\ UNCHANGED <<now, user, sessions, attempts, totp, req, cron, taken>>

------------------------------------------------------------------------------
(* The cron job's sweep: the timeout is read, then the map pruned under its  *)
(* lock.                                                                     *)

CronRead ==
  /\ cron = None
  /\ cron' = timeout
  /\ UNCHANGED <<now, user, timeout, sessions, attempts, totp, req, issued, taken>>

Prune_Skip == \* Faulty variant: the timeout is read and nothing is pruned.
  /\ cron # None
  /\ cron' = None
  /\ UNCHANGED <<now, user, timeout, sessions, attempts, totp, req, issued, taken>>

Prune ==
  /\ cron # None
  /\ sessions' = [t \in {t \in DOMAIN sessions : now - sessions[t] <= cron} |-> sessions[t]]
  /\ cron' = None
  /\ UNCHANGED <<now, user, timeout, attempts, totp, req, issued, taken>>

Tick ==
  /\ now < MaxTime
  /\ now' = now + 1
  /\ UNCHANGED <<user, timeout, sessions, attempts, totp, req, cron, issued, taken>>

\* The process stops anywhere and comes back with the database it had.
Restart ==
  /\ issued.restarts < MaxRestarts
  /\ issued' = [issued EXCEPT !.restarts = @ + 1]
  /\ sessions' = << >>
  /\ attempts' = << >>
  /\ totp' = << >>
  /\ req' = [r \in Reqs |-> Idle]
  /\ cron' = None
  /\ UNCHANGED <<now, user, timeout, taken>>

Handler(r) ==
  \/ Gate(r) \/ Lookup(r) \/ ReadLast(r) \/ Burn(r) \/ Mint(r)
  \/ ChangePassword(r) \/ StorePassword(r)
  \/ Setup(r) \/ StoreSecret(r) \/ Create(r) \/ StoreVerified(r) \/ Enrolled(r)
  \/ Delete(r) \/ ClearSecret(r)
  \/ Logout(r) \/ SetTimeout(r)

Next ==
  \/ \E r \in Reqs : Handler(r)
  \/ CronRead \/ Prune \/ Tick \/ Restart

Spec == Init /\ [][Next]_vars

\* The cron task loops for ever; requests and the clock promise nothing.
FairSpec == Spec /\ WF_vars(CronRead) /\ WF_vars(Prune)

------------------------------------------------------------------------------
(* Properties *)

TypeOK ==
  /\ now \in 1 .. MaxTime
  /\ user \in Rows
  /\ timeout \in Timeouts
  /\ DOMAIN sessions \subseteq 1 .. issued.tokens
  /\ \A t \in DOMAIN sessions : sessions[t] \in 1 .. now
  /\ cron \in {None} \cup Timeouts
  /\ taken \in 0 .. MaxTime + 1

(* The limiter's memory is bounded (create_session's cap, session.rs:156):   *)
(* whatever names and addresses are tried, the map never holds more than two *)
(* keys over its cap, and no bucket more than its limit.                     *)
LimiterBounded ==
  /\ Cardinality(DOMAIN attempts) <= MaxKeys + 2
  /\ \A k \in DOMAIN attempts :
       Len(attempts[k]) <= (IF k[1] = "user" THEN UserLimit ELSE IpLimit)
  /\ Len(totp) <= TotpLimit

(* A code is not replayed (create_session, session.rs:242, and the enrolment *)
(* at 579): once a login or an enrolment has finished with a step, no login  *)
(* that begins later, whatever it overlaps with, is let in with that step or *)
(* an earlier one -- across restarts, password changes and new secrets.      *)
NoReplay ==
  \A r \in Reqs : req[r].pc = "mint" /\ req[r].step > 0 => req[r].step > req[r].floor

(* An expired session does not stay in memory (prune_expired_sessions): it   *)
(* is swept, unless the timeout is raised over its age.                      *)
ExpiredSwept ==
  \A t \in 1 .. MaxRequests :
    (t \in DOMAIN sessions /\ Expired(t)) ~> (t \notin DOMAIN sessions \/ ~Expired(t))

(* The single use of a code (session.rs:242: "Single-use: reject any code    *)
(* whose timestep was already consumed") holds between logins that do not    *)
(* overlap (NoReplay).  Two that do may both read the watermark first.       *)
SingleUse ==
  \A r, q \in Reqs :
    r # q /\ req[r].pc = "mint" /\ req[q].pc = "mint" /\ req[r].step > 0
      => <<req[r].key, req[r].step>> # <<req[q].key, req[q].step>>
=============================================================================
