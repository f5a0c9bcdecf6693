------------------------------ MODULE Identity ------------------------------
(***************************************************************************)
(* Accounts, logins and sessions of the API:                               *)
(*   - AuthService.login, logout and changePassword                        *)
(*     (apps/api/src/auth/auth.service.ts);                                *)
(*   - the authentication of a request (session-authenticator.ts over      *)
(*     packages/db/src/session.repository.ts);                             *)
(*   - the administration of viewers (apps/api/src/users/users.service.ts). *)
(*                                                                         *)
(* What is hard: a login reads the clock, the account and the throttle     *)
(* bucket at three different moments, verifies a password in between, and  *)
(* only then writes; renames, resets, disables, password changes and other *)
(* logins commit meanwhile.                                                *)
(*                                                                         *)
(* A transaction is Serializable and takes the account's or the bucket's   *)
(* advisory lock, hence one step; when it fails for good (a second P2034,  *)
(* the database is away) the caller gets an error and nothing is written.  *)
(***************************************************************************)
EXTENDS LoginThrottle, FiniteSets

CONSTANTS
    Users,          \* the ids of the accounts
    Admins,         \* those of them seeded as ADMIN; the others are VIEWERs
    Emails,         \* canonical emails
    Passwords,
    Logins,         \* login requests that may be under way together
    Requests,       \* authenticated requests that may be under way together
    IdleTicks,      \* SESSION_IDLE_MINUTES
    AbsoluteTicks,  \* SESSION_ABSOLUTE_HOURS
    MaxTime,        \* bound on the clock
    MaxSessions,    \* bound on the sessions ever created
    MaxGen          \* bound on the password changes of one account

ASSUME IdentityAssumption ==
    /\ Admins \subseteq Users
    /\ NULL \notin Users \cup Emails \cup Passwords
    /\ IdleTicks \in Nat \ {0}
    /\ AbsoluteTicks \in Nat \ {0}
    /\ MaxTime \in Nat
    /\ MaxSessions \in Nat
    /\ MaxGen \in Nat

VARIABLES
    now,       \* the clock
    user,      \* user[u]: the users table
    session,   \* session[s]: the sessions table, in order of creation
    bucket,    \* bucket[e]: the IDENTIFIER rows of login_throttles
    login,     \* login[l]: the local state of one AuthService.login
    request    \* request[r]: the local state of one authenticated request

vars == <<now, user, session, bucket, login, request>>

Viewers == Users \ Admins
Sessions == 1..MaxSessions
Times == 0..MaxTime

\* A password hash.  Two hashes of one password differ by their salt: gen says
\* how many times the password was set, legacy that login still has to rehash.
Hash == [pw : Passwords, gen : 0..MaxGen, legacy : BOOLEAN]

Account == [isEnabled : BOOLEAN, email : Emails, hash : Hash]

\* Why a session was revoked; "no" stands for an absent revokedAt.
Reasons == {"logout", "password-changed", "admin-password-reset",
            "admin-sessions-revoked", "admin-user-disabled"}

\* A session; gen is history, the password generation its login verified.
Session ==
    [user : Users, gen : 0..MaxGen, lastSeenAt : Times,
     idleExpiresAt : Int, absoluteExpiresAt : Int,
     revoked : Reasons \cup {"no"}]

\* What a login or a password change remembers of the account it read.
Snapshot == [id : Users, account : Account]

\* No record is mistaken for an absent one.
ASSUME NullAssumption == NULL \notin Account \cup Session \cup Snapshot

IdleLogin ==
    [phase |-> "idle", email |-> NULL, pw |-> NULL, at |-> NULL, attempt |-> 0,
     target |-> NULL]

IdleRequest ==
    [phase |-> "idle", session |-> NULL, at |-> NULL, current |-> NULL, new |-> NULL,
     attempt |-> 0, snapshot |-> NULL]

Exists(u) == user[u] # NULL
Taken(e) == \E u \in Users : Exists(u) /\ user[u].email = e
Live(s) == session[s] # NULL /\ session[s].revoked = "no"

\* The database starts with its admins and any viewers of an earlier release,
\* whose hashes may be of older parameters.
Init ==
    /\ now = 0
    /\ user \in [Users -> [isEnabled : {TRUE}, email : Emails,
                           hash : [pw : Passwords, gen : {0}, legacy : BOOLEAN]] \cup {NULL}]
    /\ \A u \in Admins : Exists(u)
    /\ \A u, v \in Users :
         Exists(u) /\ Exists(v) /\ user[u].email = user[v].email => u = v
    /\ session = [s \in Sessions |-> NULL]
    /\ bucket = [e \in Emails |-> NULL]
    /\ login = [l \in Logins |-> IdleLogin]
    /\ request = [r \in Requests |-> IdleRequest]

Tick ==
    /\ now < MaxTime
    /\ now' = now + 1
    /\ UNCHANGED <<user, session, bucket, login, request>>

----------------------------------------------------------------------------
\* The sessions table.

Least(a, b) == IF a < b THEN a ELSE b

\* calculateSessionExpiry and SessionRepository.create.
NewSession(u, gen, at) ==
    [user |-> u, gen |-> gen, lastSeenAt |-> at,
     idleExpiresAt |-> Least(at + IdleTicks, at + AbsoluteTicks),
     absoluteExpiresAt |-> at + AbsoluteTicks, revoked |-> "no"]

\* findUsableByHash and the WHERE clause of touch.
Usable(s, at) ==
    /\ Live(s)
    /\ session[s].idleExpiresAt > at
    /\ session[s].absoluteExpiresAt > at
    /\ user[session[s].user].isEnabled

\* Slip: the rows already revoked are revoked again.
RevokedAgain(u, reason) ==
    [s \in Sessions |->
        IF session[s] # NULL /\ session[s].user = u
        THEN [session[s] EXCEPT !.revoked = reason] ELSE session[s]]

\* Slip: only the sessions that have not expired are revoked.
RevokedUnexpired(u, reason) ==
    [s \in Sessions |->
        IF Usable(s, now) /\ session[s].user = u
        THEN [session[s] EXCEPT !.revoked = reason] ELSE session[s]]

\* revokeAllForUser.
Revoked(u, reason) ==
    [s \in Sessions |->
        IF Live(s) /\ session[s].user = u
        THEN [session[s] EXCEPT !.revoked = reason] ELSE session[s]]

----------------------------------------------------------------------------
\* AuthService.login.

LoginBegins(l) ==
    /\ login[l].phase = "idle"
    /\ \E e \in Emails, p \in Passwords :
         login' = [login EXCEPT ![l] = [IdleLogin EXCEPT !.phase = "preflight", !.email = e,
                                                         !.pw = p, !.at = now]]
    /\ UNCHANGED <<now, user, session, bucket, request>>

LoginEnds(l) == login' = [login EXCEPT ![l] = IdleLogin]

\* The first transaction: a locked identifier is refused.
Preflight(l) ==
    /\ login[l].phase = "preflight"
    /\ IF IsBlocked(bucket[login[l].email], login[l].at)
       THEN LoginEnds(l)
       ELSE login' = [login EXCEPT ![l].phase = "lookup"]
    /\ UNCHANGED <<now, user, session, bucket, request>>

\* The login is over but for its failure to be counted.
Failing(q) == [IdleLogin EXCEPT !.phase = "failing", !.email = q.email, !.at = q.at]

\* The account was found, enabled, and its password is the one given.
Verifies(account, pw) == account.isEnabled /\ account.hash.pw = pw

\* findByCanonicalEmail, and the verification of what it returned.
Lookup(l) ==
    LET q == login[l]
    IN  /\ q.phase = "lookup"
        /\ \/ /\ ~Taken(q.email)
              /\ login' = [login EXCEPT ![l] = Failing(q)]
           \/ \E u \in Users :
                /\ Exists(u)
                /\ user[u].email = q.email
                /\ login' = [login EXCEPT ![l] =
                               IF Verifies(user[u], q.pw)
                               THEN [q EXCEPT !.phase = "verified",
                                              !.target = [id |-> u, account |-> user[u]]]
                               ELSE Failing(q)]
        /\ UNCHANGED <<now, user, session, bucket, request>>

\* Slip: the admission forgets that the hash may have changed meanwhile.
EnabledAtEmail(q) ==
    /\ Exists(q.target.id)
    /\ user[q.target.id].isEnabled
    /\ user[q.target.id].email = q.email

\* The recheck under the account's lock, on the row the transaction read.
Unchanged(q) ==
    /\ Exists(q.target.id)
    /\ user[q.target.id].isEnabled
    /\ user[q.target.id].email = q.email
    /\ user[q.target.id].hash = q.target.account.hash

\* Slip: the lock found by the preflight is not looked for again.
LockedAtStart(l) == FALSE

\* The bucket, read again in the admission's transaction.
LockedOut(l) == IsBlocked(bucket[login[l].email], login[l].at)

\* Admission, refused: the identifier was locked meanwhile.
AdmitLocked(l) ==
    /\ login[l].phase = "verified"
    /\ LockedOut(l)
    /\ LoginEnds(l)
    /\ UNCHANGED <<now, user, session, bucket, request>>

\* Slip: every attempt is followed by another.
AlwaysRetry(l) == [login EXCEPT ![l].phase = "lookup", ![l].target = NULL]

\* The first attempt starts over; the second is a failure.
RetryOnce(l) ==
    IF login[l].attempt = 0
    THEN [login EXCEPT ![l].phase = "lookup", ![l].attempt = 1, ![l].target = NULL]
    ELSE [login EXCEPT ![l] = Failing(login[l])]

\* Admission, undecided: the account is not the one that was verified.
AdmitStale(l) ==
    /\ login[l].phase = "verified"
    /\ ~LockedOut(l)
    /\ ~Unchanged(login[l])
    /\ login' = RetryOnce(l)
    /\ UNCHANGED <<now, user, session, bucket, request>>

\* Admission: an old hash is replaced, the bucket is cleared and the session
\* is created, in one transaction.
AdmitSession(l) ==
    LET q == login[l]
        u == q.target.id
    IN  /\ login[l].phase = "verified"
        /\ ~LockedOut(l)
        /\ Unchanged(q)
        /\ user' = [user EXCEPT ![u].hash.legacy = FALSE]
        /\ bucket' = [bucket EXCEPT ![q.email] = NULL]
        /\ \E s \in Sessions :
             /\ session[s] = NULL
             /\ \A t \in Sessions : t < s => session[t] # NULL
             /\ session' = [session EXCEPT ![s] = NewSession(u, q.target.account.hash.gen, q.at)]
        /\ LoginEnds(l)
        /\ UNCHANGED <<now, request>>

\* throwCommittedLoginFailure: the failure is counted, whatever its reason.
Fail(l) ==
    LET q == login[l]
    IN  /\ q.phase = "failing"
        /\ bucket' = [bucket EXCEPT ![q.email] = NextThrottleState(@, q.at)]
        /\ LoginEnds(l)
        /\ UNCHANGED <<now, user, session, request>>

\* A transaction failed for good, or the process stopped.
LoginAborts(l) ==
    /\ login[l].phase # "idle"
    /\ LoginEnds(l)
    /\ UNCHANGED <<now, user, session, bucket, request>>

----------------------------------------------------------------------------
\* An authenticated request.

RequestEnds(r) == request' = [request EXCEPT ![r] = IdleRequest]

\* findUsableByHash, at the instant the request read from the clock.
FindSession(r) ==
    /\ request[r].phase = "idle"
    /\ \E s \in Sessions :
         /\ Usable(s, now)
         /\ request' = [request EXCEPT ![r] = [IdleRequest EXCEPT !.phase = "found",
                                                                  !.session = s, !.at = now]]
    /\ UNCHANGED <<now, user, session, bucket, login>>

\* The WHERE clause of touch, with the request's own instant.
Touchable(r) == Usable(request[r].session, request[r].at)

\* Slip: the idle expiry is not capped by the absolute one.
ExtendedUncapped(s, at) == at + IdleTicks

Extended(s, at) == Least(at + IdleTicks, session[s].absoluteExpiresAt)

\* touch: the session is extended, or the request is refused.
Touch(r) ==
    LET s == request[r].session
        at == request[r].at
    IN  /\ request[r].phase = "found"
        /\ \/ /\ Touchable(r)
              /\ session' = [session EXCEPT
                               ![s].lastSeenAt = at,
                               ![s].idleExpiresAt = Extended(s, at)]
              /\ request' = [request EXCEPT ![r].phase = "handling"]
           \/ /\ ~Touchable(r)
              /\ RequestEnds(r)
              /\ UNCHANGED session
        /\ UNCHANGED <<now, user, bucket, login>>

\* A handler that changes none of these tables, or an error.
RequestAnswers(r) ==
    /\ request[r].phase # "idle"
    /\ RequestEnds(r)
    /\ UNCHANGED <<now, user, session, bucket, login>>

\* logout: revokeById.
Logout(r) ==
    LET s == request[r].session
    IN  /\ request[r].phase = "handling"
        /\ session' = IF Live(s) THEN [session EXCEPT ![s].revoked = "logout"] ELSE session
        /\ RequestEnds(r)
        /\ UNCHANGED <<now, user, bucket, login>>

\* changePassword, on a page of its own: the passwords arrive.
ChangeBegins(r) ==
    /\ request[r].phase = "handling"
    /\ \E c, n \in Passwords :
         request' = [request EXCEPT ![r].phase = "snapshot", ![r].current = c, ![r].new = n]
    /\ UNCHANGED <<now, user, session, bucket, login>>

Caller(r) == session[request[r].session].user

\* findById; the current password is verified against what it returned, and
\* the new one is hashed.
ChangeReads(r) ==
    /\ request[r].phase = "snapshot"
    /\ IF Exists(Caller(r)) /\ user[Caller(r)].isEnabled
       THEN request' = [request EXCEPT ![r].phase = "hashed",
                                       ![r].snapshot = user[Caller(r)]]
       ELSE RequestEnds(r)
    /\ UNCHANGED <<now, user, session, bucket, login>>

\* Slip: the recheck compares the email only.
SameEmail(r) == user[Caller(r)].email = request[r].snapshot.email

SameCredential(r) ==
    /\ user[Caller(r)].email = request[r].snapshot.email
    /\ user[Caller(r)].hash = request[r].snapshot.hash

\* A password set for the gen-th time.
NewHash(u, pw) == [pw |-> pw, gen |-> user[u].hash.gen + 1, legacy |-> FALSE]

\* Nothing to change: the account is gone or disabled, the current password is
\* wrong, or the credential moved under the second attempt too.
ChangeRefused(r) ==
    /\ request[r].phase = "hashed"
    /\ \/ ~user[Caller(r)].isEnabled
       \/ ~SameCredential(r) /\ request[r].attempt = 1
       \/ SameCredential(r) /\ request[r].snapshot.hash.pw # request[r].current
    /\ RequestEnds(r)
    /\ UNCHANGED <<now, user, session, bucket, login>>

\* The credential moved under the first attempt: start over.
ChangeRetries(r) ==
    /\ request[r].phase = "hashed"
    /\ user[Caller(r)].isEnabled
    /\ ~SameCredential(r)
    /\ request[r].attempt = 0
    /\ request' = [request EXCEPT ![r].phase = "snapshot", ![r].attempt = 1,
                                  ![r].snapshot = NULL]
    /\ UNCHANGED <<now, user, session, bucket, login>>

\* The password is replaced and every session of the account is revoked.
ChangeCommits(r) ==
    LET u == Caller(r)
    IN  /\ request[r].phase = "hashed"
        /\ user[u].isEnabled
        /\ SameCredential(r)
        /\ request[r].snapshot.hash.pw = request[r].current
        /\ user[u].hash.gen < MaxGen
        /\ user' = [user EXCEPT ![u].hash = NewHash(u, request[r].new)]
        /\ session' = Revoked(u, "password-changed")
        /\ RequestEnds(r)
        /\ UNCHANGED <<now, bucket, login>>

----------------------------------------------------------------------------
\* UsersService: an administrator's operations on one viewer.  lockTarget
\* refuses a missing account and protects an ADMIN one.

CreateViewer(u, e, pw) ==
    /\ u \in Viewers
    /\ ~Exists(u)
    /\ ~Taken(e)
    /\ user' = [user EXCEPT ![u] = [isEnabled |-> TRUE, email |-> e,
                                    hash |-> [pw |-> pw, gen |-> 0, legacy |-> FALSE]]]
    /\ UNCHANGED <<now, session, bucket, login, request>>

Target(u) == u \in Viewers /\ Exists(u)

\* updateEmail keeps the sessions; the unique index refuses a taken email.
UpdateEmail(u, e) ==
    /\ Target(u)
    /\ ~Taken(e)
    /\ user' = [user EXCEPT ![u].email = e]
    /\ UNCHANGED <<now, session, bucket, login, request>>

ResetPassword(u, pw) ==
    /\ Target(u)
    /\ user[u].hash.gen < MaxGen
    /\ user' = [user EXCEPT ![u].hash = NewHash(u, pw)]
    /\ session' = Revoked(u, "admin-password-reset")
    /\ UNCHANGED <<now, bucket, login, request>>

RevokeSessions(u) ==
    /\ Target(u)
    /\ session' = Revoked(u, "admin-sessions-revoked")
    /\ UNCHANGED <<now, user, bucket, login, request>>

\* disable revokes whether or not the account was still enabled.
Disable(u) ==
    /\ Target(u)
    /\ user' = [user EXCEPT ![u].isEnabled = FALSE]
    /\ session' = Revoked(u, "admin-user-disabled")
    /\ UNCHANGED <<now, bucket, login, request>>

Enable(u) ==
    /\ Target(u)
    /\ user' = [user EXCEPT ![u].isEnabled = TRUE]
    /\ UNCHANGED <<now, session, bucket, login, request>>

----------------------------------------------------------------------------
LoginStep(l) ==
    \/ Preflight(l) \/ Lookup(l)
    \/ AdmitLocked(l) \/ AdmitStale(l) \/ AdmitSession(l)
    \/ Fail(l) \/ LoginAborts(l)

RequestStep(r) ==
    \/ Touch(r) \/ RequestAnswers(r) \/ Logout(r)
    \/ ChangeBegins(r) \/ ChangeReads(r)
    \/ ChangeRefused(r) \/ ChangeRetries(r) \/ ChangeCommits(r)

AdminStep(u) ==
    \/ \E e \in Emails, pw \in Passwords : CreateViewer(u, e, pw)
    \/ \E e \in Emails : UpdateEmail(u, e)
    \/ \E pw \in Passwords : ResetPassword(u, pw)
    \/ RevokeSessions(u) \/ Disable(u) \/ Enable(u)

Next ==
    \/ Tick
    \/ \E l \in Logins : LoginBegins(l) \/ LoginStep(l)
    \/ \E r \in Requests : FindSession(r) \/ RequestStep(r)
    \/ \E u \in Users : AdminStep(u)

Spec == Init /\ [][Next]_vars

(***************************************************************************)
(* Fairness: every await of a login or of a request ends, with an answer or *)
(* an error.  Nothing is assumed of clients, administrators or the clock.  *)
(***************************************************************************)
Fairness ==
    /\ \A l \in Logins : WF_vars(LoginStep(l))
    /\ \A r \in Requests : WF_vars(RequestStep(r))

FairSpec == Spec /\ Fairness

----------------------------------------------------------------------------
\* Type correctness: rows stay well formed, a login or a request under way
\* carries what its next step reads, and captured instants are not ahead of
\* the clock.
LoginState ==
    [phase : {"idle", "preflight", "lookup", "verified", "failing"},
     email : Emails \cup {NULL}, pw : Passwords \cup {NULL}, at : Times \cup {NULL},
     attempt : {0, 1}, target : Snapshot \cup {NULL}]

RequestState ==
    [phase : {"idle", "found", "handling", "snapshot", "hashed"},
     session : Sessions \cup {NULL}, at : Times \cup {NULL},
     current : Passwords \cup {NULL}, new : Passwords \cup {NULL},
     attempt : {0, 1}, snapshot : Account \cup {NULL}]

Bucket == [attemptCount : Nat \ {0}, windowStartedAt : Times, blockedUntil : Int \cup {NULL}]

LoginUnderWay(q) ==
    /\ q.phase # "idle" => q.email \in Emails /\ q.at \in Times
    /\ q.phase \in {"preflight", "lookup", "verified"} => q.pw \in Passwords
    /\ q.phase = "verified" => q.target # NULL

RequestUnderWay(q) ==
    /\ q.phase # "idle" => q.session \in Sessions /\ q.at \in Times
    /\ q.phase \in {"snapshot", "hashed"} => q.current \in Passwords /\ q.new \in Passwords
    /\ q.phase = "hashed" => q.snapshot # NULL

TypeOK ==
    /\ now \in Times
    /\ user \in [Users -> Account \cup {NULL}]
    /\ session \in [Sessions -> Session \cup {NULL}]
    /\ \A s \in Sessions :
         session[s] # NULL => Exists(session[s].user) /\ session[s].lastSeenAt <= now
    /\ bucket \in [Emails -> Bucket \cup {NULL}]
    /\ \A e \in Emails : bucket[e] # NULL => bucket[e].windowStartedAt <= now
    /\ login \in [Logins -> LoginState]
    /\ \A l \in Logins : LoginUnderWay(login[l])
    /\ \A l \in Logins : login[l].phase # "idle" => login[l].at <= now
    /\ request \in [Requests -> RequestState]
    /\ \A r \in Requests : RequestUnderWay(request[r])
    /\ \A r \in Requests :
         request[r].phase # "idle" =>
             session[request[r].session] # NULL /\ request[r].at <= now

\* A session that is not revoked belongs to an enabled account and was opened
\* with the password the account has now: a reset, a change or a disable leaves
\* no session behind, not even one whose login had verified the old password
\* when it committed, and an enable brings none back.
SessionsCurrent ==
    \A s \in Sessions :
        Live(s) => /\ user[session[s].user].isEnabled
                   /\ session[s].gen = user[session[s].user].hash.gen

\* Once revoked, a session never changes again: no late touch extends it, and
\* the first revocation's reason stands.
RevocationFinal ==
    [][\A s \in Sessions :
         session[s] # NULL /\ ~Live(s) => session'[s] = session[s]]_vars

\* A session expires IdleTicks after some request that used it, and never later
\* than the end it was created with, in whatever order touches arrive.
SessionExpiry ==
    \A s \in Sessions :
        session[s] # NULL =>
            /\ session[s].idleExpiresAt =
                 Least(session[s].lastSeenAt + IdleTicks, session[s].absoluteExpiresAt)
            /\ session[s].lastSeenAt < session[s].absoluteExpiresAt
            /\ session[s].absoluteExpiresAt <= now + AbsoluteTicks

\* The step that opens a session does so for a login whose email and password
\* are, at that moment, those of an enabled account.
Opened(s) == session[s] = NULL /\ session'[s] # NULL

AdmittedByCurrentPassword ==
    [][\A s \in Sessions : Opened(s) =>
         \E l \in Logins :
            LET account == user[session'[s].user]
            IN  /\ login[l].phase = "verified"
                /\ login'[l].phase = "idle"
                /\ account.isEnabled
                /\ account.email = login[l].email
                /\ account.hash.pw = login[l].pw]_vars

\* No session is opened for an identifier that is locked, even by a login that
\* began, or was verified, before the lock.
NoLoginWhileLocked ==
    [][\A s \in Sessions : Opened(s) =>
         ~IsBlocked(bucket[user[session'[s].user].email], now)]_vars

\* A lock runs to its end: no late failure or success, whose instant may be
\* older than the lock, shortens, extends or clears it.
LockHolds == [][\A e \in Emails : IsBlocked(bucket[e], now) => bucket'[e] = bucket[e]]_vars

\* Counting reaches the limit exactly when it locks, and no lock outlasts
\* LockTicks from now.
LimitLocks ==
    \A e \in Emails :
        bucket[e] # NULL =>
            /\ bucket[e].attemptCount >= MaxAttempts <=> bucket[e].blockedUntil # NULL
            /\ bucket[e].blockedUntil # NULL => bucket[e].blockedUntil <= now + LockTicks

\* A user replaces a password only by giving the one in force at the commit: a
\* change verified before another change or a reset never overwrites it.
ChangeByCurrentPassword ==
    [][\A r \in Requests :
         request[r].phase = "hashed" /\ request'[r].phase = "idle" =>
            \/ user'[Caller(r)].hash = user[Caller(r)].hash
            \/ /\ user[Caller(r)].isEnabled
               /\ user[Caller(r)].hash.pw = request[r].current]_vars

\* Every login and every request is answered: the retry on a credential that
\* moved happens once, however often administrators move it.
Answered ==
    /\ \A l \in Logins : login[l].phase # "idle" ~> login[l].phase = "idle"
    /\ \A r \in Requests : request[r].phase # "idle" ~> request[r].phase = "idle"
=============================================================================
