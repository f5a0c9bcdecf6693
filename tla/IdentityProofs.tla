--------------------------- MODULE IdentityProofs ---------------------------
(***************************************************************************)
(* Theorems about Identity, for every number of accounts, logins, requests *)
(* and sessions, every policy of the throttle and every expiry.            *)
(*                                                                         *)
(* TypeOK carries what the properties rest on: an instant a login or a     *)
(* request captured is never ahead of the clock, and a request under way   *)
(* has a session.                                                          *)
(***************************************************************************)
EXTENDS Identity, TLAPS

----------------------------------------------------------------------------
\* The tables.

\* Revoking a row changes nothing else of it.
LEMMA RevokedRow ==
    ASSUME NEW row \in Session, NEW reason \in Reasons
    PROVE  LET r == [row EXCEPT !.revoked = reason]
           IN  /\ r \in Session
               /\ r.revoked = reason
               /\ r.user = row.user /\ r.gen = row.gen
               /\ r.lastSeenAt = row.lastSeenAt
               /\ r.idleExpiresAt = row.idleExpiresAt
               /\ r.absoluteExpiresAt = row.absoluteExpiresAt
BY DEF Session

\* What a revocation leaves of every row: its owner and its instants; and a row
\* that was already revoked, or belongs to someone else, as it was.
SameUse(a, b) ==
    /\ a.user = b.user /\ a.gen = b.gen
    /\ a.lastSeenAt = b.lastSeenAt
    /\ a.idleExpiresAt = b.idleExpiresAt
    /\ a.absoluteExpiresAt = b.absoluteExpiresAt

\* revokeAllForUser, row by row.
LEMMA RevokedRows ==
    ASSUME session \in [Sessions -> Session \cup {NULL}], NEW u \in Users, NEW reason \in Reasons
    PROVE  /\ Revoked(u, reason) \in [Sessions -> Session \cup {NULL}]
           /\ \A s \in Sessions :
                /\ session[s] = NULL => Revoked(u, reason)[s] = NULL
                /\ session[s] # NULL =>
                     /\ Revoked(u, reason)[s] \in Session
                     /\ SameUse(Revoked(u, reason)[s], session[s])
                     /\ ~Live(s) => Revoked(u, reason)[s] = session[s]
                     /\ session[s].user = u => Revoked(u, reason)[s].revoked # "no"
                     /\ session[s].user # u => Revoked(u, reason)[s] = session[s]
<1>1. ASSUME NEW s \in Sessions
      PROVE  Revoked(u, reason)[s] = IF Live(s) /\ session[s].user = u
                                     THEN [session[s] EXCEPT !.revoked = reason]
                                     ELSE session[s]
    BY DEF Revoked
<1>2. ASSUME NEW s \in Sessions, session[s] # NULL
      PROVE  /\ Revoked(u, reason)[s] \in Session
             /\ SameUse(Revoked(u, reason)[s], session[s])
             /\ ~Live(s) => Revoked(u, reason)[s] = session[s]
             /\ session[s].user = u => Revoked(u, reason)[s].revoked # "no"
             /\ session[s].user # u => Revoked(u, reason)[s] = session[s]
    <2>1. session[s] \in Session
        BY <1>2
    <2>2. reason # "no"
        BY DEF Reasons
    <2>3. CASE Live(s) /\ session[s].user = u
        <3> DEFINE r == [session[s] EXCEPT !.revoked = reason]
        <3>1. Revoked(u, reason)[s] = r
            BY <1>1, <2>3
        <3>2. r \in Session /\ r.revoked = reason /\ SameUse(r, session[s])
            BY <2>1, RevokedRow DEF SameUse
        <3> QED
            BY <2>2, <2>3, <3>1, <3>2
    <2>4. CASE ~(Live(s) /\ session[s].user = u)
        <3>1. Revoked(u, reason)[s] = session[s]
            BY <1>1, <2>4
        <3>2. session[s].user = u => session[s].revoked # "no"
            BY <1>2, <2>4 DEF Live
        <3> QED
            BY <2>1, <3>1, <3>2 DEF SameUse
    <2> QED
        BY <2>3, <2>4
<1>3. ASSUME NEW s \in Sessions, session[s] = NULL
      PROVE  Revoked(u, reason)[s] = NULL
    BY <1>1, <1>3 DEF Live
<1>4. Revoked(u, reason) = [s \in Sessions |-> Revoked(u, reason)[s]]
    BY DEF Revoked
<1> QED
    BY <1>2, <1>3, <1>4

----------------------------------------------------------------------------
\* How one step moves the sessions table and the users table.

\* A step that only moves logins, requests, buckets or the clock.
SessionsKept == session' = session /\ user' = user

\* A login was admitted: the one new row belongs to the account it verified.
SessionOpened ==
    \E l \in Logins, s \in Sessions :
        LET q == login[l] IN
        /\ q.phase = "verified"
        /\ ~LockedOut(l)
        /\ Unchanged(q)
        /\ session[s] = NULL
        /\ session' = [session EXCEPT ![s] = NewSession(q.target.id, q.target.account.hash.gen, q.at)]
        /\ user' = [user EXCEPT ![q.target.id].hash.legacy = FALSE]
        /\ login' = [login EXCEPT ![l] = IdleLogin]

\* A usable session was extended by a request.
SessionTouched ==
    \E r \in Requests :
        LET s == request[r].session IN
        /\ request[r].phase = "found"
        /\ Usable(s, request[r].at)
        /\ session' = [session EXCEPT ![s].lastSeenAt = request[r].at,
                                      ![s].idleExpiresAt = Extended(s, request[r].at)]
        /\ user' = user

SessionClosed ==
    \E s \in Sessions :
        /\ Live(s)
        /\ session' = [session EXCEPT ![s].revoked = "logout"]
        /\ user' = user

\* An account's sessions were all revoked, and its password or its enabled
\* state may have changed.
AccountClosed ==
    \E u \in Users, reason \in Reasons, account \in Account :
        /\ Exists(u)
        /\ session' = Revoked(u, reason)
        /\ user' = [user EXCEPT ![u] = account]

\* An account was created, renamed or enabled.
AccountOpened ==
    \E u \in Users, account \in Account :
        /\ session' = session
        /\ user' = [user EXCEPT ![u] = account]
        /\ Exists(u) => account.hash = user[u].hash /\ (user[u].isEnabled => account.isEnabled)

\* Every step does one of these six things to the two tables.
LEMMA TableSteps ==
    ASSUME TypeOK, [Next]_vars
    PROVE  \/ SessionsKept \/ SessionOpened \/ SessionTouched
           \/ SessionClosed \/ AccountClosed \/ AccountOpened
<1> USE DEF TypeOK
<1>1. CASE Tick
    BY <1>1 DEF Tick, SessionsKept
<1>2. ASSUME NEW l \in Logins, LoginBegins(l) \/ LoginStep(l)
      PROVE  SessionsKept \/ SessionOpened
    <2>1. CASE AdmitSession(l)
        <3>1. PICK s \in Sessions :
                /\ session[s] = NULL
                /\ session' = [session EXCEPT ![s] =
                                 NewSession(login[l].target.id,
                                            login[l].target.account.hash.gen, login[l].at)]
            BY <2>1 DEF AdmitSession
        <3>2. /\ login[l].phase = "verified"
              /\ ~LockedOut(l)
              /\ Unchanged(login[l])
              /\ user' = [user EXCEPT ![login[l].target.id].hash.legacy = FALSE]
              /\ login' = [login EXCEPT ![l] = IdleLogin]
            BY <2>1 DEF AdmitSession, LoginEnds
        <3> QED
            BY <3>1, <3>2 DEF SessionOpened
    <2>2. CASE ~AdmitSession(l)
        BY <1>2, <2>2 DEF LoginStep, LoginBegins, Preflight, Lookup, AdmitLocked, AdmitStale,
                          Fail, LoginAborts, SessionsKept
    <2> QED
        BY <2>1, <2>2
<1>3. ASSUME NEW r \in Requests, FindSession(r) \/ RequestStep(r)
      PROVE  SessionsKept \/ SessionTouched \/ SessionClosed \/ AccountClosed
    <2>1. CASE Touch(r)
        BY <2>1 DEF Touch, Touchable, SessionsKept, SessionTouched
    <2>2. CASE Logout(r)
        <3>1. request[r].session \in Sessions
            BY <2>2 DEF Logout, RequestUnderWay
        <3> QED
            BY <2>2, <3>1 DEF Logout, SessionsKept, SessionClosed
    <2>3. CASE ChangeCommits(r)
        <3> DEFINE u == Caller(r)
                   account == [user[u] EXCEPT !.hash = NewHash(u, request[r].new)]
        <3>1. /\ request[r].session \in Sessions
              /\ session[request[r].session] # NULL
              /\ request[r].new \in Passwords
            BY <2>3 DEF ChangeCommits, RequestUnderWay
        <3>2. u \in Users /\ Exists(u) /\ user[u] \in Account
            BY <3>1 DEF Caller, Session, Exists
        <3>3. NewHash(u, request[r].new) \in Hash
            BY <2>3, <3>1, <3>2, IdentityAssumption DEF ChangeCommits, NewHash, Hash, Account
        <3>4. account \in Account
            BY <3>2, <3>3 DEF Account
        <3>5. /\ session' = Revoked(u, "password-changed")
              /\ user' = [user EXCEPT ![u] = account]
            BY <2>3, <3>2 DEF ChangeCommits
        <3>6. "password-changed" \in Reasons
            BY DEF Reasons
        <3> QED
            BY <3>2, <3>4, <3>5, <3>6 DEF AccountClosed
    <2>4. CASE ~Touch(r) /\ ~Logout(r) /\ ~ChangeCommits(r)
        BY <1>3, <2>4 DEF RequestStep, FindSession, RequestAnswers, ChangeBegins, ChangeReads,
                          ChangeRefused, ChangeRetries, SessionsKept
    <2> QED
        BY <2>1, <2>2, <2>3, <2>4
<1>4. ASSUME NEW u \in Users, AdminStep(u)
      PROVE  AccountClosed \/ AccountOpened
    <2>1. ASSUME NEW e \in Emails, NEW pw \in Passwords, CreateViewer(u, e, pw)
          PROVE  AccountOpened
        <3> DEFINE account == [isEnabled |-> TRUE, email |-> e,
                               hash |-> [pw |-> pw, gen |-> 0, legacy |-> FALSE]]
        <3>1. account \in Account
            BY IdentityAssumption DEF Account, Hash
        <3> QED
            BY <2>1, <3>1 DEF CreateViewer, AccountOpened
    <2>2. ASSUME NEW e \in Emails, UpdateEmail(u, e)
          PROVE  AccountOpened
        <3> DEFINE account == [user[u] EXCEPT !.email = e]
        <3>1. /\ account \in Account
              /\ account.hash = user[u].hash
              /\ account.isEnabled = user[u].isEnabled
            BY <2>2 DEF UpdateEmail, Target, Exists, Account
        <3>2. session' = session /\ user' = [user EXCEPT ![u] = account]
            BY <2>2 DEF UpdateEmail
        <3> QED
            BY <3>1, <3>2 DEF AccountOpened
    <2>3. ASSUME NEW pw \in Passwords, ResetPassword(u, pw)
          PROVE  AccountClosed
        <3> DEFINE account == [user[u] EXCEPT !.hash = NewHash(u, pw)]
        <3>1. Exists(u) /\ user[u] \in Account
            BY <2>3 DEF ResetPassword, Target, Exists
        <3>2. NewHash(u, pw) \in Hash
            BY <2>3, <3>1, IdentityAssumption DEF ResetPassword, NewHash, Hash, Account
        <3>3. account \in Account
            BY <3>1, <3>2 DEF Account
        <3>4. session' = Revoked(u, "admin-password-reset") /\ user' = [user EXCEPT ![u] = account]
            BY <2>3 DEF ResetPassword
        <3>5. "admin-password-reset" \in Reasons
            BY DEF Reasons
        <3> QED
            BY <3>1, <3>3, <3>4, <3>5 DEF AccountClosed
    <2>4. CASE RevokeSessions(u)
        <3>1. Exists(u) /\ user[u] \in Account
            BY <2>4 DEF RevokeSessions, Target, Exists
        <3>2. session' = Revoked(u, "admin-sessions-revoked") /\ user' = [user EXCEPT ![u] = user[u]]
            BY <2>4 DEF RevokeSessions
        <3>3. "admin-sessions-revoked" \in Reasons
            BY DEF Reasons
        <3> QED
            BY <3>1, <3>2, <3>3 DEF AccountClosed
    <2>5. CASE Disable(u)
        <3> DEFINE account == [user[u] EXCEPT !.isEnabled = FALSE]
        <3>1. Exists(u) /\ account \in Account
            BY <2>5 DEF Disable, Target, Exists, Account
        <3>2. session' = Revoked(u, "admin-user-disabled") /\ user' = [user EXCEPT ![u] = account]
            BY <2>5 DEF Disable
        <3>3. "admin-user-disabled" \in Reasons
            BY DEF Reasons
        <3> QED
            BY <3>1, <3>2, <3>3 DEF AccountClosed
    <2>6. CASE Enable(u)
        <3> DEFINE account == [user[u] EXCEPT !.isEnabled = TRUE]
        <3>1. account \in Account /\ account.hash = user[u].hash /\ account.isEnabled
            BY <2>6 DEF Enable, Target, Exists, Account
        <3>2. session' = session /\ user' = [user EXCEPT ![u] = account]
            BY <2>6 DEF Enable
        <3> QED
            BY <3>1, <3>2 DEF AccountOpened
    <2> QED
        BY <1>4, <2>1, <2>2, <2>3, <2>4, <2>5, <2>6 DEF AdminStep
<1>5. CASE UNCHANGED vars
    BY <1>5 DEF vars, SessionsKept
<1> QED
    BY <1>1, <1>2, <1>3, <1>4, <1>5 DEF Next

----------------------------------------------------------------------------
\* Type correctness.

\* The initial state is well typed.
LEMMA InitTypes == Init => TypeOK
<1> SUFFICES ASSUME Init PROVE TypeOK
    OBVIOUS
<1> USE DEF Init
<1>1. user \in [Users -> Account \cup {NULL}]
    <2>1. [pw : Passwords, gen : {0}, legacy : BOOLEAN] \subseteq Hash
        BY IdentityAssumption DEF Hash
    <2>2. [isEnabled : {TRUE}, email : Emails,
           hash : [pw : Passwords, gen : {0}, legacy : BOOLEAN]] \subseteq Account
        BY <2>1 DEF Account
    <2> QED
        BY <2>2
<1>2. IdleLogin \in LoginState /\ LoginUnderWay(IdleLogin)
    BY DEF IdleLogin, LoginState, LoginUnderWay
<1>5. IdleLogin.phase = "idle" /\ IdleRequest.phase = "idle"
    BY DEF IdleLogin, IdleRequest
<1>3. IdleRequest \in RequestState /\ RequestUnderWay(IdleRequest)
    BY DEF IdleRequest, RequestState, RequestUnderWay
<1>4. now \in Times
    BY IdentityAssumption DEF Times
<1> QED
    BY <1>1, <1>2, <1>3, <1>4, <1>5 DEF TypeOK

\* The rows of users stay well formed, and none is ever deleted.
LEMMA UserTypes ==
    ASSUME TypeOK, [Next]_vars
    PROVE  /\ user' \in [Users -> Account \cup {NULL}]
           /\ \A u \in Users : Exists(u) => Exists(u)'
<1> USE DEF TypeOK
<1>1. CASE user' = user
    BY <1>1 DEF Exists
<1>2. CASE SessionOpened
    <2>1. PICK l \in Logins :
            /\ login[l].phase = "verified"
            /\ Unchanged(login[l])
            /\ user' = [user EXCEPT ![login[l].target.id].hash.legacy = FALSE]
        BY <1>2 DEF SessionOpened
    <2> DEFINE u == login[l].target.id
               account == [user[u] EXCEPT !.hash = [user[u].hash EXCEPT !.legacy = FALSE]]
    <2>2. u \in Users /\ user[u] \in Account
        BY <2>1 DEF LoginUnderWay, LoginState, Snapshot, Unchanged, Exists
    <2>3. account \in Account
        <3>1. [user[u].hash EXCEPT !.legacy = FALSE] \in Hash
            BY <2>2 DEF Account, Hash
        <3> QED
            BY <2>2, <3>1 DEF Account
    <2>4. user' = [user EXCEPT ![u] = account]
        BY <2>1, <2>2 DEF Account, Hash
    <2> QED
        BY <2>2, <2>3, <2>4, NullAssumption DEF Exists
<1>3. ASSUME NEW u \in Users, NEW account \in Account, user' = [user EXCEPT ![u] = account]
      PROVE  /\ user' \in [Users -> Account \cup {NULL}]
             /\ \A v \in Users : Exists(v) => Exists(v)'
    BY <1>3, NullAssumption DEF Exists
<1> QED
    BY <1>1, <1>2, <1>3, TableSteps
       DEF SessionsKept, SessionTouched, SessionClosed, AccountClosed, AccountOpened

\* The rows of sessions stay well formed, with an owner.
SessionRowsOK ==
    /\ session \in [Sessions -> Session \cup {NULL}]
    /\ \A s \in Sessions :
         session[s] # NULL => Exists(session[s].user) /\ session[s].lastSeenAt <= now

\* The two expiries of a session, when used at t.
LEMMA ExpiryTypes ==
    ASSUME NEW t \in Int, NEW end \in Int
    PROVE  /\ t + AbsoluteTicks \in Int
           /\ Least(t + IdleTicks, end) \in Int
           /\ t < t + AbsoluteTicks
BY IdentityAssumption DEF Least

\* Whatever a step does to the sessions table, its rows stay so.
LEMMA SessionTypes ==
    ASSUME TypeOK, [Next]_vars
    PROVE  SessionRowsOK'
<1> USE DEF TypeOK
<1>1. now \in Int /\ now' \in Int /\ now <= now' /\ Times \subseteq Int
    <2>1. now' = now \/ now' = now + 1
        BY DEF Next, vars, Tick, LoginBegins, LoginStep, Preflight, Lookup, AdmitLocked,
               AdmitStale, AdmitSession, Fail, LoginAborts, FindSession, RequestStep, Touch,
               RequestAnswers, Logout, ChangeBegins, ChangeReads, ChangeRefused, ChangeRetries,
               ChangeCommits, AdminStep, CreateViewer, UpdateEmail, ResetPassword,
               RevokeSessions, Disable, Enable
    <2> QED
        BY <2>1, IdentityAssumption DEF Times
<1>2. \A u \in Users : Exists(u) => Exists(u)'
    BY UserTypes
<1> DEFINE RowOK(n) ==
             n # NULL => /\ n \in Session
                         /\ n.user \in Users
                         /\ Exists(n.user)
                         /\ n.lastSeenAt <= now'
<1>old. \A s \in Sessions : RowOK(session[s])
    <2> TAKE s \in Sessions
    <2>1. CASE session[s] = NULL
        BY <2>1
    <2>2. CASE session[s] # NULL
        <3>1. session[s] \in Session
            BY <2>2
        <3>2. session[s].user \in Users /\ session[s].lastSeenAt \in Int
            BY <1>1, <3>1 DEF Session
        <3> QED
            BY <1>1, <2>2, <3>1, <3>2
    <2> QED
        BY <2>1, <2>2
<1>new. ASSUME session' \in [Sessions -> Session \cup {NULL}],
               \A s \in Sessions : RowOK(session'[s])
        PROVE  SessionRowsOK'
    BY <1>2, <1>new DEF SessionRowsOK, Exists
<1> HIDE DEF RowOK
<1>3. CASE session' = session
    BY <1>3, <1>old, <1>new
<1>4. CASE SessionOpened
    <2>1. PICK l \in Logins, s \in Sessions :
            /\ login[l].phase = "verified"
            /\ Unchanged(login[l])
            /\ session' = [session EXCEPT ![s] = NewSession(login[l].target.id,
                             login[l].target.account.hash.gen, login[l].at)]
        BY <1>4 DEF SessionOpened
    <2> DEFINE n == NewSession(login[l].target.id, login[l].target.account.hash.gen, login[l].at)
    <2>2. /\ login[l].target \in Snapshot
          /\ login[l].at \in Times
          /\ login[l].at <= now
        BY <2>1 DEF LoginUnderWay, LoginState
    <2>3. /\ login[l].target.id \in Users
          /\ login[l].target.account.hash.gen \in 0..MaxGen
          /\ Exists(login[l].target.id)
        BY <2>1, <2>2 DEF Snapshot, Account, Hash, Unchanged
    <2>4. login[l].at \in Times
        BY <2>2
    <2>5. n \in Session /\ n.user = login[l].target.id /\ n.lastSeenAt = login[l].at
        <3>1. /\ login[l].at + AbsoluteTicks \in Int
              /\ Least(login[l].at + IdleTicks, login[l].at + AbsoluteTicks) \in Int
            BY <1>1, <2>4, ExpiryTypes
        <3> QED
            BY <2>3, <2>4, <3>1 DEF NewSession, Session
    <2>6. login[l].at <= now'
        BY <1>1, <2>2, IdentityAssumption DEF Times
    <2>8. RowOK(n)
        BY <2>3, <2>5, <2>6 DEF RowOK
    <2> HIDE DEF n
    <2>7. session' = [session EXCEPT ![s] = n]
        BY <2>1 DEF n
    <2> QED
        BY <1>old, <1>new, <2>5, <2>7, <2>8
<1>5. CASE SessionTouched
    <2>1. PICK r \in Requests :
            /\ request[r].phase = "found"
            /\ Usable(request[r].session, request[r].at)
            /\ session' = [session EXCEPT
                             ![request[r].session].lastSeenAt = request[r].at,
                             ![request[r].session].idleExpiresAt =
                                 Extended(request[r].session, request[r].at)]
        BY <1>5 DEF SessionTouched
    <2> DEFINE s == request[r].session
               at == request[r].at
               n == [session[s] EXCEPT !.lastSeenAt = at, !.idleExpiresAt = Extended(s, at)]
    <2>2. /\ s \in Sessions
          /\ session[s] \in Session
          /\ at \in Times
          /\ at <= now
        BY <2>1 DEF RequestUnderWay
    <2>3. at \in Times /\ at <= now'
        BY <1>1, <2>2, IdentityAssumption DEF Times
    <2>4. Extended(s, at) \in Int
        <3>1. session[s].absoluteExpiresAt \in Int
            BY <2>2 DEF Session
        <3> QED
            BY <1>1, <2>3, <3>1, ExpiryTypes DEF Extended
    <2>5. n \in Session /\ n.user = session[s].user /\ n.lastSeenAt = at
        BY <2>2, <2>3, <2>4 DEF Session
    <2>6. session' = [session EXCEPT ![s] = n]
        BY <2>1, <2>2 DEF Session
    <2>7. session[s] # NULL
        BY <2>1 DEF RequestUnderWay
    <2> HIDE DEF n
    <2>8. RowOK(n)
        BY <1>old, <2>2, <2>3, <2>5, <2>7 DEF RowOK
    <2> QED
        BY <1>old, <1>new, <2>2, <2>5, <2>6, <2>8
<1>6. CASE SessionClosed
    <2>1. PICK s \in Sessions :
            /\ Live(s)
            /\ session' = [session EXCEPT ![s].revoked = "logout"]
        BY <1>6 DEF SessionClosed
    <2> DEFINE n == [session[s] EXCEPT !.revoked = "logout"]
    <2>2. session[s] # NULL /\ session[s] \in Session
        BY <2>1 DEF Live
    <2>3. /\ n \in Session
          /\ n.user = session[s].user
          /\ n.lastSeenAt = session[s].lastSeenAt
        BY <2>2 DEF Session, Reasons
    <2>4. session' = [session EXCEPT ![s] = n]
        BY <2>1, <2>2 DEF Session
    <2> HIDE DEF n
    <2>5. RowOK(n)
        BY <1>old, <2>2, <2>3 DEF RowOK
    <2> QED
        BY <1>old, <1>new, <2>3, <2>4, <2>5
<1>7. CASE AccountClosed
    <2>1. PICK u \in Users, reason \in Reasons : session' = Revoked(u, reason)
        BY <1>7 DEF AccountClosed
    <2>2. session' \in [Sessions -> Session \cup {NULL}]
        BY <2>1, RevokedRows
    <2>3. ASSUME NEW s \in Sessions
          PROVE  RowOK(session'[s])
        <3>1. session'[s] # NULL =>
                /\ session[s] # NULL
                /\ session'[s] \in Session
                /\ SameUse(session'[s], session[s])
            BY <2>1, RevokedRows
        <3> QED
            BY <1>old, <3>1 DEF RowOK, SameUse
    <2> QED
        BY <1>new, <2>2, <2>3
<1> QED
    BY <1>3, <1>4, <1>5, <1>6, <1>7, TableSteps DEF SessionsKept, AccountOpened

\* A request extends the row it used, and only its two instants.
Extension(r, row) ==
    [row EXCEPT !.lastSeenAt = request[r].at,
                !.idleExpiresAt = Least(request[r].at + IdleTicks, row.absoluteExpiresAt)]

\* What a step may do to a row that is there: revoke it or extend it while it is
\* live, and nothing once it is revoked.
LEMMA RowSteps ==
    ASSUME TypeOK, [Next]_vars, NEW s \in Sessions, session[s] # NULL
    PROVE  /\ session'[s] # NULL
           /\ session'[s].user = session[s].user
           /\ session'[s].gen = session[s].gen
           /\ session'[s].absoluteExpiresAt = session[s].absoluteExpiresAt
           /\ ~Live(s) => session'[s] = session[s]
           /\ session'[s].revoked = "no" => Live(s)
           /\ \/ SameUse(session'[s], session[s])
              \/ \E r \in Requests :
                   /\ request[r].phase = "found"
                   /\ request[r].session = s
                   /\ Usable(s, request[r].at)
                   /\ session'[s] = Extension(r, session[s])
<1> USE DEF TypeOK
<1>0. session[s] \in Session /\ (session[s].revoked = "no" => Live(s))
    BY DEF Live
<1>kept. CASE session'[s] = session[s]
    BY <1>0, <1>kept DEF SameUse
<1>1. CASE SessionOpened
    <2>1. PICK t \in Sessions :
            session[t] = NULL /\ \E n : session' = [session EXCEPT ![t] = n]
        BY <1>1 DEF SessionOpened
    <2> QED
        BY <1>kept, <2>1
<1>2. CASE SessionTouched
    <2>1. PICK r \in Requests :
            /\ request[r].phase = "found"
            /\ Usable(request[r].session, request[r].at)
            /\ session' = [session EXCEPT
                             ![request[r].session].lastSeenAt = request[r].at,
                             ![request[r].session].idleExpiresAt =
                                 Extended(request[r].session, request[r].at)]
        BY <1>2 DEF SessionTouched
    <2>2. CASE request[r].session # s
        BY <1>kept, <2>1, <2>2
    <2>3. CASE request[r].session = s
        <3>1. session'[s] = Extension(r, session[s])
            BY <1>0, <2>1, <2>3 DEF Extension, Extended, Session
        <3>2. Live(s)
            BY <2>1, <2>3 DEF Usable
        <3>3. /\ Extension(r, session[s]) # NULL
              /\ Extension(r, session[s]).user = session[s].user
              /\ Extension(r, session[s]).gen = session[s].gen
              /\ Extension(r, session[s]).absoluteExpiresAt = session[s].absoluteExpiresAt
            <4>1. request[r].at \in Times /\ request[r].at \in Int
                BY <2>1, IdentityAssumption DEF RequestUnderWay, Times
            <4>2. Least(request[r].at + IdleTicks, session[s].absoluteExpiresAt) \in Int
                BY <1>0, <4>1, ExpiryTypes DEF Session
            <4> DEFINE row == session[s]
                       end == Least(request[r].at + IdleTicks, row.absoluteExpiresAt)
                       n == Extension(r, row)
            <4>3. n = [row EXCEPT !.lastSeenAt = request[r].at, !.idleExpiresAt = end]
                BY DEF Extension
            <4>4. row \in Session /\ end \in Int
                BY <1>0, <4>2
            <4> HIDE DEF row, end, n
            <4>5. /\ n # NULL
                  /\ n.user = row.user /\ n.gen = row.gen
                  /\ n.absoluteExpiresAt = row.absoluteExpiresAt
                BY <4>1, <4>3, <4>4, NullAssumption DEF Session
            <4> QED
                BY <4>5 DEF row, n
        <3> QED
            BY <2>1, <2>3, <3>1, <3>2, <3>3
    <2> QED
        BY <2>2, <2>3
<1>3. CASE SessionClosed
    <2>1. PICK t \in Sessions :
            /\ Live(t)
            /\ session' = [session EXCEPT ![t].revoked = "logout"]
        BY <1>3 DEF SessionClosed
    <2>2. CASE t # s
        BY <1>kept, <2>1, <2>2
    <2>3. CASE t = s
        <3> DEFINE n == [session[s] EXCEPT !.revoked = "logout"]
        <3>1. session'[s] = n
            BY <2>1, <2>3
        <3>2. n \in Session /\ n.revoked = "logout" /\ SameUse(n, session[s])
            BY <1>0, RevokedRow DEF SameUse, Reasons
        <3>3. n # NULL
            BY <3>2, NullAssumption
        <3> HIDE DEF n
        <3> QED
            BY <2>1, <2>3, <3>1, <3>2, <3>3 DEF SameUse
    <2> QED
        BY <2>2, <2>3
<1>4. CASE AccountClosed
    <2>1. PICK u \in Users, reason \in Reasons : session' = Revoked(u, reason)
        BY <1>4 DEF AccountClosed
    <2>2. /\ session'[s] \in Session
          /\ SameUse(session'[s], session[s])
          /\ ~Live(s) => session'[s] = session[s]
        BY <2>1, RevokedRows
    <2>3. session'[s].revoked = "no" => Live(s)
        BY <1>0, <2>2
    <2> QED
        BY <2>2, <2>3, NullAssumption DEF SameUse
<1> QED
    BY <1>kept, <1>1, <1>2, <1>3, <1>4, TableSteps DEF SessionsKept, AccountOpened

\* Buckets are well formed and none starts in the future.
BucketsOK ==
    /\ bucket \in [Emails -> Bucket \cup {NULL}]
    /\ \A e \in Emails : bucket[e] # NULL => bucket[e].windowStartedAt <= now

\* Counting a failure leaves a bucket well formed, and never moves its start
\* past the instants it was given.
LEMMA NextThrottleType ==
    ASSUME NEW b \in Bucket \cup {NULL}, NEW t \in Times, NEW limit \in Int,
           b # NULL => b.windowStartedAt <= limit, t <= limit
    PROVE  /\ NextThrottleState(b, t) \in Bucket
           /\ NextThrottleState(b, t).windowStartedAt <= limit
<1>1. \A n \in Nat : LockFor(n, t) \in Int \cup {NULL}
    BY ThrottleAssumption DEF LockFor, Times
<1>2. /\ StartWindow(t) \in Bucket
      /\ StartWindow(t).windowStartedAt = t
    BY <1>1 DEF StartWindow, Bucket
<1>3. ASSUME b # NULL
      PROVE  /\ CountAttempt(b, t) \in Bucket
             /\ CountAttempt(b, t).windowStartedAt = b.windowStartedAt
    <2>1. b \in Bucket /\ b.attemptCount + 1 \in Nat \ {0}
        BY <1>3 DEF Bucket
    <2>2. LockFor(b.attemptCount + 1, t) \in Int \cup {NULL}
        BY <1>1, <2>1
    <2> QED
        BY <2>1, <2>2 DEF CountAttempt, Bucket
<1>4. CASE IsBlocked(b, t)
    BY <1>4 DEF IsBlocked, NextThrottleState
<1>5. CASE ~IsBlocked(b, t) /\ (b = NULL \/ t >= b.windowStartedAt + WindowTicks)
    BY <1>2, <1>5 DEF NextThrottleState
<1>6. CASE ~IsBlocked(b, t) /\ ~(b = NULL \/ t >= b.windowStartedAt + WindowTicks)
    BY <1>3, <1>6 DEF NextThrottleState
<1> QED
    BY <1>4, <1>5, <1>6

\* A step changes a bucket only by counting a failure in it, or by clearing it
\* for a login that found it unlocked; and the clock goes on by ticks.
BucketStep ==
    \/ bucket' = bucket
    \/ \E l \in Logins :
         /\ login[l].phase = "failing"
         /\ bucket' = [bucket EXCEPT ![login[l].email] = NextThrottleState(@, login[l].at)]
         /\ now' = now
    \/ \E l \in Logins :
         /\ login[l].phase = "verified"
         /\ ~LockedOut(l)
         /\ bucket' = [bucket EXCEPT ![login[l].email] = NULL]
         /\ now' = now

\* Every step does one of these three things to the buckets.
LEMMA BucketSteps ==
    ASSUME [Next]_vars
    PROVE  /\ BucketStep
           /\ now' = now \/ (now' = now + 1 /\ now < MaxTime)
<1>1. CASE UNCHANGED vars
    BY <1>1 DEF vars, BucketStep
<1>2. CASE Tick
    BY <1>2 DEF Tick, BucketStep
<1>3. ASSUME NEW l \in Logins, LoginBegins(l) \/ LoginStep(l)
      PROVE  BucketStep /\ now' = now
    <2>1. CASE Fail(l)
        BY <2>1 DEF Fail, BucketStep
    <2>2. CASE AdmitSession(l)
        BY <2>2 DEF AdmitSession, BucketStep
    <2>3. CASE ~Fail(l) /\ ~AdmitSession(l)
        BY <1>3, <2>3 DEF LoginBegins, LoginStep, Preflight, Lookup, AdmitLocked, AdmitStale,
                          LoginAborts, BucketStep
    <2> QED
        BY <2>1, <2>2, <2>3
<1>4. ASSUME NEW r \in Requests, FindSession(r) \/ RequestStep(r)
      PROVE  bucket' = bucket /\ now' = now
    BY <1>4 DEF FindSession, RequestStep, Touch, RequestAnswers, Logout, ChangeBegins,
                ChangeReads, ChangeRefused, ChangeRetries, ChangeCommits
<1>5. ASSUME NEW u \in Users, AdminStep(u)
      PROVE  bucket' = bucket /\ now' = now
    BY <1>5 DEF AdminStep, CreateViewer, UpdateEmail, ResetPassword, RevokeSessions, Disable,
                Enable
<1> QED
    BY <1>1, <1>2, <1>3, <1>4, <1>5 DEF Next, BucketStep

\* Whatever a step does to the buckets, they stay so.
LEMMA BucketTypes ==
    ASSUME TypeOK, [Next]_vars
    PROVE  now' \in Times /\ now <= now' /\ BucketsOK'
<1> USE DEF TypeOK
<1>1. now' \in Times /\ now <= now' /\ now \in Int /\ now' \in Int
    BY BucketSteps, IdentityAssumption DEF Times
<1>2. CASE bucket' = bucket
    BY <1>1, <1>2 DEF BucketsOK, Bucket, Times
<1>3. ASSUME NEW l \in Logins, login[l].phase = "failing",
             bucket' = [bucket EXCEPT ![login[l].email] = NextThrottleState(@, login[l].at)]
      PROVE  BucketsOK'
    <2> DEFINE e == login[l].email
               t == login[l].at
    <2>1. e \in Emails /\ t \in Times /\ t <= now
        BY <1>3 DEF LoginUnderWay
    <2>2. t \in Times /\ t <= now'
        BY <1>1, <2>1 DEF Times
    <2>3. \A d \in Emails : bucket[d] # NULL => bucket[d].windowStartedAt <= now'
        BY <1>1 DEF Bucket, Times
    <2>4. /\ NextThrottleState(bucket[e], t) \in Bucket
          /\ NextThrottleState(bucket[e], t).windowStartedAt <= now'
        BY <1>1, <2>1, <2>2, <2>3, NextThrottleType
    <2> QED
        BY <1>3, <2>1, <2>3, <2>4 DEF BucketsOK
<1>4. ASSUME NEW l \in Logins, bucket' = [bucket EXCEPT ![login[l].email] = NULL]
      PROVE  BucketsOK'
    <2>1. \A d \in Emails : bucket[d] # NULL => bucket[d].windowStartedAt <= now'
        BY <1>1 DEF Bucket, Times
    <2> QED
        BY <1>4, <2>1 DEF BucketsOK
<1> QED
    BY <1>1, <1>2, <1>3, <1>4, BucketSteps DEF BucketStep

\* A login under way carries what its next step reads.
LEMMA LoginTypes ==
    ASSUME TypeOK, [Next]_vars
    PROVE  /\ login' \in [Logins -> LoginState]
           /\ \A l \in Logins : LoginUnderWay(login'[l])
           /\ \A l \in Logins : login'[l].phase # "idle" => login'[l].at <= now'
<1> USE DEF TypeOK
<1> DEFINE OK(q) == /\ q \in LoginState
                    /\ LoginUnderWay(q)
                    /\ q.phase # "idle" => q.at <= now'
<1>now. now \in Int /\ now' \in Int /\ now <= now' /\ Times \subseteq Int
    BY BucketTypes, IdentityAssumption DEF Times
<1>old. \A l \in Logins : OK(login[l])
    <2> TAKE l \in Logins
    <2>1. login[l].phase # "idle" => login[l].at \in Int /\ login[l].at <= now
        BY <1>now DEF LoginUnderWay
    <2> QED
        BY <1>now, <2>1
<1>idle. OK(IdleLogin)
    BY DEF IdleLogin, LoginState, LoginUnderWay
<1>new. ASSUME NEW l \in Logins, NEW q, OK(q), login' = [login EXCEPT ![l] = q]
        PROVE  /\ login' \in [Logins -> LoginState]
               /\ \A k \in Logins : LoginUnderWay(login'[k])
               /\ \A k \in Logins : login'[k].phase # "idle" => login'[k].at <= now'
    BY <1>old, <1>new
<1>kept. CASE login' = login
    BY <1>old, <1>kept
<1>1. ASSUME NEW l \in Logins, LoginBegins(l)
      PROVE  \E q : OK(q) /\ login' = [login EXCEPT ![l] = q]
    <2>1. PICK e \in Emails, pw \in Passwords :
            login' = [login EXCEPT ![l] = [IdleLogin EXCEPT !.phase = "preflight", !.email = e,
                                                            !.pw = pw, !.at = now]]
        BY <1>1 DEF LoginBegins
    <2> DEFINE q == [IdleLogin EXCEPT !.phase = "preflight", !.email = e, !.pw = pw, !.at = now]
    <2>2. q \in LoginState
        BY DEF IdleLogin, LoginState
    <2>3. LoginUnderWay(q) /\ q.at <= now'
        BY <1>now DEF IdleLogin, LoginUnderWay, Times
    <2> QED
        BY <2>1, <2>2, <2>3
<1>2. ASSUME NEW l \in Logins, LoginStep(l)
      PROVE  \E q : OK(q) /\ login' = [login EXCEPT ![l] = q]
    <2>1. OK(login[l])
        BY <1>old
    <2>2. CASE login' = [login EXCEPT ![l] = IdleLogin]
        BY <1>idle, <2>2
    <2>3. CASE login' = [login EXCEPT ![l] = Failing(login[l])] /\ login[l].phase # "idle"
        <3>1. OK(Failing(login[l]))
            BY <2>1, <2>3 DEF Failing, IdleLogin, LoginState, LoginUnderWay
        <3> QED
            BY <2>3, <3>1
    <2>4. CASE Preflight(l) /\ ~LoginEnds(l)
        <3> DEFINE q == [login[l] EXCEPT !.phase = "lookup"]
        <3>1. OK(q)
            BY <2>1, <2>4 DEF Preflight, LoginState, LoginUnderWay
        <3>2. login' = [login EXCEPT ![l] = q]
            BY <2>4 DEF Preflight
        <3> QED
            BY <3>1, <3>2
    <2>5. ASSUME NEW u \in Users, login[l].phase = "lookup", Exists(u),
                 login' = [login EXCEPT ![l] =
                             [login[l] EXCEPT !.phase = "verified",
                                              !.target = [id |-> u, account |-> user[u]]]]
          PROVE  \E q : OK(q) /\ login' = [login EXCEPT ![l] = q]
        <3> DEFINE target == [id |-> u, account |-> user[u]]
                   q == [login[l] EXCEPT !.phase = "verified", !.target = target]
        <3>1. target \in Snapshot /\ target # NULL
            BY <2>5, NullAssumption DEF Exists, Snapshot
        <3> HIDE DEF target
        <3>2. q \in LoginState
            BY <2>1, <3>1 DEF LoginState
        <3>3. LoginUnderWay(q) /\ q.at <= now'
            BY <2>1, <2>5, <3>1 DEF LoginState, LoginUnderWay
        <3>4. login' = [login EXCEPT ![l] = q]
            BY <2>5 DEF target
        <3> QED
            BY <3>2, <3>3, <3>4
    <2>6. CASE AdmitStale(l) /\ login[l].attempt = 0
        <3> DEFINE q == [login[l] EXCEPT !.phase = "lookup", !.attempt = 1, !.target = NULL]
        <3>1. OK(q)
            BY <2>1, <2>6 DEF AdmitStale, LoginState, LoginUnderWay
        <3>2. login' = [login EXCEPT ![l] = q]
            BY <2>6 DEF AdmitStale, RetryOnce
        <3> QED
            BY <3>1, <3>2
    <2>7. CASE Lookup(l)
        BY <2>3, <2>5, <2>7 DEF Lookup
    <2>8. CASE AdmitStale(l) /\ login[l].attempt # 0
        BY <2>3, <2>8 DEF AdmitStale, RetryOnce
    <2> QED
        BY <1>2, <2>2, <2>4, <2>6, <2>7, <2>8
           DEF LoginStep, LoginEnds, AdmitLocked, AdmitSession, Fail, LoginAborts
<1> HIDE DEF OK
<1>3. ASSUME NEW r \in Requests, FindSession(r) \/ RequestStep(r)
      PROVE  login' = login
    BY <1>3 DEF FindSession, RequestStep, Touch, RequestAnswers, Logout, ChangeBegins,
                ChangeReads, ChangeRefused, ChangeRetries, ChangeCommits
<1>4. ASSUME NEW u \in Users, AdminStep(u)
      PROVE  login' = login
    BY <1>4 DEF AdminStep, CreateViewer, UpdateEmail, ResetPassword, RevokeSessions, Disable,
                Enable
<1>5. CASE UNCHANGED vars \/ Tick
    BY <1>kept, <1>5 DEF vars, Tick
<1> QED
    BY <1>new, <1>kept, <1>1, <1>2, <1>3, <1>4, <1>5 DEF Next

\* A request under way has its session, and carries what its next step reads.
LEMMA RequestTypes ==
    ASSUME TypeOK, [Next]_vars
    PROVE  /\ request' \in [Requests -> RequestState]
           /\ \A r \in Requests : RequestUnderWay(request'[r])
           /\ \A r \in Requests :
                request'[r].phase # "idle" =>
                    session'[request'[r].session] # NULL /\ request'[r].at <= now'
<1> USE DEF TypeOK
<1> DEFINE OK(q) == /\ q \in RequestState
                    /\ RequestUnderWay(q)
                    /\ q.phase # "idle" => session'[q.session] # NULL /\ q.at <= now'
<1>now. now \in Times /\ now \in Int /\ now' \in Int /\ now <= now' /\ Times \subseteq Int
    BY BucketTypes, IdentityAssumption DEF Times
<1>rows. \A s \in Sessions : session[s] # NULL => session'[s] # NULL
    BY RowSteps
<1>old. \A r \in Requests : OK(request[r])
    <2> TAKE r \in Requests
    <2>1. request[r].phase # "idle" =>
             /\ request[r].at \in Int /\ request[r].at <= now
             /\ request[r].session \in Sessions
        BY <1>now DEF RequestUnderWay
    <2> QED
        BY <1>now, <1>rows, <2>1
<1>idle. OK(IdleRequest)
    BY DEF IdleRequest, RequestState, RequestUnderWay
<1>new. ASSUME NEW r \in Requests, NEW q, OK(q), request' = [request EXCEPT ![r] = q]
        PROVE  /\ request' \in [Requests -> RequestState]
               /\ \A k \in Requests : RequestUnderWay(request'[k])
               /\ \A k \in Requests :
                    request'[k].phase # "idle" =>
                        session'[request'[k].session] # NULL /\ request'[k].at <= now'
    BY <1>old, <1>new
<1>kept. CASE request' = request
    BY <1>old, <1>kept
<1>1. ASSUME NEW r \in Requests, FindSession(r)
      PROVE  \E q : OK(q) /\ request' = [request EXCEPT ![r] = q]
    <2>1. PICK s \in Sessions :
            /\ Usable(s, now)
            /\ request' = [request EXCEPT ![r] = [IdleRequest EXCEPT !.phase = "found",
                                                                     !.session = s, !.at = now]]
        BY <1>1 DEF FindSession
    <2> DEFINE q == [IdleRequest EXCEPT !.phase = "found", !.session = s, !.at = now]
    <2>2. q \in RequestState
        BY <1>now DEF IdleRequest, RequestState
    <2>3. RequestUnderWay(q) /\ q.session = s /\ q.at <= now'
        BY <1>now DEF IdleRequest, RequestUnderWay
    <2>4. session'[s] # NULL
        BY <1>rows, <2>1 DEF Usable, Live
    <2> QED
        BY <2>1, <2>2, <2>3, <2>4
<1>2. ASSUME NEW r \in Requests, RequestStep(r)
      PROVE  \E q : OK(q) /\ request' = [request EXCEPT ![r] = q]
    <2>1. OK(request[r])
        BY <1>old
    <2>2. CASE RequestEnds(r)
        BY <1>idle, <2>2 DEF RequestEnds
    <2>3. CASE Touch(r) /\ ~RequestEnds(r)
        <3> DEFINE q == [request[r] EXCEPT !.phase = "handling"]
        <3>1. OK(q)
            BY <2>1, <2>3 DEF Touch, RequestState, RequestUnderWay
        <3>2. request' = [request EXCEPT ![r] = q]
            BY <2>3 DEF Touch
        <3> QED
            BY <3>1, <3>2
    <2>4. CASE ChangeBegins(r)
        <3>1. PICK c \in Passwords, n \in Passwords :
                request' = [request EXCEPT ![r].phase = "snapshot", ![r].current = c, ![r].new = n]
            BY <2>4 DEF ChangeBegins
        <3> DEFINE q == [request[r] EXCEPT !.phase = "snapshot", !.current = c, !.new = n]
        <3>2. OK(q)
            BY <2>1, <2>4 DEF ChangeBegins, RequestState, RequestUnderWay
        <3>3. request' = [request EXCEPT ![r] = q]
            BY <3>1
        <3> QED
            BY <3>2, <3>3
    <2>5. CASE ChangeReads(r) /\ ~RequestEnds(r)
        <3> DEFINE account == user[Caller(r)]
                   q == [request[r] EXCEPT !.phase = "hashed", !.snapshot = account]
        <3>1. session[request[r].session] \in Session
            BY <2>5 DEF ChangeReads, RequestUnderWay
        <3>2. account \in Account /\ account # NULL
            BY <2>5, <3>1 DEF ChangeReads, Caller, Session, Exists
        <3>3. request' = [request EXCEPT ![r] = q]
            BY <2>5 DEF ChangeReads
        <3> HIDE DEF account
        <3>4. OK(q)
            BY <2>1, <2>5, <3>2 DEF ChangeReads, RequestState, RequestUnderWay
        <3> QED
            BY <3>3, <3>4
    <2>6. CASE ChangeRetries(r)
        <3> DEFINE q == [request[r] EXCEPT !.phase = "snapshot", !.attempt = 1, !.snapshot = NULL]
        <3>1. OK(q)
            BY <2>1, <2>6 DEF ChangeRetries, RequestState, RequestUnderWay
        <3>2. request' = [request EXCEPT ![r] = q]
            BY <2>6 DEF ChangeRetries
        <3> QED
            BY <3>1, <3>2
    <2> QED
        BY <1>2, <2>2, <2>3, <2>4, <2>5, <2>6
           DEF RequestStep, RequestAnswers, Logout, ChangeRefused, ChangeCommits
<1> HIDE DEF OK
<1>3. ASSUME NEW l \in Logins, LoginBegins(l) \/ LoginStep(l)
      PROVE  request' = request
    BY <1>3 DEF LoginBegins, LoginStep, Preflight, Lookup, AdmitLocked, AdmitStale, AdmitSession,
                Fail, LoginAborts
<1>4. ASSUME NEW u \in Users, AdminStep(u)
      PROVE  request' = request
    BY <1>4 DEF AdminStep, CreateViewer, UpdateEmail, ResetPassword, RevokeSessions, Disable,
                Enable
<1>5. CASE UNCHANGED vars \/ Tick
    BY <1>kept, <1>5 DEF vars, Tick
<1> QED
    BY <1>new, <1>kept, <1>1, <1>2, <1>3, <1>4, <1>5 DEF Next

\* Every step keeps the state well typed.
LEMMA NextTypes == TypeOK /\ [Next]_vars => TypeOK'
<1> SUFFICES ASSUME TypeOK, [Next]_vars PROVE TypeOK'
    OBVIOUS
<1>1. user' \in [Users -> Account \cup {NULL}]
    BY UserTypes
<1>2. SessionRowsOK'
    BY SessionTypes
<1>3. now' \in Times /\ BucketsOK'
    BY BucketTypes
<1>4. /\ login' \in [Logins -> LoginState]
      /\ \A l \in Logins : LoginUnderWay(login'[l])
      /\ \A l \in Logins : login'[l].phase # "idle" => login'[l].at <= now'
    BY LoginTypes
<1>5. /\ request' \in [Requests -> RequestState]
      /\ \A r \in Requests : RequestUnderWay(request'[r])
      /\ \A r \in Requests :
           request'[r].phase # "idle" =>
               session'[request'[r].session] # NULL /\ request'[r].at <= now'
    BY RequestTypes
<1> QED
    BY <1>1, <1>2, <1>3, <1>4, <1>5 DEF TypeOK, SessionRowsOK, BucketsOK

\* Every reachable state is well typed: no instant captured by a login or a
\* request is ahead of the clock, and whoever is under way has what it needs.
THEOREM TypeCorrect == Spec => []TypeOK
BY InitTypes, NextTypes, PTL DEF Spec

----------------------------------------------------------------------------
\* Sessions.

\* A row appears only for a login that was admitted.
LEMMA NewRows ==
    ASSUME TypeOK, [Next]_vars, NEW s \in Sessions, session[s] = NULL, session'[s] # NULL
    PROVE  \E l \in Logins :
              /\ login[l].phase = "verified"
              /\ ~LockedOut(l)
              /\ Unchanged(login[l])
              /\ session'[s] = NewSession(login[l].target.id,
                                          login[l].target.account.hash.gen, login[l].at)
              /\ user' = [user EXCEPT ![login[l].target.id].hash.legacy = FALSE]
              /\ login' = [login EXCEPT ![l] = IdleLogin]
<1> USE DEF TypeOK
<1>1. CASE SessionOpened
    <2>1. PICK l \in Logins, t \in Sessions :
            /\ login[l].phase = "verified"
            /\ ~LockedOut(l)
            /\ Unchanged(login[l])
            /\ session[t] = NULL
            /\ session' = [session EXCEPT ![t] =
                             NewSession(login[l].target.id,
                                        login[l].target.account.hash.gen, login[l].at)]
            /\ user' = [user EXCEPT ![login[l].target.id].hash.legacy = FALSE]
            /\ login' = [login EXCEPT ![l] = IdleLogin]
        BY <1>1 DEF SessionOpened
    <2>2. t = s
        BY <2>1
    <2> QED
        BY <2>1, <2>2
<1>2. CASE SessionTouched
    <2>1. PICK r \in Requests :
            /\ Usable(request[r].session, request[r].at)
            /\ session' = [session EXCEPT
                             ![request[r].session].lastSeenAt = request[r].at,
                             ![request[r].session].idleExpiresAt =
                                 Extended(request[r].session, request[r].at)]
        BY <1>2 DEF SessionTouched
    <2> QED
        BY <2>1 DEF Usable, Live
<1>3. CASE SessionClosed
    BY <1>3 DEF SessionClosed, Live
<1>4. CASE AccountClosed
    <2>1. PICK u \in Users, reason \in Reasons : session' = Revoked(u, reason)
        BY <1>4 DEF AccountClosed
    <2> QED
        BY <2>1, RevokedRows
<1> QED
    BY <1>1, <1>2, <1>3, <1>4, TableSteps DEF SessionsKept, AccountOpened

\* No step touches a row that is revoked.
LEMMA RevokedStays ==
    TypeOK /\ [Next]_vars =>
        [\A s \in Sessions : session[s] # NULL /\ ~Live(s) => session'[s] = session[s]]_vars
BY RowSteps

\* Once revoked, a session never changes again.
THEOREM RevocationIsFinal == Spec => RevocationFinal
BY TypeCorrect, RevokedStays, PTL DEF Spec, RevocationFinal

\* The account a verified login names, and the instant it captured.
LEMMA VerifiedLogin ==
    ASSUME TypeOK, NEW l \in Logins, login[l].phase = "verified", Unchanged(login[l])
    PROVE  /\ login[l].target.id \in Users
           /\ user[login[l].target.id] \in Account
           /\ login[l].target.account.hash = user[login[l].target.id].hash
           /\ login[l].at \in Int /\ login[l].at <= now /\ now \in Int
<1>1. login[l].target \in Snapshot
    BY DEF TypeOK, LoginUnderWay, LoginState
<1>2. login[l].target.id \in Users
    BY <1>1 DEF Snapshot
<1>3. user[login[l].target.id] \in Account
    BY <1>2 DEF TypeOK, Unchanged, Exists
<1>4. login[l].at \in Times /\ login[l].at <= now /\ now \in Times
    BY DEF TypeOK, LoginUnderWay
<1>5. Times \subseteq Int
    BY IdentityAssumption DEF Times
<1> QED
    BY <1>2, <1>3, <1>4, <1>5 DEF Unchanged

\* The step that opens a session opens a current one.
LEMMA OpenedCurrent ==
    ASSUME TypeOK, [Next]_vars, NEW s \in Sessions, session[s] = NULL, session'[s] # NULL
    PROVE  user'[session'[s].user].isEnabled /\ session'[s].gen = user'[session'[s].user].hash.gen
<1>1. PICK l \in Logins :
        /\ login[l].phase = "verified"
        /\ Unchanged(login[l])
        /\ session'[s] = NewSession(login[l].target.id, login[l].target.account.hash.gen,
                                    login[l].at)
        /\ user' = [user EXCEPT ![login[l].target.id].hash.legacy = FALSE]
    BY NewRows
<1> DEFINE u == login[l].target.id
<1>2. u \in Users /\ user[u] \in Account /\ login[l].target.account.hash = user[u].hash
    BY <1>1, VerifiedLogin
<1>3. session'[s].user = u /\ session'[s].gen = user[u].hash.gen
    BY <1>1, <1>2 DEF NewSession
<1>4. user[u].isEnabled
    BY <1>1 DEF Unchanged
<1>5. user'[u].isEnabled = user[u].isEnabled /\ user'[u].hash.gen = user[u].hash.gen
    BY <1>1, <1>2 DEF TypeOK, Account, Hash
<1> QED
    BY <1>3, <1>4, <1>5

\* Whatever a step does to the accounts, a session it leaves live stays current.
LEMMA CurrentStays ==
    ASSUME TypeOK, SessionsCurrent, [Next]_vars,
           NEW s \in Sessions, session[s] # NULL, session'[s].revoked = "no"
    PROVE  user'[session'[s].user].isEnabled /\ session'[s].gen = user'[session'[s].user].hash.gen
<1> DEFINE u == session[s].user
<1>1. /\ session'[s].user = u
      /\ session'[s].gen = session[s].gen
      /\ Live(s)
    BY RowSteps
<1>2. user[u].isEnabled /\ session[s].gen = user[u].hash.gen
    BY <1>1 DEF SessionsCurrent
<1>3. u \in Users /\ Exists(u) /\ user[u] \in Account
    BY <1>1 DEF TypeOK, Session, Exists
<1> HIDE DEF u
<1>4. user'[u].isEnabled /\ user'[u].hash.gen = user[u].hash.gen
    <2>1. CASE user' = user
        BY <1>2, <2>1
    <2>2. CASE SessionOpened
        <3>1. PICK l \in Logins : user' = [user EXCEPT ![login[l].target.id].hash.legacy = FALSE]
            BY <2>2 DEF SessionOpened
        <3> QED
            BY <1>2, <1>3, <3>1 DEF TypeOK, Account, Hash
    <2>3. CASE AccountClosed
        <3>1. PICK v \in Users, reason \in Reasons, account \in Account :
                /\ session' = Revoked(v, reason)
                /\ user' = [user EXCEPT ![v] = account]
            BY <2>3 DEF AccountClosed
        <3>2. v # u
            BY <3>1, RevokedRows DEF TypeOK, u
        <3> QED
            BY <1>2, <1>3, <3>1, <3>2 DEF TypeOK
    <2>4. CASE AccountOpened
        <3>1. PICK v \in Users, account \in Account :
                /\ user' = [user EXCEPT ![v] = account]
                /\ Exists(v) => account.hash = user[v].hash
                                /\ (user[v].isEnabled => account.isEnabled)
            BY <2>4 DEF AccountOpened
        <3> QED
            BY <1>2, <1>3, <3>1 DEF TypeOK
    <2> QED
        BY <2>1, <2>2, <2>3, <2>4, TableSteps DEF SessionsKept, SessionTouched, SessionClosed
<1> QED
    BY <1>1, <1>2, <1>4

\* SessionsCurrent with TypeOK is inductive.
LEMMA CurrentInductive == TypeOK /\ SessionsCurrent /\ [Next]_vars => SessionsCurrent'
<1> SUFFICES ASSUME TypeOK, SessionsCurrent, [Next]_vars,
                    NEW s \in Sessions, session'[s] # NULL, session'[s].revoked = "no"
             PROVE  /\ user'[session'[s].user].isEnabled
                    /\ session'[s].gen = user'[session'[s].user].hash.gen
    BY DEF SessionsCurrent, Live
<1> QED
    BY OpenedCurrent, CurrentStays

\* Every session that is not revoked belongs to an enabled account and was
\* opened with the password the account has now.
THEOREM SessionsAreCurrent == Spec => []SessionsCurrent
<1>1. Init => SessionsCurrent
    BY DEF Init, SessionsCurrent, Live
<1> QED
    BY <1>1, TypeCorrect, CurrentInductive, PTL DEF Spec

\* The expiries of one row, at the instant t.
ExpiryOK(row, t) ==
    /\ row.idleExpiresAt = Least(row.lastSeenAt + IdleTicks, row.absoluteExpiresAt)
    /\ row.lastSeenAt < row.absoluteExpiresAt
    /\ row.absoluteExpiresAt <= t + AbsoluteTicks

\* SessionExpiry with TypeOK is inductive.
LEMMA ExpiryInductive == TypeOK /\ SessionExpiry /\ [Next]_vars => SessionExpiry'
<1> SUFFICES ASSUME TypeOK, SessionExpiry, [Next]_vars,
                    NEW s \in Sessions, session'[s] # NULL
             PROVE  ExpiryOK(session'[s], now')
    BY DEF SessionExpiry, ExpiryOK
<1>1. now \in Int /\ now' \in Int /\ now <= now' /\ AbsoluteTicks \in Int /\ IdleTicks \in Int
    BY BucketTypes, IdentityAssumption DEF TypeOK, Times
<1>2. CASE session[s] = NULL
    <2>1. PICK l \in Logins :
            /\ login[l].phase = "verified"
            /\ Unchanged(login[l])
            /\ session'[s] = NewSession(login[l].target.id, login[l].target.account.hash.gen,
                                        login[l].at)
        BY <1>2, NewRows
    <2>2. login[l].at \in Int /\ login[l].at <= now'
        BY <1>1, <2>1, VerifiedLogin
    <2>3. /\ login[l].at < login[l].at + AbsoluteTicks
          /\ login[l].at + AbsoluteTicks <= now' + AbsoluteTicks
        BY <1>1, <2>2, IdentityAssumption
    <2> QED
        BY <2>1, <2>3 DEF NewSession, ExpiryOK
<1>3. CASE session[s] # NULL
    <2>1. session[s] \in Session /\ ExpiryOK(session[s], now)
        BY <1>3 DEF TypeOK, SessionExpiry, ExpiryOK
    <2>2. ExpiryOK(session[s], now')
        <3>1. session[s].absoluteExpiresAt \in Int
            BY <2>1 DEF Session
        <3> QED
            BY <1>1, <2>1, <3>1 DEF ExpiryOK
    <2>3. CASE SameUse(session'[s], session[s])
        BY <2>2, <2>3 DEF SameUse, ExpiryOK
    <2>4. ASSUME NEW r \in Requests, Usable(s, request[r].at),
                 session'[s] = Extension(r, session[s]), request[r].phase = "found"
          PROVE  ExpiryOK(session'[s], now')
        <3> DEFINE row == session[s]
                   at == request[r].at
                   n == Extension(r, row)
        <3>1. at \in Int
            BY <2>4, IdentityAssumption DEF TypeOK, RequestUnderWay, Times
        <3>2. row.absoluteExpiresAt > at /\ row.absoluteExpiresAt \in Int
            BY <2>1, <2>4 DEF Usable, Session
        <3>3. /\ n.lastSeenAt = at
              /\ n.idleExpiresAt = Least(at + IdleTicks, row.absoluteExpiresAt)
              /\ n.absoluteExpiresAt = row.absoluteExpiresAt
            BY <2>1 DEF Extension, Session
        <3> HIDE DEF row, at, n
        <3>4. ExpiryOK(n, now')
            BY <2>2, <3>1, <3>2, <3>3 DEF ExpiryOK, row
        <3> QED
            BY <2>4, <3>4 DEF n, row
    <2> QED
        BY <1>3, <2>3, <2>4, RowSteps
<1> QED
    BY <1>2, <1>3

\* In whatever order requests touch it, a session expires IdleTicks after one
\* that used it, and never after the end it was created with.
THEOREM SessionsExpire == Spec => []SessionExpiry
<1>1. Init => SessionExpiry
    BY DEF Init, SessionExpiry
<1> QED
    BY <1>1, TypeCorrect, ExpiryInductive, PTL DEF Spec

----------------------------------------------------------------------------
\* The throttle.

\* An identifier locked now was locked at every earlier instant too: a login
\* that captured its own before cannot see the lock as over.
LEMMA LockedBefore ==
    ASSUME NEW b \in Bucket \cup {NULL}, NEW t \in Int, NEW later \in Int,
           t <= later, IsBlocked(b, later)
    PROVE  IsBlocked(b, t)
<1>1. b \in Bucket /\ b.blockedUntil \in Int
    BY DEF IsBlocked, Bucket
<1> QED
    BY <1>1 DEF IsBlocked

\* No step changes the bucket of a locked identifier.
LEMMA LockStays ==
    TypeOK /\ [Next]_vars =>
        [\A e \in Emails : IsBlocked(bucket[e], now) => bucket'[e] = bucket[e]]_vars
<1> SUFFICES ASSUME TypeOK, [Next]_vars, NEW e \in Emails, IsBlocked(bucket[e], now)
             PROVE  bucket'[e] = bucket[e]
    OBVIOUS
<1>1. /\ bucket \in [Emails -> Bucket \cup {NULL}]
      /\ bucket[e] \in Bucket \cup {NULL}
      /\ now \in Int
    BY IdentityAssumption DEF TypeOK, Times
<1>2. ASSUME NEW l \in Logins, login[l].phase # "idle", login[l].email = e
      PROVE  IsBlocked(bucket[e], login[l].at)
    <2>1. login[l].at \in Int /\ login[l].at <= now
        BY <1>2, IdentityAssumption DEF TypeOK, LoginUnderWay, Times
    <2> QED
        BY <1>1, <2>1, LockedBefore
<1>3. ASSUME NEW l \in Logins, login[l].phase = "failing",
             bucket' = [bucket EXCEPT ![login[l].email] = NextThrottleState(@, login[l].at)]
      PROVE  bucket'[e] = bucket[e]
    <2>1. CASE login[l].email = e
        <3>1. NextThrottleState(bucket[e], login[l].at) = bucket[e]
            BY <1>2, <1>3, <2>1 DEF NextThrottleState
        <3> QED
            BY <1>1, <1>3, <2>1, <3>1
    <2>2. CASE login[l].email # e
        BY <1>1, <1>3, <2>2
    <2> QED
        BY <2>1, <2>2
<1>4. ASSUME NEW l \in Logins, login[l].phase = "verified", ~LockedOut(l),
             bucket' = [bucket EXCEPT ![login[l].email] = NULL]
      PROVE  bucket'[e] = bucket[e]
    <2>1. login[l].email # e
        BY <1>2, <1>4 DEF LockedOut
    <2> QED
        BY <1>1, <1>4, <2>1
<1> QED
    BY <1>3, <1>4, BucketSteps DEF BucketStep

\* A lock runs to its end, whatever older or newer logins do meanwhile.
THEOREM LocksHold == Spec => LockHolds
BY TypeCorrect, LockStays, PTL DEF Spec, LockHolds

\* What LimitLocks says of one bucket, at the instant t.
LimitOK(b, t) ==
    /\ b.attemptCount >= MaxAttempts <=> b.blockedUntil # NULL
    /\ b.blockedUntil # NULL => b.blockedUntil <= t + LockTicks

\* Counting a failure of an earlier instant keeps it.
LEMMA CountingLocks ==
    ASSUME NEW b \in Bucket \cup {NULL}, NEW at \in Int, NEW t \in Int, at <= t,
           b # NULL => LimitOK(b, t)
    PROVE  LimitOK(NextThrottleState(b, at), t)
<1>1. ASSUME NEW n \in Nat
      PROVE  /\ n >= MaxAttempts <=> LockFor(n, at) # NULL
             /\ LockFor(n, at) # NULL => LockFor(n, at) <= t + LockTicks
    <2>1. at + LockTicks # NULL /\ at + LockTicks <= t + LockTicks
        BY ThrottleAssumption
    <2> QED
        BY <2>1 DEF LockFor
<1>2. LimitOK(StartWindow(at), t)
    BY <1>1 DEF LimitOK, StartWindow
<1>3. ASSUME b # NULL
      PROVE  LimitOK(CountAttempt(b, at), t)
    <2>1. b \in Bucket /\ b.attemptCount + 1 \in Nat
        BY <1>3 DEF Bucket
    <2>2. /\ CountAttempt(b, at).attemptCount = b.attemptCount + 1
          /\ CountAttempt(b, at).blockedUntil = LockFor(b.attemptCount + 1, at)
        BY <2>1 DEF CountAttempt, Bucket
    <2> QED
        BY <1>1, <2>1, <2>2 DEF LimitOK
<1>4. CASE IsBlocked(b, at)
    BY <1>4 DEF IsBlocked, NextThrottleState
<1>5. CASE ~IsBlocked(b, at) /\ (b = NULL \/ at >= b.windowStartedAt + WindowTicks)
    BY <1>2, <1>5 DEF NextThrottleState
<1>6. CASE ~IsBlocked(b, at) /\ ~(b = NULL \/ at >= b.windowStartedAt + WindowTicks)
    BY <1>3, <1>6 DEF NextThrottleState
<1> QED
    BY <1>4, <1>5, <1>6

\* LimitLocks with TypeOK is inductive.
LEMMA LimitInductive == TypeOK /\ LimitLocks /\ [Next]_vars => LimitLocks'
<1> SUFFICES ASSUME TypeOK, LimitLocks, [Next]_vars, NEW e \in Emails, bucket'[e] # NULL
             PROVE  LimitOK(bucket'[e], now')
    BY DEF LimitLocks, LimitOK
<1>1. now \in Int /\ now' \in Int /\ now <= now'
    BY BucketTypes, IdentityAssumption DEF TypeOK, Times
<1>2. bucket \in [Emails -> Bucket \cup {NULL}]
    BY DEF TypeOK
<1>3. ASSUME NEW d \in Emails, bucket[d] # NULL
      PROVE  LimitOK(bucket[d], now')
    <2>1. bucket[d] \in Bucket /\ LimitOK(bucket[d], now)
        BY <1>2, <1>3 DEF LimitLocks, LimitOK
    <2>2. bucket[d].blockedUntil # NULL => bucket[d].blockedUntil \in Int
        BY <2>1 DEF Bucket
    <2> QED
        BY <1>1, <2>1, <2>2, ThrottleAssumption DEF LimitOK
<1>4. CASE bucket' = bucket
    BY <1>3, <1>4
<1>5. ASSUME NEW l \in Logins, login[l].phase = "failing",
             bucket' = [bucket EXCEPT ![login[l].email] = NextThrottleState(@, login[l].at)]
      PROVE  LimitOK(bucket'[e], now')
    <2>1. login[l].at \in Int /\ login[l].at <= now'
        BY <1>1, <1>5, IdentityAssumption DEF TypeOK, LoginUnderWay, Times
    <2>2. LimitOK(NextThrottleState(bucket[e], login[l].at), now')
        BY <1>1, <1>2, <1>3, <2>1, CountingLocks
    <2> QED
        BY <1>2, <1>3, <1>5, <2>2
<1>6. ASSUME NEW l \in Logins, bucket' = [bucket EXCEPT ![login[l].email] = NULL]
      PROVE  LimitOK(bucket'[e], now')
    BY <1>2, <1>3, <1>6
<1> QED
    BY <1>4, <1>5, <1>6, BucketSteps DEF BucketStep

\* Counting reaches the limit exactly when it locks, and no lock outlasts
\* LockTicks from now.
THEOREM LimitsLock == Spec => []LimitLocks
<1>1. Init => LimitLocks
    BY DEF Init, LimitLocks
<1> QED
    BY <1>1, TypeCorrect, LimitInductive, PTL DEF Spec

\* The step that opens a session finds its identifier unlocked now.
LEMMA OpenedUnlocked ==
    TypeOK /\ [Next]_vars =>
        [\A s \in Sessions : Opened(s) =>
           ~IsBlocked(bucket[user[session'[s].user].email], now)]_vars
<1> SUFFICES ASSUME TypeOK, [Next]_vars, NEW s \in Sessions, Opened(s)
             PROVE  ~IsBlocked(bucket[user[session'[s].user].email], now)
    OBVIOUS
<1>1. PICK l \in Logins :
        /\ login[l].phase = "verified"
        /\ ~LockedOut(l)
        /\ Unchanged(login[l])
        /\ session'[s] = NewSession(login[l].target.id, login[l].target.account.hash.gen,
                                    login[l].at)
    BY NewRows DEF Opened
<1>2. session'[s].user = login[l].target.id
    BY <1>1 DEF NewSession
<1>3. user[login[l].target.id].email = login[l].email
    BY <1>1 DEF Unchanged
<1>4. login[l].email \in Emails
    BY <1>1 DEF TypeOK, LoginUnderWay
<1>5. bucket[login[l].email] \in Bucket \cup {NULL}
    BY <1>4 DEF TypeOK
<1>6. login[l].at \in Int /\ login[l].at <= now /\ now \in Int
    BY <1>1, VerifiedLogin
<1> QED
    BY <1>1, <1>2, <1>3, <1>5, <1>6, LockedBefore DEF LockedOut

\* No session is opened for an identifier that is locked.
THEOREM LockedOutStaysOut == Spec => NoLoginWhileLocked
BY TypeCorrect, OpenedUnlocked, PTL DEF Spec, NoLoginWhileLocked

----------------------------------------------------------------------------
\* Passwords.

\* A verified login gave the password of the account it remembers.
VerifiedByPassword ==
    \A l \in Logins :
        login[l].phase = "verified" => login[l].target.account.hash.pw = login[l].pw

\* VerifiedByPassword with TypeOK is inductive: only Lookup verifies, and nothing
\* it remembers changes until the admission.
LEMMA VerifiedInductive ==
    TypeOK /\ VerifiedByPassword /\ [Next]_vars => VerifiedByPassword'
<1> SUFFICES ASSUME TypeOK, VerifiedByPassword, [Next]_vars,
                    NEW l \in Logins, login'[l].phase = "verified"
             PROVE  login'[l].target.account.hash.pw = login'[l].pw
    BY DEF VerifiedByPassword
<1>0. login \in [Logins -> LoginState] /\ login[l] \in LoginState
    BY DEF TypeOK
<1>1. CASE login'[l] = login[l]
    BY <1>1 DEF VerifiedByPassword
<1>2. ASSUME NEW k \in Logins, Lookup(k)
      PROVE  login'[l].target.account.hash.pw = login'[l].pw
    <2>1. CASE k # l
        <3>1. login'[l] = login[l]
            BY <1>0, <1>2, <2>1 DEF Lookup
        <3> QED
            BY <1>1, <3>1
    <2>2. CASE k = l
        <3>1. Failing(login[l]).phase = "failing"
            BY DEF Failing, IdleLogin
        <3>2. PICK u \in Users :
                /\ Verifies(user[u], login[l].pw)
                /\ login' = [login EXCEPT ![l] =
                               [login[l] EXCEPT !.phase = "verified",
                                                !.target = [id |-> u, account |-> user[u]]]]
            BY <1>0, <1>2, <2>2, <3>1 DEF Lookup
        <3>3. login'[l].target.account = user[u] /\ login'[l].pw = login[l].pw
            BY <1>0, <3>2 DEF LoginState
        <3> QED
            BY <3>2, <3>3 DEF Verifies
    <2> QED
        BY <2>1, <2>2
<1>3. ASSUME NEW k \in Logins, LoginBegins(k) \/ LoginStep(k), ~Lookup(k)
      PROVE  login'[l] = login[l]
    <2>1. PICK q : login' = [login EXCEPT ![k] = q] /\ q.phase # "verified"
        <3>1. CASE LoginBegins(k)
            <4>1. PICK e \in Emails, pw \in Passwords :
                    login' = [login EXCEPT ![k] =
                                [IdleLogin EXCEPT !.phase = "preflight", !.email = e,
                                                  !.pw = pw, !.at = now]]
                BY <3>1 DEF LoginBegins
            <4> DEFINE begun == [IdleLogin EXCEPT !.phase = "preflight", !.email = e,
                                                  !.pw = pw, !.at = now]
            <4>2. begun.phase = "preflight"
                BY DEF IdleLogin
            <4>3. login' = [login EXCEPT ![k] = begun]
                BY <4>1
            <4> HIDE DEF begun
            <4> QED
                BY <4>2, <4>3
        <3>2. CASE LoginEnds(k)
            <4>1. IdleLogin.phase = "idle"
                BY DEF IdleLogin
            <4> QED
                BY <3>2, <4>1 DEF LoginEnds
        <3>3. CASE Preflight(k) /\ ~LoginEnds(k)
            <4>1. login' = [login EXCEPT ![k] = [login[k] EXCEPT !.phase = "lookup"]]
                BY <3>3 DEF Preflight
            <4>2. [login[k] EXCEPT !.phase = "lookup"].phase = "lookup"
                BY <1>0 DEF TypeOK, LoginState
            <4> QED
                BY <4>1, <4>2
        <3>4. CASE AdmitStale(k)
            <4> DEFINE again == [login[k] EXCEPT !.phase = "lookup", !.attempt = 1,
                                                 !.target = NULL]
            <4>1. \/ login' = [login EXCEPT ![k] = again]
                  \/ login' = [login EXCEPT ![k] = Failing(login[k])]
                BY <3>4 DEF AdmitStale, RetryOnce
            <4>2. again.phase = "lookup"
                BY <1>0 DEF TypeOK, LoginState
            <4>3. Failing(login[k]).phase = "failing"
                BY DEF Failing, IdleLogin
            <4> HIDE DEF again
            <4> QED
                BY <4>1, <4>2, <4>3
        <3> QED
            BY <1>3, <3>1, <3>2, <3>3, <3>4
               DEF LoginStep, AdmitLocked, AdmitSession, Fail, LoginAborts
    <2> QED
        BY <1>0, <2>1
<1>4. ASSUME NEW r \in Requests, FindSession(r) \/ RequestStep(r)
      PROVE  login' = login
    BY <1>4 DEF FindSession, RequestStep, Touch, RequestAnswers, Logout, ChangeBegins,
                ChangeReads, ChangeRefused, ChangeRetries, ChangeCommits
<1>5. ASSUME NEW u \in Users, AdminStep(u)
      PROVE  login' = login
    BY <1>5 DEF AdminStep, CreateViewer, UpdateEmail, ResetPassword, RevokeSessions, Disable,
                Enable
<1>6. CASE UNCHANGED vars \/ Tick
    BY <1>1, <1>6 DEF vars, Tick
<1> QED
    BY <1>1, <1>2, <1>3, <1>4, <1>5, <1>6 DEF Next

\* The step that opens a session does so for the current credentials.
LEMMA OpenedByPassword ==
    TypeOK /\ VerifiedByPassword /\ [Next]_vars =>
        [\A s \in Sessions : Opened(s) =>
           \E l \in Logins :
              LET account == user[session'[s].user]
              IN  /\ login[l].phase = "verified"
                  /\ login'[l].phase = "idle"
                  /\ account.isEnabled
                  /\ account.email = login[l].email
                  /\ account.hash.pw = login[l].pw]_vars
<1> SUFFICES ASSUME TypeOK, VerifiedByPassword, [Next]_vars, NEW s \in Sessions, Opened(s)
             PROVE  \E l \in Logins :
                       /\ login[l].phase = "verified"
                       /\ login'[l].phase = "idle"
                       /\ user[session'[s].user].isEnabled
                       /\ user[session'[s].user].email = login[l].email
                       /\ user[session'[s].user].hash.pw = login[l].pw
    OBVIOUS
<1>1. PICK l \in Logins :
        /\ login[l].phase = "verified"
        /\ Unchanged(login[l])
        /\ session'[s] = NewSession(login[l].target.id, login[l].target.account.hash.gen,
                                    login[l].at)
        /\ login' = [login EXCEPT ![l] = IdleLogin]
    BY NewRows DEF Opened
<1>2. session'[s].user = login[l].target.id
    BY <1>1 DEF NewSession
<1>3. login'[l].phase = "idle"
    BY <1>1 DEF TypeOK, IdleLogin
<1>4. login[l].target.account.hash.pw = login[l].pw
    BY <1>1 DEF VerifiedByPassword
<1> QED
    BY <1>1, <1>2, <1>3, <1>4 DEF Unchanged

\* A session is opened only by a login whose email and password are, at that
\* moment, those of an enabled account.
THEOREM AdmissionIsCurrent == Spec => AdmittedByCurrentPassword
<1>1. Init => VerifiedByPassword
    BY DEF Init, VerifiedByPassword, IdleLogin
<1> QED
    BY <1>1, TypeCorrect, VerifiedInductive, OpenedByPassword,
       PTL DEF Spec, AdmittedByCurrentPassword

\* A request that hashed a new password either leaves the account's as it was,
\* or gave the one in force.
LEMMA ChangesByPassword ==
    TypeOK /\ [Next]_vars =>
        [\A r \in Requests :
           request[r].phase = "hashed" /\ request'[r].phase = "idle" =>
              \/ user'[Caller(r)].hash = user[Caller(r)].hash
              \/ /\ user[Caller(r)].isEnabled
                 /\ user[Caller(r)].hash.pw = request[r].current]_vars
<1> SUFFICES ASSUME TypeOK, [Next]_vars, NEW r \in Requests,
                    request[r].phase = "hashed", request'[r].phase = "idle"
             PROVE  \/ user'[Caller(r)].hash = user[Caller(r)].hash
                    \/ /\ user[Caller(r)].isEnabled
                       /\ user[Caller(r)].hash.pw = request[r].current
    OBVIOUS
<1>1. request'[r] # request[r]
    OBVIOUS
<1>2. ASSUME NEW k \in Requests, FindSession(k) \/ RequestStep(k)
      PROVE  k = r
    BY <1>1, <1>2 DEF TypeOK, FindSession, RequestStep, RequestEnds, Touch, RequestAnswers,
                      Logout, ChangeBegins, ChangeReads, ChangeRefused, ChangeRetries,
                      ChangeCommits
<1>3. ASSUME NEW l \in Logins, LoginBegins(l) \/ LoginStep(l)
      PROVE  FALSE
    BY <1>1, <1>3 DEF LoginBegins, LoginStep, Preflight, Lookup, AdmitLocked, AdmitStale,
                      AdmitSession, Fail, LoginAborts
<1>4. ASSUME NEW u \in Users, AdminStep(u)
      PROVE  FALSE
    BY <1>1, <1>4 DEF AdminStep, CreateViewer, UpdateEmail, ResetPassword, RevokeSessions,
                      Disable, Enable
<1>5. FindSession(r) \/ RequestStep(r)
    BY <1>1, <1>2, <1>3, <1>4 DEF Next, vars, Tick
<1>6. CASE ChangeCommits(r)
    BY <1>6 DEF ChangeCommits, SameCredential
<1>7. CASE ~ChangeCommits(r)
    BY <1>5, <1>7 DEF FindSession, RequestStep, Touch, RequestAnswers, Logout, ChangeBegins,
                      ChangeReads, ChangeRefused, ChangeRetries
<1> QED
    BY <1>6, <1>7

\* A user replaces a password only by giving the one in force at the commit.
THEOREM ChangesAreCurrent == Spec => ChangeByCurrentPassword
BY TypeCorrect, ChangesByPassword, PTL DEF Spec, ChangeByCurrentPassword
=============================================================================
