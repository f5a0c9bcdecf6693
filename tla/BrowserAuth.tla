---------------------------- MODULE BrowserAuth -----------------------------
(***************************************************************************)
(* What a tab of the web client knows of who is signed in                    *)
(* (apps/web/src/lib/auth-context.tsx, and the gates and forms that use it), *)
(* against the session its cookie names, which the server may end at any     *)
(* moment.                                                                  *)
(*                                                                         *)
(* The answers come late and in any order: those of a bootstrap that was     *)
(* retried, and those of the requests of a screen that is still mounted or   *)
(* not.                                                                     *)
(***************************************************************************)
EXTENDS Basics, Integers, FiniteSets

CONSTANTS
    TabUsers,
    MaxAnswers    \* bound on the requests made

Forms == [kind : {"login", "logout", "password"}, user : TabUsers,
          answer : {NULL, "done", "failed", "unauthenticated"}]

\* A user, an answer, no answer and no form are told apart.
ASSUME AuthAssumption ==
    /\ NULL \notin TabUsers \cup {"unauthenticated", "failed", "done"}
    /\ {"unauthenticated", "failed", "done"} \cap TabUsers = {}
    /\ NULL \notin Forms

VARIABLES
    cookie,       \* the user of the session the cookie names, or NULL
    auth,         \* AuthState: [status, user]
    bootstraps,   \* answers of /auth/me under way: [number, answer]
    current,      \* the number of the bootstrap that is not aborted
    form,         \* the form submitted, NULL for none: [kind, user, answer]
    calls,        \* answers of the screens' requests under way, not abortable
    requests      \* requests made so far

authVars == <<cookie, auth, bootstraps, current, form, calls, requests>>

Anonymous == [status |-> "anonymous", user |-> NULL]
Loading == [status |-> "loading", user |-> NULL]
Broken == [status |-> "error", user |-> NULL]
Authenticated(u) == [status |-> "authenticated", user |-> u]

AuthInit ==
    /\ cookie \in TabUsers \cup {NULL}
    /\ auth = Loading
    /\ bootstraps = {[number |-> 1, answer |-> NULL]}
    /\ current = 1
    /\ form = NULL
    /\ calls = {}
    /\ requests = 1

\* requestApi: what the client makes of a response. 401 is told apart only when it is
\* the known envelope; anything that does not parse, and no response, is a failure.
Response == IF cookie = NULL THEN {"unauthenticated", "failed"} ELSE {cookie, "failed"}

SessionEnds ==
    /\ cookie # NULL
    /\ cookie' = NULL
    /\ UNCHANGED <<auth, bootstraps, current, form, calls, requests>>

\* retryBootstrap, from the error state: the previous one is aborted.
RetriesBootstrap ==
    /\ auth.status = "error" /\ requests < MaxAnswers
    /\ auth' = Loading
    /\ requests' = requests + 1
    /\ current' = requests + 1
    /\ bootstraps' = bootstraps \cup {[number |-> requests + 1, answer |-> NULL]}
    /\ UNCHANGED <<cookie, form, calls>>

\* The provider mounts twice in development, and anew with a reload of the tab.
Remounts ==
    /\ form = NULL /\ calls = {} /\ requests < MaxAnswers
    /\ auth' = Loading
    /\ requests' = requests + 1
    /\ current' = requests + 1
    /\ bootstraps' = bootstraps \cup {[number |-> requests + 1, answer |-> NULL]}
    /\ UNCHANGED <<cookie, form, calls>>

BootstrapReads(b) ==
    /\ b.answer = NULL
    /\ \E response \in Response :
         bootstraps' = (bootstraps \ {b}) \cup {[b EXCEPT !.answer = response]}
    /\ UNCHANGED <<cookie, auth, current, form, calls, requests>>

Counts(b) == b.number = current

BootstrapArrives(b) ==
    /\ b.answer # NULL
    /\ bootstraps' = bootstraps \ {b}
    /\ auth' = IF ~Counts(b) THEN auth
               ELSE IF b.answer \in TabUsers THEN Authenticated(b.answer)
               ELSE IF b.answer = "unauthenticated" THEN Anonymous ELSE Broken
    /\ UNCHANGED <<cookie, current, form, calls, requests>>

----------------------------------------------------------------------------
\* The login form is shown by LoginGate when the user is anonymous; the shell, with
\* logout and the change of password, when authenticated. pendingRef: one at a time.

Submits(kind, u) ==
    /\ form = NULL /\ requests < MaxAnswers
    /\ auth.status = IF kind = "login" THEN "anonymous" ELSE "authenticated"
    /\ form' = [kind |-> kind, user |-> u, answer |-> NULL]
    /\ requests' = requests + 1
    /\ UNCHANGED <<cookie, auth, bootstraps, current, calls>>

\* A login opens a session, the others end theirs; or the request fails, and changes
\* nothing, or what it changed is not known.
FormReads ==
    /\ form # NULL /\ form.answer = NULL
    /\ \E response \in {"done", "failed"} \cup (IF form.kind # "login" THEN Response \ TabUsers ELSE {}) :
         /\ response = "done" /\ form.kind # "login" => cookie # NULL
         /\ form' = [form EXCEPT !.answer = response]
         /\ cookie' = IF response # "done" THEN cookie
                      ELSE IF form.kind = "login" THEN form.user ELSE NULL
    /\ UNCHANGED <<auth, bootstraps, current, calls, requests>>

ReplyIsLost ==
    /\ form # NULL /\ form.answer = "done" /\ form.kind # "login"
    /\ form' = [form EXCEPT !.answer = "failed"]
    /\ UNCHANGED <<cookie, auth, bootstraps, current, calls, requests>>

FormArrives ==
    /\ form # NULL /\ form.answer # NULL
    /\ form' = NULL
    /\ auth' = CASE form.answer = "done" /\ form.kind = "login" -> Authenticated(form.user)
                 [] form.answer = "done" /\ form.kind # "login" -> Anonymous
                 [] form.answer = "unauthenticated" -> Anonymous
                 [] OTHER -> auth
    /\ UNCHANGED <<cookie, bootstraps, current, calls, requests>>

----------------------------------------------------------------------------
\* A request of a screen, answered at one moment and arriving at another.
ScreenCalls ==
    /\ auth.status = "authenticated" /\ requests < MaxAnswers
    /\ requests' = requests + 1
    /\ \E response \in Response : calls' = calls \cup {[number |-> requests + 1, answer |-> response]}
    /\ UNCHANGED <<cookie, auth, bootstraps, current, form>>

\* handleApiError: AUTH_UNAUTHENTICATED and nothing else.
HandleApiError(answer) == answer = "unauthenticated"

CallArrives(k) ==
    /\ calls' = calls \ {k}
    /\ auth' = IF HandleApiError(k.answer) THEN Anonymous ELSE auth
    /\ UNCHANGED <<cookie, bootstraps, current, form, requests>>

AuthNext ==
    \/ SessionEnds \/ RetriesBootstrap \/ Remounts \/ FormReads \/ ReplyIsLost \/ FormArrives
    \/ ScreenCalls
    \/ \E kind \in {"login", "logout", "password"}, u \in TabUsers : Submits(kind, u)
    \/ \E b \in bootstraps : BootstrapReads(b) \/ BootstrapArrives(b)
    \/ \E k \in calls : CallArrives(k)

AuthSpec == AuthInit /\ [][AuthNext]_authVars

----------------------------------------------------------------------------
\* The user a tab shows is the one whose session its cookie names, as long as there is
\* one: no late answer brings back another. And a tab that waits for its bootstrap, or
\* offers the login form, comes out of it by an answer that is still to come.
ShowsTheUser ==
    /\ auth.status = "authenticated" /\ cookie # NULL => auth.user = cookie
    /\ auth.status = "loading" => \E b \in bootstraps : b.number = current

\* A tab whose user is signed in is anonymous only after an answer that said so: neither a
\* failure nor a bootstrap that comes late ends a session.
LeavesOnlyWhenTold ==
    auth.status = "authenticated" /\ auth'.status = "anonymous" =>
        \/ \E k \in calls : k \notin calls' /\ k.answer = "unauthenticated"
        \/ form # NULL /\ form' = NULL /\ form.answer \in {"done", "unauthenticated"}
=============================================================================
