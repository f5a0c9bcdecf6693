--------------------------- MODULE ConsoleProofs ----------------------------
(***************************************************************************)
(* The theorems about what the API answers and the console shows             *)
(* (MCConsole): component by component, the invariant that is inductive and  *)
(* what follows from it, and last the theorems about them side by side.      *)
(***************************************************************************)
EXTENDS MCConsole, FiguresProofs, SequenceTheorems, FiniteSetTheorems, TLAPS

----------------------------------------------------------------------------
\* The dashboard (DashboardScreen).
ScreenInv ==
    /\ asked \in 1..MaxBatches /\ effect \in 0..asked
    /\ scope \in ScreenScopes
    /\ batches \subseteq [scope : ScreenScopes, effect : 1..MaxBatches, number : 1..MaxBatches, first : BOOLEAN]
    /\ \A b \in batches : b.effect <= asked
    /\ (session => effect # 0) /\ (~session => effect = 0)
    /\ \A b \in batches : b.effect = effect => b.scope = scope
    /\ ShowsTheSelection

LEMMA ScreenInvInit == ScreenInit => ScreenInv
<1> SUFFICES ASSUME ScreenInit PROVE ScreenInv
  OBVIOUS
<1>1. Everything \in ScreenScopes
  BY DEF Everything, ScreenScopes
<1> QED BY <1>1, ScreenAssumption DEF ScreenInit, ScreenInv, ShowsTheSelection

LEMMA ScreenInvNext == ScreenInv /\ [ScreenNext]_screenVars => ScreenInv'
<1> SUFFICES ASSUME ScreenInv, [ScreenNext]_screenVars PROVE ScreenInv'
  OBVIOUS
<1> USE ScreenAssumption DEF ScreenInv
<1>0. Everything \in ScreenScopes
  BY DEF Everything, ScreenScopes
<1>s. ASSUME NEW s \in ScreenScopes, NEW rest \in SUBSET batches, asked < MaxBatches,
             session', Starts(s, rest)
      PROVE  ScreenInv'
  <2>1. asked' \in 1..MaxBatches /\ effect' = asked' /\ asked' = asked + 1 /\ scope' = s
    BY <1>s DEF Starts
  <2> DEFINE first == [scope |-> s, effect |-> asked + 1, number |-> asked + 1, first |-> TRUE]
  <2>2. batches' = rest \cup {first}
    BY <1>s DEF Starts
  <2>3. first \in [scope : ScreenScopes, effect : 1..MaxBatches, number : 1..MaxBatches, first : BOOLEAN]
    BY <1>s
  <2>4. ShowsTheSelection'
    BY <1>s DEF Starts, ShowsTheSelection
  <2>5. \A b \in rest : b.effect <= asked
    OBVIOUS
  <2>6. \A b \in batches' : b.effect <= asked' /\ (b.effect = effect' => b.scope = scope')
    BY <2>5, <2>1, <2>2, <2>3
  <2>7. batches' \subseteq [scope : ScreenScopes, effect : 1..MaxBatches, number : 1..MaxBatches, first : BOOLEAN]
    BY <2>2, <2>3
  <2> QED BY <2>1, <2>4, <2>6, <2>7, <1>s
<1>l. ASSUME LeavesScreen, batches' \subseteq batches PROVE ScreenInv'
  BY <1>l, <1>0 DEF LeavesScreen, ShowsTheSelection
<1>1. ASSUME NEW g \in ScreenGroups \cup {NULL}, SelectsGroup(g) PROVE ScreenInv'
  <2>1. [group |-> g, channel |-> NULL] \in ScreenScopes
    BY DEF ScreenScopes
  <2> QED BY <1>1, <1>s, <2>1 DEF SelectsGroup
<1>2. ASSUME NEW c \in ScreenChannels \cup {NULL}, SelectsChannel(c) PROVE ScreenInv'
  <2>1. [scope EXCEPT !.channel = c] \in ScreenScopes
    BY DEF ScreenScopes
  <2> QED BY <1>2, <1>s, <2>1 DEF SelectsChannel
<1>3. CASE TimerFires
  <2>1. ShowsTheSelection'
    BY <1>3 DEF TimerFires, ShowsTheSelection
  <2>2. effect \in 1..MaxBatches
    BY <1>3 DEF TimerFires
  <2> DEFINE next == [scope |-> scope, effect |-> effect, number |-> asked + 1, first |-> FALSE]
  <2>3. next \in [scope : ScreenScopes, effect : 1..MaxBatches, number : 1..MaxBatches, first : BOOLEAN]
    BY <1>3, <2>2 DEF TimerFires
  <2>4. batches' = batches \cup {next}
    BY <1>3 DEF TimerFires
  <2>5. \A b \in batches' : b.effect <= asked' /\ (b.effect = effect' => b.scope = scope')
    BY <1>3, <2>3, <2>4 DEF TimerFires
  <2> HIDE DEF next
  <2> QED BY <1>3, <2>1, <2>2, <2>3, <2>4, <2>5 DEF TimerFires
<1>4. CASE SignsOut
  BY <1>4, <1>l DEF SignsOut
<1>5. CASE ComesBack
  BY <1>5, <1>s, <1>0 DEF ComesBack
<1>6. ASSUME NEW o, GroupsArrive(o) PROVE ScreenInv'
  BY <1>6 DEF GroupsArrive, ShowsTheSelection
<1>7. ASSUME NEW b \in batches, ComesTooLate(b) PROVE ScreenInv'
  BY <1>7 DEF ComesTooLate, ShowsTheSelection
<1>8. ASSUME NEW b \in batches, NEW result \in [Panels -> Outcomes], NEW opts, NEW has \in BOOLEAN,
             BatchArrives(b, result, opts, has)
      PROVE  ScreenInv'
  <2>1. [scope EXCEPT !.channel = NULL] \in ScreenScopes
    BY DEF ScreenScopes
  <2>2. session /\ b.effect = effect /\ b.scope = scope /\ b.scope \in ScreenScopes
        /\ [scope |-> b.scope, batch |-> b.number] # NULL
    BY <1>8 DEF BatchArrives, StillWanted
  <2>3. CASE LetsGoOfChannel(b)
    BY <2>1, <2>2, <2>3, <1>s DEF LetsGoOfChannel
  <2>4. CASE LeavesScreen /\ batches' = batches \ {b}
    BY <2>4, <1>l
  <2>5. CASE Retreats(b)
    BY <2>1, <2>2, <2>5, <1>s, <1>0 DEF Retreats
  <2>6. CASE Applies(b, result, opts)
    <3>1. ScreenInv!1' /\ ScreenInv!2' /\ ScreenInv!3' /\ ScreenInv!4' /\ ScreenInv!5' /\ ScreenInv!6'
      BY <2>2, <2>6 DEF Applies
    <3>2. ShowsTheSelection'
      BY <2>2, <2>6 DEF Applies, ShowsTheSelection, FailuresOf
    <3> QED BY <3>1, <3>2, <2>2, <2>6 DEF Applies
  <2> QED BY <1>8, <2>3, <2>4, <2>5, <2>6 DEF BatchArrives
<1>9. CASE UNCHANGED screenVars
  BY <1>9 DEF screenVars, ShowsTheSelection
<1> QED
  BY <1>1, <1>2, <1>3, <1>4, <1>5, <1>6, <1>7, <1>8, <1>9 DEF ScreenNext

THEOREM ScreenShows == ScreenSpec => []ShowsTheSelection
<1>1. ScreenInv => ShowsTheSelection
  BY DEF ScreenInv
<1>2. ScreenInv /\ [ScreenNext]_screenVars => ScreenInv'
  BY ScreenInvNext
<1> QED BY ScreenInvInit, <1>1, <1>2, PTL DEF ScreenSpec

----------------------------------------------------------------------------
\* A tab (BrowserAuth).
\* The cookie is that of the answer, or of none any more.
Names(u) == cookie \in {NULL, u}

AuthTypeOK ==
    /\ cookie \in TabUsers \cup {NULL}
    /\ auth \in {Anonymous, Loading, Broken} \cup {Authenticated(u) : u \in TabUsers}
    /\ bootstraps \subseteq [number : Nat, answer : TabUsers \cup {NULL, "failed", "unauthenticated"}]
    /\ requests \in Nat /\ current \in Nat
    /\ form \in Forms \cup {NULL}

AuthInv ==
    /\ AuthTypeOK
    /\ current <= requests
    /\ \A b \in bootstraps : b.number <= requests
    /\ \A b, c \in bootstraps : b.number = c.number => b = c
    /\ auth.status \in {"loading", "error"} => calls = {} /\ form = NULL
    /\ auth.status = "loading" => \E b \in bootstraps : b.number = current
    /\ auth.status # "loading" => \A b \in bootstraps : b.number # current
    /\ \A b \in bootstraps : b.number = current /\ b.answer \in TabUsers => Names(b.answer)
    /\ auth.status = "authenticated" => Names(auth.user)
    /\ form # NULL /\ form.kind = "login" =>
          /\ auth.status = "anonymous"
          /\ form.answer = "done" => Names(form.user)

LEMMA AuthInvInit == AuthInit => AuthInv
  BY AuthAssumption DEF AuthInit, AuthInv, AuthTypeOK, Forms, Names, Loading, Anonymous, Broken, Authenticated

LEMMA AuthInvNext == AuthInv /\ [AuthNext]_authVars => AuthInv'
<1> SUFFICES ASSUME AuthInv, [AuthNext]_authVars PROVE AuthInv'
  OBVIOUS
<1> USE AuthAssumption DEF AuthInv, AuthTypeOK, Forms, Names
<1> USE DEF Anonymous, Loading, Broken, Authenticated
<1>1. CASE SessionEnds
  BY <1>1 DEF SessionEnds
<1>m. ASSUME auth' = Loading, requests' = requests + 1, current' = requests + 1,
             bootstraps' = bootstraps \cup {[number |-> requests + 1, answer |-> NULL]},
             UNCHANGED <<cookie, form, calls>>, form = NULL, calls = {}
      PROVE  AuthInv'
  <2> DEFINE b0 == [number |-> requests + 1, answer |-> NULL]
  <2>1. b0 \in [number : Nat, answer : TabUsers \cup {NULL, "failed", "unauthenticated"}]
        /\ b0.number = requests + 1 /\ b0.answer \notin TabUsers
    OBVIOUS
  <2>2. bootstraps' = bootstraps \cup {b0}
    BY <1>m
  <2> HIDE DEF b0
  <2>3. AuthTypeOK'
    BY <1>m, <2>1, <2>2
  <2>4. \A b \in bootstraps' : b.number <= requests'
    BY <1>m, <2>1, <2>2
  <2>5. \A b, c \in bootstraps' : b.number = c.number => b = c
    BY <1>m, <2>1, <2>2
  <2>6. \A b \in bootstraps' : b.number = current' => b = b0
    BY <1>m, <2>1, <2>2
  <2> QED BY <1>m, <2>1, <2>2, <2>3, <2>4, <2>5, <2>6
<1>2. CASE RetriesBootstrap
  BY <1>2, <1>m DEF RetriesBootstrap
<1>3. CASE Remounts
  BY <1>3, <1>m DEF Remounts
<1>4. CASE FormReads
  BY <1>4 DEF FormReads, Response
<1>5. CASE ReplyIsLost
  BY <1>5 DEF ReplyIsLost
<1>6. CASE FormArrives
  BY <1>6 DEF FormArrives
<1>7. CASE ScreenCalls
  BY <1>7 DEF ScreenCalls
<1>8. ASSUME NEW kind \in {"login", "logout", "password"}, NEW u \in TabUsers, Submits(kind, u)
      PROVE  AuthInv'
  BY <1>8 DEF Submits
<1>9. ASSUME NEW b \in bootstraps, BootstrapReads(b) PROVE AuthInv'
  <2>1. PICK response \in Response :
             bootstraps' = (bootstraps \ {b}) \cup {[b EXCEPT !.answer = response]}
    BY <1>9 DEF BootstrapReads
  <2> DEFINE c == [b EXCEPT !.answer = response]
  <2>2. c.number = b.number /\ c.answer = response
        /\ c \in [number : Nat, answer : TabUsers \cup {NULL, "failed", "unauthenticated"}]
        /\ (response \in TabUsers => response = cookie)
    BY DEF Response
  <2>3. bootstraps' = (bootstraps \ {b}) \cup {c}
    BY <2>1
  <2> HIDE DEF c
  <2>4. \A x \in bootstraps' : \E y \in bootstraps : x.number = y.number
    BY <2>2, <2>3
  <2>5. \A x, y \in bootstraps' : x.number = y.number => x = y
    BY <2>2, <2>3
  <2>6. \A x \in bootstraps' : x.number = current /\ x.answer \in TabUsers => Names(x.answer)
    BY <2>2, <2>3
  <2>7. UNCHANGED <<cookie, auth, current, form, calls, requests>>
    BY <1>9 DEF BootstrapReads
  <2>8. auth.status = "loading" => \E x \in bootstraps' : x.number = current
    BY <2>2, <2>3
  <2>9. AuthTypeOK'
    BY <2>2, <2>3, <2>7
  <2> QED BY <2>4, <2>5, <2>6, <2>7, <2>8, <2>9
<1>10. ASSUME NEW b \in bootstraps, BootstrapArrives(b) PROVE AuthInv'
  BY <1>10 DEF BootstrapArrives, Counts
<1>11. ASSUME NEW k \in calls, CallArrives(k) PROVE AuthInv'
  BY <1>11 DEF CallArrives, HandleApiError
<1>12. CASE UNCHANGED authVars
  BY <1>12 DEF authVars
<1> QED
  BY <1>1, <1>2, <1>3, <1>4, <1>5, <1>6, <1>7, <1>8, <1>9, <1>10, <1>11, <1>12 DEF AuthNext

LEMMA AuthInvShows == AuthInv => ShowsTheUser
  BY DEF AuthInv, Names, ShowsTheUser

LEMMA AuthLeaves == AuthInv /\ [AuthNext]_authVars => LeavesOnlyWhenTold
<1> SUFFICES ASSUME AuthInv, [AuthNext]_authVars, auth.status = "authenticated", auth'.status = "anonymous"
             PROVE  LeavesOnlyWhenTold
  BY DEF LeavesOnlyWhenTold
<1> USE DEF Anonymous, Loading, Broken, Authenticated
<1>1. ASSUME NEW b \in bootstraps, BootstrapArrives(b) PROVE LeavesOnlyWhenTold
  BY <1>1 DEF BootstrapArrives, Counts, AuthInv
<1>2. ASSUME NEW k \in calls, CallArrives(k) PROVE LeavesOnlyWhenTold
  BY <1>2 DEF CallArrives, HandleApiError, LeavesOnlyWhenTold
<1>3. CASE FormArrives
  BY <1>3 DEF FormArrives, LeavesOnlyWhenTold
<1>4. CASE UNCHANGED auth
  BY <1>4
<1>5. CASE RetriesBootstrap \/ Remounts
  BY <1>5 DEF RetriesBootstrap, Remounts
<1> QED
  BY <1>1, <1>2, <1>3, <1>4, <1>5 DEF AuthNext, authVars, SessionEnds, FormReads, ReplyIsLost,
     ScreenCalls, Submits, BootstrapReads

----------------------------------------------------------------------------
\* The grants (UsersScreen).
GrantsLoads == [version : Nat, seen : [GrantGroups -> {NULL} \cup SUBSET ScreenUsers]]

UsersTypeOK ==
    /\ grants \in [ScreenUsers -> {NULL} \cup SUBSET GrantGroups]
    /\ version \in Nat
    /\ loads \subseteq GrantsLoads
    /\ details \in [GrantGroups -> SUBSET ScreenUsers]
    /\ dialog \in {NULL} \cup [user : ScreenUsers, ids : SUBSET GrantGroups]
    /\ work \in {NULL} \cup GrantsWork

\* The grants are not those that were loaded: the screen cannot know, or will load again.
GrantsMoved ==
    unknown \/ (work # NULL /\ work.kind # "other" /\ work.step = "granted")

Tells(seers, g) == \A u \in Created : u \in seers <=> g \in grants[u]

OneLoad ==
    /\ \A l, m \in loads : l = m
    /\ groupsShown # "loading" => loads = {}

LoadsKnow ==
    \A l \in loads, g \in GrantGroups : l.seen[g] # NULL =>
        /\ l.seen[g] \subseteq Created
        /\ ~GrantsMoved => Tells(l.seen[g], g)

DetailsKnow ==
    \A g \in GrantGroups :
        /\ details[g] \subseteq Created
        /\ groupsShown = "shown" /\ ~GrantsMoved => Tells(details[g], g)

WorkStands ==
    work # NULL =>
        /\ work.kind # "other" => groupsShown = "shown" /\ loads = {}
        /\ IF work.kind = "replace" THEN dialog # NULL /\ work.user = dialog.user ELSE dialog = NULL
        /\ work.step = "asked" => work.kind = "create" /\ work.user \notin Created
        /\ work.step = "granting" => work.kind # "other" /\ work.user \in Created

DialogStands ==
    dialog # NULL =>
        /\ groupsShown = "shown" /\ loads = {} /\ dialog.user \in Created
        /\ ~GrantsMoved => dialog.ids = grants[dialog.user]

UsersInv == UsersTypeOK /\ OneLoad /\ LoadsKnow /\ DetailsKnow /\ WorkStands /\ DialogStands

LEMMA UsersInvInit == UsersInit => UsersInv
<1> SUFFICES ASSUME UsersInit PROVE UsersInv
  OBVIOUS
<1> USE UsersAssumption DEF UsersInit
<1>0. loads \subseteq GrantsLoads
  BY DEF GrantsLoads, Unread
<1>1. UsersTypeOK
  BY <1>0 DEF UsersTypeOK
<1> QED
  BY <1>1 DEF UsersInv, OneLoad, LoadsKnow, DetailsKnow, WorkStands, DialogStands, Tells, Created, Unread

LEMMA UsersTypeNext == UsersTypeOK /\ [UsersNext]_usersVars => UsersTypeOK'
<1> SUFFICES ASSUME UsersTypeOK, [UsersNext]_usersVars PROVE UsersTypeOK'
  OBVIOUS
<1> USE DEF UsersTypeOK, GrantsLoads, GrantsWork
<1>1. ASSUME NEW l \in loads, LoadArrives(l) \/ LoadFails(l) PROVE UsersTypeOK'
  <2>1. CASE LoadArrives(l)
    <3>1. l.seen \in [GrantGroups -> SUBSET ScreenUsers]
      BY <2>1 DEF LoadArrives
    <3> QED BY <2>1, <3>1 DEF LoadArrives
  <2>2. CASE LoadFails(l)
    BY <2>2 DEF LoadFails
  <2> QED BY <1>1, <2>1, <2>2
<1>2. ASSUME NEW l \in loads, NEW g \in GrantGroups, ReadsGroup(l, g) PROVE UsersTypeOK'
  <2>1. {u \in Created : g \in grants[u]} \in SUBSET ScreenUsers
    BY DEF Created
  <2>2. [l EXCEPT !.seen[g] = {u \in Created : g \in grants[u]}] \in GrantsLoads
    BY <2>1
  <2> QED BY <1>2, <2>2 DEF ReadsGroup
<1>3. CASE ListArrives \/ ListFails \/ TurnsPage
  BY <1>3 DEF ListArrives, ListFails, TurnsPage
<1>r. ASSUME Refreshes PROVE version' \in Nat /\ loads' \subseteq GrantsLoads
  <2>1. version' \in Nat
    BY <1>r DEF Refreshes
  <2>2. [version |-> version + 1, seen |-> Unread] \in GrantsLoads
    BY DEF Unread
  <2> QED BY <1>r, <2>1, <2>2 DEF Refreshes, LoadsOf
<1>4. CASE Retries
  BY <1>4, <1>r DEF Retries
<1>5. ASSUME NEW u \in ScreenUsers, NEW ids \in SUBSET GrantGroups, OthersGrant(u, ids) PROVE UsersTypeOK'
  BY <1>5 DEF OthersGrant
<1>6. ASSUME NEW u \in ScreenUsers, NEW ids \in SUBSET GrantGroups, SubmitsCreate(u, ids) PROVE UsersTypeOK'
  BY <1>6 DEF SubmitsCreate
<1>7. ASSUME NEW u \in ScreenUsers, OpensGroupsDialog(u) PROVE UsersTypeOK'
  BY <1>7 DEF OpensGroupsDialog
<1>8. ASSUME NEW u \in ScreenUsers, SubmitsOther(u) PROVE UsersTypeOK'
  BY <1>8 DEF SubmitsOther
<1>9. ASSUME NEW ids \in SUBSET GrantGroups, ConfirmsDialog(ids) PROVE UsersTypeOK'
  BY <1>9 DEF ConfirmsDialog
<1>10. CASE ClosesDialog
  BY <1>10 DEF ClosesDialog
<1>11. CASE CreatesUser
  BY <1>11 DEF CreatesUser
<1>12. CASE ReplacesGrants
  BY <1>12 DEF ReplacesGrants
<1>13. CASE Refused
  BY <1>13 DEF Refused
<1>14. CASE Succeeds
  BY <1>14, <1>r DEF Succeeds
<1>15. CASE Fails
  BY <1>15, <1>r DEF Fails, StaysAsIs
<1>16. CASE UNCHANGED usersVars
  BY <1>16 DEF usersVars
<1> QED
  BY <1>1, <1>2, <1>3, <1>4, <1>5, <1>6, <1>7, <1>8, <1>9, <1>10, <1>11, <1>12, <1>13, <1>14,
     <1>15, <1>16 DEF UsersNext

LEMMA UsersInvNext == UsersInv /\ [UsersNext]_usersVars => UsersInv'
<1> SUFFICES ASSUME UsersInv, [UsersNext]_usersVars PROVE UsersInv'
  OBVIOUS
<1> DEFINE Stands == OneLoad /\ LoadsKnow /\ DetailsKnow /\ WorkStands /\ DialogStands
<1>t. UsersTypeOK /\ UsersTypeOK'
  BY UsersTypeNext DEF UsersInv
<1>u. Stands
  BY DEF UsersInv
<1> SUFFICES Stands'
  BY <1>t DEF UsersInv
<1> USE UsersAssumption, <1>t, <1>u DEF UsersTypeOK, GrantsLoads, GrantsWork, OneLoad, LoadsKnow, DetailsKnow,
        WorkStands, DialogStands, Tells, Created, GrantsMoved
<1>1. ASSUME NEW l \in loads, LoadArrives(l) PROVE Stands'
  BY <1>1 DEF LoadArrives
<1>1a. ASSUME NEW l \in loads, LoadFails(l) PROVE Stands'
  BY <1>1a DEF LoadFails
<1>2. ASSUME NEW l \in loads, NEW g \in GrantGroups, ReadsGroup(l, g) PROVE Stands'
  <2> DEFINE seers == {u \in Created : g \in grants[u]}
             m == [l EXCEPT !.seen[g] = seers]
  <2>1. m.seen \in [GrantGroups -> {NULL} \cup SUBSET ScreenUsers] /\ m.seen[g] = seers
        /\ \A h \in GrantGroups \ {g} : m.seen[h] = l.seen[h]
    OBVIOUS
  <2>2. loads = {l} /\ loads' = {m}
    BY <1>2 DEF ReadsGroup
  <2>3. UNCHANGED <<grants, details, groupsShown, dialog, work, unknown>>
    BY <1>2 DEF ReadsGroup
  <2> HIDE DEF m
  <2>4. OneLoad'
    BY <2>2, <2>3
  <2>5. LoadsKnow'
    BY <2>1, <2>2, <2>3
  <2>6. DetailsKnow'
    BY <2>3
  <2>7. WorkStands' /\ DialogStands'
    BY <2>2, <2>3
  <2> QED BY <2>4, <2>5, <2>6, <2>7
<1>3. CASE ListArrives \/ ListFails \/ TurnsPage
  BY <1>3 DEF ListArrives, ListFails, TurnsPage
<1>4. CASE Retries
  BY <1>4 DEF Retries, Refreshes, LoadsOf, Unread
<1>5. ASSUME NEW u \in ScreenUsers, NEW ids \in SUBSET GrantGroups, OthersGrant(u, ids) PROVE Stands'
  BY <1>5 DEF OthersGrant
<1>6. ASSUME NEW u \in ScreenUsers, NEW ids \in SUBSET GrantGroups, SubmitsCreate(u, ids) PROVE Stands'
  BY <1>6 DEF SubmitsCreate
<1>7. ASSUME NEW u \in ScreenUsers, OpensGroupsDialog(u) PROVE Stands'
  BY <1>7 DEF OpensGroupsDialog
<1>8. ASSUME NEW u \in ScreenUsers, SubmitsOther(u) PROVE Stands'
  BY <1>8 DEF SubmitsOther
<1>9. ASSUME NEW ids \in SUBSET GrantGroups, ConfirmsDialog(ids) PROVE Stands'
  BY <1>9 DEF ConfirmsDialog
<1>10. CASE ClosesDialog
  BY <1>10 DEF ClosesDialog
<1>11. CASE CreatesUser
  BY <1>11 DEF CreatesUser
<1>12. CASE ReplacesGrants
  BY <1>12 DEF ReplacesGrants
<1>13. CASE Refused
  BY <1>13 DEF Refused
<1>14. CASE Succeeds
  BY <1>14 DEF Succeeds, Refreshes, LoadsOf, Unread
<1>15. CASE Fails
  BY <1>15 DEF Fails, StaysAsIs, Refreshes, LoadsOf, Unread
<1>16. CASE UNCHANGED usersVars
  BY <1>16 DEF usersVars
<1> QED
  BY <1>1, <1>1a, <1>2, <1>3, <1>4, <1>5, <1>6, <1>7, <1>8, <1>9, <1>10, <1>11, <1>12, <1>13, <1>14,
     <1>15, <1>16 DEF UsersNext

LEMMA UsersInvShows == UsersInv => ShowsTheGrants
  BY DEF UsersInv, DetailsKnow, DialogStands, GrantsMoved, Tells, ShowsTheGrants

----------------------------------------------------------------------------
\* The groups (GroupsScreen).
GroupsTypeOK ==
    /\ held \in HeldGroups /\ list \in HeldGroups
    /\ listLoad \in {NULL} \cup [seen : HeldGroups \cup {NULL}]
    /\ manage \in {NULL} \cup GroupDialogs
    /\ target \in {NULL} \cup ListedGroups
    /\ job \in {NULL} \cup GroupJobs

SaveDone(half) == job # NULL /\ job.kind = half /\ job.step = "done"

\* What is loaded is what the server holds, and so is the list but for the answer to come.
ListStands ==
    ~old =>
        /\ listLoad # NULL /\ listLoad.seen # NULL => listLoad.seen = held
        /\ listLoad = NULL /\ (job = NULL \/ job.step # "done") => list = held
        /\ job # NULL /\ job.step = "done" /\ job.kind # "create" =>
              listLoad = NULL /\ list[job.group] # NULL /\ held = [list EXCEPT ![job.group] = job.answer]

JobStands ==
    job # NULL =>
        /\ job.kind # "archive" => job.content \in Contents
        /\ job.kind \in GroupParts =>
              /\ manage # NULL /\ manage.group = job.group /\ manage.step = "open"
              /\ job.step = "done" => held[job.group][job.kind] = job.content \/ old

\* A dialog whose save came back after another administrator's change has what was saved.
ManageStands ==
    manage # NULL =>
        /\ manage.step = "asked" => manage.old = {}
        /\ manage.step # "asked" => manage.detail \in GroupDetails
        /\ manage.step # "asked" => \A half \in GroupParts \ manage.old :
              \/ SaveDone(half)
              \/ manage.detail[half] = held[manage.group][half]
              \/ old /\ manage.step = "open" /\ (job = NULL \/ job.kind # "create")

GroupsInv == GroupsTypeOK /\ ListStands /\ JobStands /\ ManageStands

LEMMA GroupsInvInit == GroupsInit => GroupsInv
<1> SUFFICES ASSUME GroupsInit PROVE GroupsInv
  OBVIOUS
<1>1. [half \in GroupParts |-> NoChannels] \in GroupDetails
  BY GroupsAssumption DEF GroupDetails
<1>2. held \in HeldGroups /\ NoGroup \in HeldGroups
  BY <1>1 DEF GroupsInit, HeldGroups, NoGroup
<1>3. listLoad # NULL /\ listLoad.seen = NULL
  BY GroupsAssumption DEF GroupsInit
<1> QED
  BY <1>2, <1>3
  DEF GroupsInit, GroupsInv, GroupsTypeOK, ListStands, JobStands, ManageStands

LEMMA EffectIs ==
    ASSUME GroupsTypeOK, JobStands, job # NULL, job.kind = "create" \/ held[job.group] # NULL
    PROVE  Effect(job) \in GroupDetails \cup {NULL}
<1>0. job \in GroupJobs
  BY DEF GroupsTypeOK
<1>1. CASE job.kind = "create"
  <2>1. Effect(job) = [metadata |-> job.content, channels |-> NoChannels]
    BY <1>1 DEF Effect
  <2>2. job.content \in Contents /\ NoChannels \in Contents
    BY <1>1, GroupsAssumption DEF JobStands
  <2> QED BY <2>1, <2>2 DEF GroupDetails, GroupParts
<1>2. CASE job.kind \in GroupParts
  <2>1. job.kind # "create" /\ job.kind # "archive"
    BY <1>2 DEF GroupParts
  <2>2. Effect(job) = [held[job.group] EXCEPT ![job.kind] = job.content]
    BY <2>1 DEF Effect
  <2>3. job.content \in Contents
    BY <2>1 DEF JobStands
  <2>4. held[job.group] \in GroupDetails
    BY <1>0, <2>1 DEF GroupsTypeOK, HeldGroups, GroupJobs
  <2> QED BY <1>2, <2>2, <2>3, <2>4 DEF GroupDetails
<1>3. CASE job.kind = "archive"
  BY <1>3 DEF Effect
<1> QED BY <1>0, <1>1, <1>2, <1>3 DEF GroupJobs

LEMMA GroupsTypeNext == GroupsTypeOK /\ JobStands /\ ManageStands /\ [GroupsNext]_groupsVars => GroupsTypeOK'
<1> SUFFICES ASSUME GroupsTypeOK, JobStands, ManageStands, [GroupsNext]_groupsVars PROVE GroupsTypeOK'
  OBVIOUS
<1> USE GroupsAssumption DEF GroupsTypeOK
<1>o. ASSUME NEW g, NEW parts \in SUBSET GroupParts PROVE Outdated(g, parts) \in {NULL} \cup GroupDialogs
  BY DEF Outdated, GroupDialogs
<1>b. ASSUME NEW g \in ListedGroups, NEW d \in GroupDetails \cup {NULL}, Becomes(g, d) PROVE held' \in HeldGroups
  BY <1>b DEF Becomes, HeldGroups
<1>d. ASSUME NEW d \in GroupDetails, NEW half \in GroupParts, NEW c \in Contents
      PROVE  [d EXCEPT ![half] = c] \in GroupDetails
  BY DEF GroupDetails
<1>h. \A g \in ListedGroups : held[g] # NULL => held[g] \in GroupDetails
  BY DEF HeldGroups
<1>p. ASSUME NEW g \in ListedGroups, NEW c \in Contents \cup {NULL},
             NEW k \in GroupParts \cup {"create", "archive"}, Pending(k, g, c)
      PROVE  GroupsTypeOK'
  BY <1>p DEF Pending, GroupJobs
<1>1. CASE GroupsRead
  BY <1>1 DEF GroupsRead
<1>2. CASE GroupsArriveInList
  BY <1>2 DEF GroupsArriveInList
<1>3. CASE GroupsFail
  BY <1>3 DEF GroupsFail
<1>4. CASE RetriesGroups
  BY <1>4 DEF RetriesGroups, LoadsGroups
<1>5. ASSUME NEW g \in ListedGroups, OpensManage(g) PROVE GroupsTypeOK'
  BY <1>5 DEF OpensManage, GroupDialogs
<1>6. ASSUME NEW g \in ListedGroups, PicksArchive(g) PROVE GroupsTypeOK'
  BY <1>6 DEF PicksArchive
<1>7. ASSUME NEW g \in ListedGroups, NEW half \in GroupParts, NEW c \in Contents, OthersSave(g, half, c)
      PROVE  GroupsTypeOK'
  <2>1. [held[g] EXCEPT ![half] = c] \in GroupDetails
    BY <1>7, <1>d, <1>h DEF OthersSave
  <2>2. held' \in HeldGroups
    BY <1>7, <1>b, <2>1 DEF OthersSave
  <2> QED BY <1>7, <1>o, <2>2 DEF OthersSave
<1>20. ASSUME NEW g \in ListedGroups, OthersArchive(g) PROVE GroupsTypeOK'
  BY <1>20, <1>o, <1>b DEF OthersArchive
<1>8. ASSUME NEW g \in ListedGroups, NEW c \in Contents, SubmitsGroup(g, c) PROVE GroupsTypeOK'
  BY <1>8, <1>p DEF SubmitsGroup
<1>9. ASSUME NEW half \in GroupParts, NEW c \in Contents, SavesGroup(half, c) PROVE GroupsTypeOK'
  BY <1>9, <1>p DEF SavesGroup, GroupDialogs
<1>10. CASE ManageReads
  <2>1. manage # NULL /\ held[manage.group] \in GroupDetails \cup {NULL}
    BY <1>10 DEF ManageReads, GroupDialogs, HeldGroups
  <2> QED BY <1>10, <2>1 DEF ManageReads, GroupDialogs
<1>11. CASE ManageArrives
  BY <1>11 DEF ManageArrives, GroupDialogs
<1>12. CASE ClosesManage
  BY <1>12 DEF ClosesManage
<1>13. CASE CancelsArchive
  BY <1>13 DEF CancelsArchive
<1>14. CASE ConfirmsArchive
  BY <1>14, <1>p DEF ConfirmsArchive
<1>15. CASE ServerDoes
  <2>1. /\ job # NULL /\ job \in GroupJobs /\ job.group \in ListedGroups
        /\ job.kind = "create" \/ held[job.group] # NULL
    BY <1>15 DEF ServerDoes, GroupJobs
  <2>2. Effect(job) \in GroupDetails \cup {NULL}
    BY <2>1, EffectIs
  <2>3. held' \in HeldGroups
    BY <1>15, <1>b, <2>1, <2>2 DEF ServerDoes
  <2>4. job' \in GroupJobs
    BY <1>15, <2>1, <2>2 DEF ServerDoes, GroupJobs
  <2>5. manage' \in {NULL} \cup GroupDialogs
    <3>1. PartsChanged(job.kind) \in SUBSET GroupParts
      BY DEF PartsChanged
    <3> QED BY <1>15, <1>o, <3>1 DEF ServerDoes
  <2> QED BY <1>15, <2>3, <2>4, <2>5 DEF ServerDoes
<1>16. CASE ServerRefuses
  BY <1>16 DEF ServerRefuses, GroupJobs
<1>17. CASE JobSucceeds
  <2>1. list' \in HeldGroups
    BY <1>17 DEF JobSucceeds, Listed, GroupJobs, HeldGroups
  <2>2. manage' \in {NULL} \cup GroupDialogs
    <3>1. CASE job.kind \in GroupParts
      <4>1. /\ manage # NULL /\ manage \in GroupDialogs /\ manage.detail \in GroupDetails
            /\ job.content \in Contents
            /\ manage' = [manage EXCEPT !.detail[job.kind] = job.content, !.old = @ \ {job.kind}]
        BY <1>17, <3>1 DEF JobSucceeds, JobStands, ManageStands, GroupParts
      <4>2. [manage.detail EXCEPT ![job.kind] = job.content] \in GroupDetails
        BY <1>d, <3>1, <4>1
      <4> QED BY <4>1, <4>2 DEF GroupDialogs
    <3>2. CASE job.kind \notin GroupParts
      BY <1>17, <3>2 DEF JobSucceeds
    <3> QED BY <3>1, <3>2
  <2> QED BY <1>17, <2>1, <2>2 DEF JobSucceeds, LoadsGroups
<1>18. CASE JobFails
  BY <1>18 DEF JobFails
<1>19. CASE UNCHANGED groupsVars
  BY <1>19 DEF groupsVars
<1> QED
  BY <1>1, <1>2, <1>3, <1>4, <1>5, <1>6, <1>7, <1>8, <1>9, <1>10, <1>11, <1>12, <1>13, <1>14,
     <1>15, <1>16, <1>17, <1>18, <1>19, <1>20 DEF GroupsNext

LEMMA GroupsInvNext == GroupsInv /\ [GroupsNext]_groupsVars => GroupsInv'
<1> SUFFICES ASSUME GroupsInv, [GroupsNext]_groupsVars PROVE GroupsInv'
  OBVIOUS
<1> DEFINE Stands == ListStands /\ JobStands /\ ManageStands
<1>t. GroupsTypeOK /\ GroupsTypeOK'
  BY GroupsTypeNext DEF GroupsInv
<1>u. Stands
  BY DEF GroupsInv
<1> SUFFICES Stands'
  BY <1>t DEF GroupsInv
<1> USE GroupsAssumption, <1>t, <1>u DEF GroupsTypeOK, ListStands, JobStands, ManageStands, SaveDone
<1>h. /\ \A g \in ListedGroups : held[g] # NULL => held[g] \in GroupDetails
      /\ manage # NULL => manage \in GroupDialogs /\ manage.group \in ListedGroups /\ manage.old \subseteq GroupParts
      /\ job # NULL => job \in GroupJobs /\ job.group \in ListedGroups
      /\ DOMAIN held = ListedGroups
  BY DEF HeldGroups, GroupDialogs, GroupJobs
<1>k. "create" \notin GroupParts /\ "archive" \notin GroupParts
  BY DEF GroupParts
<1>o. ASSUME NEW g, NEW parts \in SUBSET GroupParts
      PROVE  LET m == Outdated(g, parts)
             IN  /\ m = NULL <=> manage = NULL
                 /\ m # NULL => /\ m.group = manage.group /\ m.step = manage.step /\ m.detail = manage.detail
                                /\ m.old = IF manage.group = g /\ manage.step # "asked"
                                           THEN manage.old \cup parts ELSE manage.old
  BY <1>h DEF Outdated, GroupDialogs
<1>p. ASSUME NEW g \in ListedGroups, NEW c \in Contents \cup {NULL},
             NEW k \in GroupParts \cup {"create", "archive"},
             Pending(k, g, c), k = "create" => ~Modal, k # "archive" => c \in Contents,
             k \in GroupParts => manage # NULL /\ manage.group = g /\ manage.step = "open"
      PROVE  Stands'
  BY <1>p, <1>k DEF Pending, Modal
<1>1. CASE GroupsRead
  BY <1>1 DEF GroupsRead
<1>2. CASE GroupsArriveInList
  BY <1>2 DEF GroupsArriveInList
<1>3. CASE GroupsFail
  BY <1>3 DEF GroupsFail
<1>4. CASE RetriesGroups
  BY <1>4 DEF RetriesGroups, LoadsGroups, Modal
<1>5. ASSUME NEW g \in ListedGroups, OpensManage(g) PROVE Stands'
  BY <1>5 DEF OpensManage
<1>6. ASSUME NEW g \in ListedGroups, PicksArchive(g) PROVE Stands'
  BY <1>6 DEF PicksArchive
<1>7. ASSUME NEW g \in ListedGroups, NEW half \in GroupParts, NEW c \in Contents, OthersSave(g, half, c)
      PROVE  Stands'
  <2>1. /\ held' = [held EXCEPT ![g] = [held[g] EXCEPT ![half] = c]] /\ old' /\ job' = job /\ held[g] # NULL
        /\ manage' = Outdated(g, {half})
    BY <1>7 DEF OthersSave, Becomes
  <2>2. /\ \A h \in ListedGroups : h # g => held'[h] = held[h]
        /\ \A q \in GroupParts : q # half => held'[g][q] = held[g][q]
    BY <1>h, <2>1 DEF GroupDetails
  <2>0. {half} \in SUBSET GroupParts
    OBVIOUS
  <2>5. /\ manage' = NULL <=> manage = NULL
        /\ manage' # NULL =>
             /\ manage'.group = manage.group /\ manage'.step = manage.step /\ manage'.detail = manage.detail
             /\ manage'.old = IF manage.group = g /\ manage.step # "asked"
                              THEN manage.old \cup {half} ELSE manage.old
    <3>1. LET m == Outdated(g, {half})
          IN  /\ m = NULL <=> manage = NULL
              /\ m # NULL => /\ m.group = manage.group /\ m.step = manage.step /\ m.detail = manage.detail
                             /\ m.old = IF manage.group = g /\ manage.step # "asked"
                                        THEN manage.old \cup {half} ELSE manage.old
      BY <1>o, <2>0
    <3> QED BY <2>1, <3>1
  <2>3. JobStands'
    BY <2>1, <2>5
  <2>4. ManageStands'
    <3> SUFFICES ASSUME manage' # NULL
                 PROVE  /\ manage'.step = "asked" => manage'.old = {}
                        /\ manage'.step # "asked" => manage'.detail \in GroupDetails
                        /\ manage'.step # "asked" => \A q \in GroupParts \ manage'.old :
                              \/ SaveDone(q)'
                              \/ manage'.detail[q] = held'[manage'.group][q]
                              \/ old' /\ manage'.step = "open" /\ (job' = NULL \/ job'.kind # "create")
      OBVIOUS
    <3>1. /\ manage # NULL /\ manage'.group = manage.group /\ manage'.step = manage.step
          /\ manage'.detail = manage.detail
          /\ manage'.old = IF manage.group = g /\ manage.step # "asked"
                           THEN manage.old \cup {half} ELSE manage.old
      BY <2>5
    <3>2. ASSUME manage.step # "asked", NEW q \in GroupParts \ manage'.old
          PROVE  \/ SaveDone(q)'
                 \/ manage'.detail[q] = held'[manage'.group][q]
                 \/ old' /\ manage'.step = "open" /\ (job' = NULL \/ job'.kind # "create")
      <4>1. q \in GroupParts \ manage.old /\ (manage.group = g => q # half)
        BY <3>1, <3>2
      <4>2. held'[manage.group][q] = held[manage.group][q]
        BY <1>h, <2>2, <3>1, <4>1
      <4> QED BY <2>1, <3>1, <3>2, <4>1, <4>2
    <3> QED BY <3>1, <3>2
  <2> QED BY <2>1, <2>3, <2>4
<1>20. ASSUME NEW g \in ListedGroups, OthersArchive(g) PROVE Stands'
  <2>1. held' = [held EXCEPT ![g] = NULL] /\ old' /\ job' = job /\ manage' = Outdated(g, GroupParts)
    BY <1>20 DEF OthersArchive, Becomes
  <2>2. \A h \in ListedGroups : h # g => held'[h] = held[h]
    BY <2>1 DEF HeldGroups
  <2>0. LET m == Outdated(g, GroupParts)
        IN  /\ m = NULL <=> manage = NULL
            /\ m # NULL => /\ m.group = manage.group /\ m.step = manage.step /\ m.detail = manage.detail
                           /\ m.old = IF manage.group = g /\ manage.step # "asked"
                                      THEN manage.old \cup GroupParts ELSE manage.old
    <3>1. GroupParts \in SUBSET GroupParts
      OBVIOUS
    <3> QED BY <1>o, <3>1
  <2>3. manage' # NULL =>
          /\ manage # NULL /\ manage'.group = manage.group /\ manage'.step = manage.step
          /\ manage'.detail = manage.detail
          /\ manage'.old = IF manage.group = g /\ manage.step # "asked"
                           THEN manage.old \cup GroupParts ELSE manage.old
    BY <2>0, <2>1
  <2>4. manage # NULL => manage' # NULL
    BY <2>0, <2>1
  <2>5. ManageStands'
    BY <1>h, <2>1, <2>2, <2>3
  <2> QED BY <2>1, <2>3, <2>4, <2>5
<1>8. ASSUME NEW g \in ListedGroups, NEW c \in Contents, SubmitsGroup(g, c) PROVE Stands'
  BY <1>8, <1>p, <1>k DEF SubmitsGroup
<1>9. ASSUME NEW half \in GroupParts, NEW c \in Contents, SavesGroup(half, c) PROVE Stands'
  BY <1>9, <1>p, <1>k, <1>h DEF SavesGroup
<1>10. CASE ManageReads
  BY <1>10, <1>h DEF ManageReads, GroupDialogs
<1>11. CASE ManageArrives
  BY <1>11, <1>h DEF ManageArrives, GroupDialogs
<1>12. CASE ClosesManage
  BY <1>12 DEF ClosesManage
<1>13. CASE CancelsArchive
  BY <1>13 DEF CancelsArchive
<1>14. CASE ConfirmsArchive
  BY <1>14, <1>p, <1>k DEF ConfirmsArchive
<1>15. CASE ServerDoes
  <2>1. /\ held' = [held EXCEPT ![job.group] = Effect(job)]
        /\ job # NULL /\ job' # NULL /\ job.step = "asked"
        /\ job'.kind = job.kind /\ job'.group = job.group /\ job'.content = job.content
        /\ job'.step \in {"done", "failed"} /\ (job'.step = "done" => job'.answer = Effect(job))
        /\ UNCHANGED <<list, listLoad>>
        /\ (job.kind # "create" => held[job.group] # NULL)
    <3>1. job \in GroupJobs
      BY <1>15, <1>h DEF ServerDoes
    <3>4. /\ held' = [held EXCEPT ![job.group] = Effect(job)]
          /\ job # NULL /\ job.step = "asked" /\ UNCHANGED <<list, listLoad>>
          /\ job.kind # "create" => held[job.group] # NULL
      BY <1>15 DEF ServerDoes, Becomes
    <3>5. ASSUME NEW e PROVE
             LET j == [job EXCEPT !.step = "done", !.answer = e]
             IN  /\ j.kind = job.kind /\ j.group = job.group /\ j.content = job.content
                 /\ j.step = "done" /\ j.answer = e
      BY <3>1 DEF GroupJobs
    <3>6. Effect(job) \in GroupDetails \cup {NULL}
      BY <3>4, EffectIs
    <3>7. [job EXCEPT !.step = "done", !.answer = Effect(job)] \in GroupJobs
      BY <3>1, <3>6 DEF GroupJobs
    <3>2. CASE job' = [job EXCEPT !.step = "done", !.answer = Effect(job)]
      BY <3>2, <3>4, <3>5, <3>7
    <3>3. CASE job' = [job EXCEPT !.step = "failed"]
      BY <1>15, <3>1, <3>3 DEF ServerDoes, Becomes, GroupJobs
    <3> QED BY <1>15, <3>2, <3>3 DEF ServerDoes
  <2>0. (job'.step = "failed" => old') /\ (~old' => ~old /\ listLoad = NULL)
    <3>0. job \in GroupJobs
      BY <1>15, <1>h DEF ServerDoes
    <3>1. CASE job' = [job EXCEPT !.step = "done", !.answer = Effect(job)] /\ old' = (old \/ listLoad # NULL)
      BY <2>1, <3>0, <3>1 DEF GroupJobs
    <3>2. CASE job' = [job EXCEPT !.step = "failed"] /\ old' = TRUE
      BY <3>2
    <3> QED BY <1>15, <3>1, <3>2 DEF ServerDoes
  <2>2. ListStands'
    BY <2>0, <2>1
  <2>3. /\ \A h \in ListedGroups : h # job.group => held'[h] = held[h]
        /\ held'[job.group] = Effect(job) /\ job.group \in ListedGroups
    BY <1>h, <2>1
  <2>4. ASSUME job.kind \in GroupParts
        PROVE  /\ job.content \in Contents /\ held'[job.group][job.kind] = job.content
               /\ \A q \in GroupParts : q # job.kind => held'[job.group][q] = held[job.group][q]
    <3>1. Effect(job) = [held[job.group] EXCEPT ![job.kind] = job.content]
      BY <1>k, <2>4 DEF Effect
    <3>2. held[job.group] \in GroupDetails /\ job.content \in Contents
      BY <1>h, <1>k, <2>1, <2>4
    <3> QED BY <2>3, <2>4, <3>1, <3>2 DEF GroupDetails
  <2>5. CASE job.kind \in GroupParts /\ job'.step = "done"
    <3>1. manage' = manage
      BY <1>15, <2>5 DEF ServerDoes
    <3>2. JobStands'
      BY <1>k, <2>1, <2>4, <2>5, <3>1
    <3>3. ManageStands'
      <4>1. manage # NULL /\ manage.group = job.group /\ manage.step = "open"
        BY <2>1, <2>5
      <4>2. ASSUME NEW q \in GroupParts \ manage.old PROVE
                \/ SaveDone(q)'
                \/ manage.detail[q] = held'[manage.group][q]
                \/ old' /\ manage.step = "open" /\ job'.kind # "create"
        <5>1. CASE q = job.kind
          BY <2>1, <2>5, <5>1
        <5>2. CASE q # job.kind
          <6>1. held'[manage.group][q] = held[manage.group][q]
            BY <2>4, <2>5, <4>1, <5>2
          <6>2. ~SaveDone(q)
            BY <2>1
          <6>3. old => old'
            BY <2>0
          <6> QED BY <1>k, <2>1, <2>5, <4>1, <6>1, <6>2, <6>3
        <5> QED BY <5>1, <5>2
      <4> QED BY <3>1, <4>1, <4>2
    <3> QED BY <2>2, <3>2, <3>3
  <2>6. CASE ~(job.kind \in GroupParts /\ job'.step = "done")
    <3>1. manage' = Outdated(job.group, PartsChanged(job.kind)) /\ PartsChanged(job.kind) \in SUBSET GroupParts
      BY <1>15, <2>6 DEF ServerDoes, PartsChanged
    <3>2. /\ manage' = NULL <=> manage = NULL
          /\ manage' # NULL =>
               /\ manage'.group = manage.group /\ manage'.step = manage.step /\ manage'.detail = manage.detail
               /\ manage'.old = IF manage.group = job.group /\ manage.step # "asked"
                                THEN manage.old \cup PartsChanged(job.kind) ELSE manage.old
      BY <1>o, <3>1
    <3>3. JobStands'
      BY <2>1, <2>6, <3>2
    <3>4. ASSUME manage' # NULL, manage.step # "asked", NEW q \in GroupParts \ manage'.old
          PROVE  \/ SaveDone(q)'
                 \/ manage'.detail[q] = held'[manage'.group][q]
                 \/ old' /\ manage'.step = "open" /\ job'.kind # "create"
      <4>1. q \in GroupParts \ manage.old /\ (manage.group = job.group => q \notin PartsChanged(job.kind))
        BY <3>2, <3>4
      <4>2. held'[manage.group][q] = held[manage.group][q]
        <5>1. CASE manage.group # job.group
          BY <1>h, <2>3, <3>2, <3>4, <5>1
        <5>2. CASE manage.group = job.group
          <6>1. job.kind \in GroupParts /\ q # job.kind
            BY <4>1, <5>2 DEF PartsChanged
          <6> QED BY <2>4, <5>2, <6>1
        <5> QED BY <5>1, <5>2
      <4>3. ~SaveDone(q) /\ (old => old')
        BY <2>0, <2>1
      <4> QED BY <2>1, <3>2, <3>4, <4>1, <4>2, <4>3
    <3>5. ManageStands'
      <4>1. manage' # NULL /\ manage.step = "asked" => manage'.old = {}
        BY <3>2
      <4> QED BY <3>2, <3>4, <4>1
    <3> QED BY <2>2, <3>3, <3>5
  <2> QED BY <2>5, <2>6
<1>16. CASE ServerRefuses
  <2>1. /\ job # NULL /\ job' # NULL /\ job.step = "asked" /\ job'.step = "failed"
        /\ job'.kind = job.kind /\ job'.group = job.group /\ job'.content = job.content
    BY <1>16, <1>h DEF ServerRefuses, GroupJobs
  <2> QED BY <1>16, <2>1 DEF ServerRefuses
<1>17. CASE JobSucceeds
  <2>1. CASE job.kind = "create"
    BY <1>17, <1>k, <2>1 DEF JobSucceeds, LoadsGroups, Listed
  <2>2. CASE job.kind = "archive"
    BY <1>17, <1>k, <2>2 DEF JobSucceeds, Listed
  <2>3. CASE job.kind \in GroupParts
    <3>1. /\ job # NULL /\ job.step = "done" /\ job' = NULL /\ manage # NULL /\ manage.group = job.group
          /\ manage.step = "open" /\ manage \in GroupDialogs /\ manage.detail \in GroupDetails
          /\ manage' = [manage EXCEPT !.detail[job.kind] = job.content, !.old = @ \ {job.kind}]
          /\ held' = held /\ old' = old /\ listLoad' = listLoad /\ list' = Listed(job)
          /\ job.kind # "create" /\ job.kind # "archive" /\ job.content \in Contents
      BY <1>17, <1>h, <1>k, <2>3 DEF JobSucceeds
    <3>2. /\ manage' # NULL /\ manage'.group = manage.group /\ manage'.step = "open"
          /\ manage'.old = manage.old \ {job.kind}
          /\ manage'.detail = [manage.detail EXCEPT ![job.kind] = job.content]
      <4>1. [manage.detail EXCEPT ![job.kind] = job.content] \in GroupDetails
        BY <3>1, <2>3 DEF GroupDetails
      <4>2. manage' \in GroupDialogs
        BY <3>1, <4>1 DEF GroupDialogs
      <4>3. /\ manage'.group = manage.group /\ manage'.step = "open"
            /\ manage'.old = manage.old \ {job.kind}
            /\ manage'.detail = [manage.detail EXCEPT ![job.kind] = job.content]
        <5> HIDE GroupsAssumption, <1>t, <1>u
        <5> QED BY <3>1 DEF GroupDialogs
      <4> QED BY <4>2, <4>3
    <3>3. /\ manage'.detail[job.kind] = job.content
          /\ \A q \in GroupParts : q # job.kind => manage'.detail[q] = manage.detail[q]
          /\ manage'.detail \in GroupDetails
      BY <2>3, <3>1, <3>2 DEF GroupDetails
    <3>4. ListStands' /\ JobStands'
      BY <3>1 DEF Listed
    <3>5. ManageStands'
      <4>1. ASSUME NEW q \in GroupParts \ manage'.old
            PROVE  manage'.detail[q] = held[manage.group][q] \/ old
        <5>1. CASE q = job.kind
          BY <2>3, <3>1, <3>3, <5>1
        <5>2. CASE q # job.kind
          <6>1. q \in GroupParts \ manage.old /\ ~SaveDone(q)
            BY <3>1, <3>2, <5>2
          <6> QED BY <3>1, <3>3, <5>2, <6>1
        <5> QED BY <5>1, <5>2
      <4> QED BY <3>1, <3>2, <3>3, <4>1
    <3> QED BY <3>4, <3>5
  <2> QED BY <1>17, <1>h, <2>1, <2>2, <2>3 DEF JobSucceeds, GroupJobs
<1>18. CASE JobFails
  BY <1>18 DEF JobFails
<1>19. CASE UNCHANGED groupsVars
  BY <1>19 DEF groupsVars
<1> QED
  BY <1>1, <1>2, <1>3, <1>4, <1>5, <1>6, <1>7, <1>8, <1>9, <1>10, <1>11, <1>12, <1>13, <1>14,
     <1>15, <1>16, <1>17, <1>18, <1>19, <1>20 DEF GroupsNext

LEMMA GroupsInvShows == GroupsInv => ShowsTheGroups
  BY DEF GroupsInv, ListStands, ManageStands, SaveDone, ShowsTheGroups

----------------------------------------------------------------------------
\* The monetization settings (Monetization, ChannelsScreen).
SettingTables == [PaidChannels -> [Days -> MoneySettings \cup {NULL}]]

\* The settings that have taken effect by a day.
Past(s, c, d) == {e \in Days : e <= d /\ s[c][e] # NULL}

LEMMA LatestDay ==
    ASSUME NEW S \in SUBSET Days, S # {}
    PROVE  Max(S) \in S /\ \A y \in S : y <= Max(S)
<1>1. IsFiniteSet(Days) /\ Days \subseteq Int
  BY MoneyAssumption, FS_Interval DEF Days
<1>2. IsFiniteSet(S) /\ S \subseteq Int
  BY <1>1, FS_Subset
<1>3. \E x \in S : \A y \in S : x >= y
  BY <1>2, GreatestMember
<1> QED BY <1>2, <1>3 DEF Max

LEMMA LatestDayIs ==
    ASSUME NEW S \in SUBSET Days, NEW m \in S, \A y \in S : y <= m
    PROVE  Max(S) = m
<1>1. Max(S) \in S /\ m <= Max(S) /\ Max(S) <= m
  BY LatestDay
<1>2. m \in Int /\ Max(S) \in Int
  <2>1. Days \subseteq Int
    BY MoneyAssumption DEF Days
  <2>2. m \in Days /\ Max(S) \in Days
    BY <1>1
  <2> QED BY <2>1, <2>2, Zenon
<1> QED BY <1>1, <1>2

LEMMA EffectiveIs ==
    ASSUME NEW s \in SettingTables, NEW c \in PaidChannels, NEW d
    PROVE  EffectiveSetting([setting |-> s], c, d) = IF Past(s, c, d) = {} THEN NULL ELSE s[c][Max(Past(s, c, d))]
  BY DEF EffectiveSetting, Past, SettingTables

LEMMA EffectiveType ==
    ASSUME NEW s \in SettingTables, NEW c \in PaidChannels, NEW d
    PROVE  EffectiveSetting([setting |-> s], c, d) \in MoneySettings \cup {NULL}
<1>1. CASE Past(s, c, d) = {}
  BY <1>1, EffectiveIs
<1>2. CASE Past(s, c, d) # {}
  <2>1. Max(Past(s, c, d)) \in Days
    BY <1>2, LatestDay DEF Past
  <2> QED BY <1>2, <2>1, EffectiveIs DEF SettingTables
<1> QED BY <1>1, <1>2

\* The setting in force on a day depends on nothing after it.
LEMMA EffectiveSame ==
    ASSUME NEW s \in SettingTables, NEW t \in SettingTables, NEW c \in PaidChannels, NEW d, NEW e,
           Past(s, c, d) = Past(t, c, e), \A x \in Past(s, c, d) : s[c][x] = t[c][x]
    PROVE  EffectiveSetting([setting |-> s], c, d) = EffectiveSetting([setting |-> t], c, e)
<1>1. CASE Past(s, c, d) = {}
  BY <1>1, EffectiveIs
<1>2. CASE Past(s, c, d) # {}
  <2>1. Max(Past(s, c, d)) \in Past(s, c, d)
    BY <1>2, LatestDay DEF Past
  <2> QED BY <1>2, <2>1, EffectiveIs
<1> QED BY <1>1, <1>2

----------------------------------------------------------------------------
MoneyTypeOK ==
    /\ day \in Days
    /\ setting \in SettingTables
    /\ update \in MoneyUpdates \cup {NULL}

\* No setting takes effect after today, and none was written after the day an update was
\* asked; what an update answers is in force.
MoneyInv ==
    /\ MoneyTypeOK
    /\ \A c \in PaidChannels, e \in Days : setting[c][e] # NULL =>
          e <= day /\ (update # NULL => e <= update.today)
    /\ update # NULL =>
          /\ update.from <= update.today /\ update.today <= day
          /\ update.answer # NULL =>
                update.answer = EffectiveSetting([setting |-> setting], update.channel, update.today)

LEMMA MoneyInvInit == MoneyInit => MoneyInv
  BY MoneyAssumption DEF MoneyInit, MoneyInv, MoneyTypeOK, SettingTables, Days

LEMMA CommitsFacts ==
    ASSUME MoneyInv, CommitsUpdate
    PROVE  /\ setting' \in SettingTables
           /\ setting'[update.channel][update.from] = update.value
           /\ \A c \in PaidChannels, e \in Days :
                 c # update.channel \/ e # update.from => setting'[c][e] = setting[c][e]
           /\ update' = [update EXCEPT !.answer =
                 EffectiveSetting([setting |-> setting'], update.channel, update.today)]
           /\ update' \in MoneyUpdates
<1> USE MoneyAssumption DEF MoneyInv, MoneyTypeOK
<1> DEFINE c == update.channel
<1>1. update \in MoneyUpdates /\ c \in PaidChannels /\ update.from \in Days /\ update.today \in Days
      /\ update.value \in MoneySettings /\ update.from <= update.today
  BY DEF CommitsUpdate, MoneyUpdates
<1>2. setting' = [setting EXCEPT ![c] = [setting[c] EXCEPT ![update.from] = update.value]]
  BY DEF CommitsUpdate, Upserted
<1>3. setting' \in SettingTables
  BY <1>1, <1>2 DEF SettingTables
<1>4. /\ setting'[c][update.from] = update.value
      /\ \A x \in PaidChannels, e \in Days :
                 x # c \/ e # update.from => setting'[x][e] = setting[x][e]
  BY <1>1, <1>2 DEF SettingTables
<1>5. ASSUME ~(update.from < update.today)
      PROVE  EffectiveSetting([setting |-> setting'], c, update.today) = update.value
  <2>1. update.from = update.today /\ update.from \in Int
    BY <1>1, <1>5 DEF Days
  <2>2. update.from \in Past(setting', c, update.today)
    BY <1>1, <1>4, <2>1 DEF Past, Days
  <2>3. Max(Past(setting', c, update.today)) = update.from
    BY <2>1, <2>2, LatestDayIs DEF Past
  <2> QED BY <1>1, <1>3, <1>4, <2>2, <2>3, EffectiveIs
<1>6. update' = [update EXCEPT !.answer =
                 EffectiveSetting([setting |-> setting'], update.channel, update.today)]
  BY <1>5 DEF CommitsUpdate
<1>7. update' \in MoneyUpdates
  BY <1>1, <1>3, <1>6, EffectiveType DEF MoneyUpdates
<1> QED BY <1>3, <1>4, <1>6, <1>7

\* An update answers a setting: that of its own date has taken effect by its day.
LEMMA CommitsAnswers == ASSUME MoneyInv, CommitsUpdate PROVE update'.answer # NULL
<1> USE MoneyAssumption DEF MoneyInv, MoneyTypeOK
<1> DEFINE c == update.channel
           P == Past(setting', c, update.today)
<1>1. update \in MoneyUpdates /\ c \in PaidChannels /\ update.from \in Days /\ update.value # NULL
      /\ update.from <= update.today
  BY DEF CommitsUpdate, MoneyUpdates
<1>2. update.from \in P
  BY <1>1, CommitsFacts DEF Past
<1>3. Max(P) \in P
  BY <1>2, LatestDay DEF Past
<1>4. setting'[c][Max(P)] # NULL
  BY <1>3 DEF Past
<1>5. EffectiveSetting([setting |-> setting'], c, update.today) = setting'[c][Max(P)]
  BY <1>1, <1>2, CommitsFacts, EffectiveIs
<1> QED BY <1>1, <1>4, <1>5, CommitsFacts DEF MoneyUpdates

LEMMA MoneyInvNext ==
    ASSUME MoneyInv,
           \/ MidnightPasses \/ CommitsUpdate \/ EndsUpdate \/ UNCHANGED moneyVars
           \/ \E c \in PaidChannels :
                ClosesChannel(c) \/ \E e \in Days, rpm \in Rpms \cup {NULL} : AsksUpdate(c, e, rpm)
    PROVE  MoneyInv'
<1> USE MoneyAssumption DEF MoneyInv, MoneyTypeOK
<1>1. CASE MidnightPasses
  BY <1>1 DEF MidnightPasses, Days, MoneyUpdates, SettingTables
<1>2. CASE CommitsUpdate
  <2>1. day' = day
    BY <1>2 DEF CommitsUpdate
  <2>2. update # NULL /\ update' # NULL /\ update'.from = update.from /\ update'.today = update.today
        /\ update'.channel = update.channel
        /\ update'.answer = EffectiveSetting([setting |-> setting'], update.channel, update.today)
    BY <1>2, CommitsFacts DEF CommitsUpdate, MoneyUpdates
  <2>3. \A c \in PaidChannels, e \in Days : setting'[c][e] # NULL => e <= update.today
    BY <1>2, <2>2, CommitsFacts
  <2>4. update.today \in Int /\ day \in Int /\ \A e \in Days : e \in Int
    BY <2>2 DEF MoneyUpdates, Days
  <2>5. \A c \in PaidChannels, e \in Days : setting'[c][e] # NULL => e <= day'
    BY <2>1, <2>2, <2>3, <2>4
  <2> QED BY <1>2, <2>1, <2>2, <2>3, <2>5, CommitsFacts
<1>3. CASE EndsUpdate
  BY <1>3 DEF EndsUpdate
<1>4. CASE UNCHANGED moneyVars
  BY <1>4 DEF moneyVars
<1>5. ASSUME NEW c, ClosesChannel(c) PROVE MoneyInv'
  BY <1>5 DEF ClosesChannel
<1>6. ASSUME NEW c \in PaidChannels, NEW e \in Days, NEW rpm \in Rpms \cup {NULL}, AsksUpdate(c, e, rpm)
      PROVE  MoneyInv'
  <2>1. update' \in MoneyUpdates
    BY <1>6 DEF AsksUpdate, MoneyUpdates, MoneySettings
  <2> QED BY <1>6, <2>1 DEF AsksUpdate, Days
<1> QED BY <1>1, <1>2, <1>3, <1>4, <1>5, <1>6

\* The revenue of a past day stands (see RevenueStands), and an update answers for its day.
LEMMA HistoryKept ==
    ASSUME MoneyInv,
           \/ MidnightPasses \/ CommitsUpdate \/ EndsUpdate \/ UNCHANGED moneyVars
           \/ \E c \in PaidChannels :
                ClosesChannel(c) \/ \E e \in Days, rpm \in Rpms \cup {NULL} : AsksUpdate(c, e, rpm)
    PROVE  HistoryStands
<1> USE MoneyAssumption DEF MoneyInv, MoneyTypeOK
<1>1. \A c, d : SettingOn(MoneyTables, c, d) = EffectiveSetting([setting |-> setting], c, d)
  BY DEF SettingOn, EffectiveSetting, MoneyTables
<1>2. \A c, d : SettingOn(MoneyTables', c, d) = EffectiveSetting([setting |-> setting'], c, d)
  BY DEF SettingOn, EffectiveSetting, MoneyTables
<1>3. \A c \in PaidChannels, d \in Days :
         EffectiveSetting([setting |-> setting'], c, d) = EffectiveSetting([setting |-> setting], c, d)
         => RevenueOn(MoneyTables', c, d) = RevenueOn(MoneyTables, c, d)
  BY <1>1, <1>2, SMTT(30) DEF RevenueOn, StoredDelta, MoneyTables
<1>4. CASE ~CommitsUpdate
  <2>1. setting' = setting /\ (update' # NULL => update' = update \/ update'.answer = NULL)
    BY <1>4 DEF MidnightPasses, EndsUpdate, moneyVars, ClosesChannel, AsksUpdate
  <2> QED BY <1>3, <2>1 DEF HistoryStands, RevenueStands, AnswersTheDay
<1>5. CASE CommitsUpdate
  <2>1. AnswersTheDay
    BY <1>2, <1>5, CommitsFacts DEF AnswersTheDay, MoneyUpdates
  <2>2. ASSUME NEW c \in PaidChannels, NEW d \in Days,
               ~(/\ update.channel = c /\ update.from <= d
                 /\ \A e \in update.from + 1..d : setting[c][e] = NULL)
        PROVE  EffectiveSetting([setting |-> setting'], c, d) = EffectiveSetting([setting |-> setting], c, d)
    <3>1. update # NULL /\ update.channel \in PaidChannels /\ update.from \in Days /\ update.from \in Int
      BY <1>5 DEF CommitsUpdate, MoneyUpdates, Days
    <3>2. d \in Int
      BY DEF Days
    <3>3. CASE update.channel # c \/ ~(update.from <= d)
      <4>1. \A e \in Days : e <= d => setting'[c][e] = setting[c][e]
        BY <1>5, <3>3, CommitsFacts
      <4>2. Past(setting', c, d) = Past(setting, c, d)
        BY <4>1 DEF Past
      <4>3. \A e \in Past(setting', c, d) : setting'[c][e] = setting[c][e]
        BY <4>1 DEF Past
      <4> QED BY <1>5, <4>2, <4>3, CommitsFacts, EffectiveSame
    <3>4. ASSUME NEW e \in update.from + 1..d, update.channel = c, setting[c][e] # NULL
          PROVE  EffectiveSetting([setting |-> setting'], c, d) = EffectiveSetting([setting |-> setting], c, d)
      <4>1. e \in Past(setting, c, d) /\ e > update.from
        BY <3>1, <3>2, <3>4 DEF Past, Days
      <4> DEFINE m == Max(Past(setting, c, d))
      <4>2. m \in Past(setting, c, d) /\ \A y \in Past(setting, c, d) : y <= m
        BY <4>1, LatestDay DEF Past
      <4>3. m \in Days /\ m \in Int /\ m <= d
        BY <4>2 DEF Past, Days
      <4>4. m > update.from
        BY <3>1, <3>4, <4>1, <4>2, <4>3
      <4>5. setting'[c][m] = setting[c][m] /\ m \in Past(setting', c, d)
        <5>1. m # update.from
          BY <4>3, <4>4, <3>1
        <5> HIDE DEF m
        <5>2. setting'[c][m] = setting[c][m]
          BY <1>5, <4>3, <5>1, CommitsFacts
        <5> QED BY <4>2, <5>2 DEF Past
      <4>6. \A y \in Past(setting', c, d) : y = update.from \/ y \in Past(setting, c, d)
        BY <1>5, CommitsFacts DEF Past
      <4>7. \A y \in Past(setting', c, d) : y <= m
        BY <4>2, <4>3, <4>4, <4>6, <3>1
      <4>8. Max(Past(setting', c, d)) = m
        BY <4>5, <4>7, LatestDayIs DEF Past
      <4> HIDE DEF m
      <4>9. m = Max(Past(setting, c, d))
        BY DEF m
      <4> QED BY <1>5, <4>2, <4>5, <4>8, <4>9, CommitsFacts, EffectiveIs
    <3> QED BY <2>2, <3>3, <3>4
  <2>3. update # NULL
    BY <1>5 DEF CommitsUpdate
  <2> QED BY <1>3, <2>1, <2>2, <2>3 DEF HistoryStands, RevenueStands
<1> QED BY <1>4, <1>5

----------------------------------------------------------------------------

ChannelsTypeOK ==
    /\ pageLoad \in PageLoads \cup {NULL}
    /\ archiving \in Archivings \cup {NULL}
    /\ review \in [PaidChannels -> Reviews \cup {NULL}]
    /\ \A c \in DOMAIN items : c \in PaidChannels /\ review[c] # NULL

\* What a load has read is current; so is the list, but for the answer to a save of its
\* own that is still to come, and for the channel whose archiving is to be answered.
AnswerToCome(c) == update # NULL /\ update.answer # NULL /\ mine # NULL /\ update.channel = c

ItemsStand ==
    ~oldItems =>
        /\ pageLoad # NULL /\ pageLoad.seen # NULL =>
              \A c \in DOMAIN pageLoad.seen : c \notin closed /\ pageLoad.seen[c] = InForce(c, day)
        /\ pageLoad = NULL =>
              \A c \in DOMAIN items :
                 /\ c \in closed => archiving # NULL /\ archiving.step = "done" /\ archiving.channel = c
                 /\ items[c] = InForce(c, day) \/ AnswerToCome(c)

ChannelsInv == MoneyInv /\ ChannelsTypeOK /\ ItemsStand

LEMMA ChannelsInvInit == ChannelsInit => ChannelsInv
<1> SUFFICES ASSUME ChannelsInit PROVE ChannelsInv
  OBVIOUS
<1>1. MoneyInv
  BY MoneyInvInit DEF ChannelsInit
<1>2. ChannelsTypeOK
  BY DEF ChannelsInit, ChannelsTypeOK, PageLoads
<1>3. ItemsStand
  BY ChannelsAssumption DEF ChannelsInit, ItemsStand, PageLoads
<1> QED BY <1>1, <1>2, <1>3 DEF ChannelsInv

\* The steps of the screen are steps of the server or leave it.
LEMMA ServerSteps ==
    ASSUME ChannelsTypeOK, [ChannelsNext]_channelsVars
    PROVE  \/ MidnightPasses \/ CommitsUpdate \/ EndsUpdate \/ UNCHANGED moneyVars
           \/ \E c \in PaidChannels :
                ClosesChannel(c) \/ \E e \in Days, rpm \in Rpms \cup {NULL} : AsksUpdate(c, e, rpm)
<1> USE DEF ChannelsTypeOK, Reviews, Archivings
<1>1. CASE \E p \in 1..Cardinality(PaidChannels) : OpensPage(p)
  BY <1>1 DEF OpensPage
<1>2. CASE PageRead \/ PageArrives \/ PageFails
  BY <1>2 DEF PageRead, PageArrives, PageFails
<1>3. CASE \E c \in PaidChannels, e \in Days : PicksDate(c, e)
  BY <1>3 DEF PicksDate
<1>4. ASSUME NEW c \in PaidChannels, NEW rpm \in Rpms \cup {NULL}, SubmitsReview(c, rpm)
      PROVE \E e \in Days : AsksUpdate(c, e, rpm)
  BY <1>4 DEF SubmitsReview
<1>5. ASSUME NEW c \in PaidChannels, NEW rpm \in Rpms \cup {NULL}, NEW e \in Days, OthersAsk(c, e, rpm)
      PROVE AsksUpdate(c, e, rpm)
  BY <1>5 DEF OthersAsk
<1>6. CASE ServerCommits \/ ReplyArrives \/ SaveReplyLost
  BY <1>6 DEF ServerCommits, ReplyArrives, SaveReplyLost
<1>7. CASE \E c \in PaidChannels : ArchivesItem(c)
  BY <1>7 DEF ArchivesItem
<1>8. CASE ServerArchives
  BY <1>8 DEF ServerArchives
<1>9. CASE ArchiveReply \/ ArchiveFails
  BY <1>9 DEF ArchiveReply, ArchiveFails
<1>10. CASE UNCHANGED channelsVars
  BY <1>10 DEF channelsVars
<1> QED BY <1>1, <1>2, <1>3, <1>4, <1>5, <1>6, <1>7, <1>8, <1>9, <1>10 DEF ChannelsNext

LEMMA PageReadType ==
    ASSUME setting \in SettingTables, NEW p
    PROVE  [c \in PageOfList(p) |-> InForce(c, day)] \in PagesSeen
<1>1. PageOfList(p) \in SUBSET PaidChannels
  BY DEF PageOfList
<1>2. \A c \in PageOfList(p) : InForce(c, day) \in MoneySettings \cup {NULL}
  BY <1>1, EffectiveType DEF InForce
<1> QED BY <1>1, <1>2 DEF PagesSeen

LEMMA ChannelsTypeNext == ChannelsInv /\ [ChannelsNext]_channelsVars => ChannelsTypeOK'
<1> SUFFICES ASSUME ChannelsInv, [ChannelsNext]_channelsVars PROVE ChannelsTypeOK'
  OBVIOUS
<1> USE ChannelsAssumption DEF ChannelsInv, MoneyInv, MoneyTypeOK, ChannelsTypeOK, PageLoads, Archivings
<1>r. ASSUME NEW e \in Days
      PROVE  \A b \in BOOLEAN : [date |-> e, picked |-> b] \in Reviews /\ [date |-> e, picked |-> b] # NULL
  BY DEF Reviews
<1>1. CASE UNCHANGED screenOnly
  BY <1>1 DEF screenOnly
<1>2. ASSUME NEW p, OpensPage(p) PROVE ChannelsTypeOK'
  BY <1>2 DEF OpensPage
<1>3. CASE PageRead
  BY <1>3, PageReadType DEF PageRead
<1>4. CASE PageArrives
  <2>1. pageLoad.seen \in PagesSeen /\ items' = pageLoad.seen
    BY <1>4 DEF PageArrives
  <2>2. DOMAIN items' \subseteq PaidChannels
    BY <2>1 DEF PagesSeen
  <2>3. review' \in [PaidChannels -> Reviews \cup {NULL}]
    BY <1>4, <1>r DEF PageArrives
  <2>4. \A c \in DOMAIN items' : review'[c] # NULL
    BY <1>4, <1>r, <2>1, <2>2 DEF PageArrives
  <2> QED BY <1>4, <2>2, <2>3, <2>4 DEF PageArrives
<1>5. CASE PageFails
  BY <1>5 DEF PageFails
<1>6. ASSUME NEW c \in PaidChannels, NEW e \in Days, PicksDate(c, e) PROVE ChannelsTypeOK'
  BY <1>6, <1>r DEF PicksDate
<1>7. ASSUME NEW c, NEW rpm, SubmitsReview(c, rpm) PROVE ChannelsTypeOK'
  BY <1>7 DEF SubmitsReview
<1>8. CASE ServerCommits \/ SaveReplyLost
  BY <1>8 DEF ServerCommits, SaveReplyLost
<1>9. CASE ReplyArrives
  <2>1. DOMAIN items' = DOMAIN items
    BY <1>9 DEF ReplyArrives, SavedInList
  <2>2. CASE review' = review
    BY <1>9, <2>1, <2>2 DEF ReplyArrives
  <2>3. CASE review' # review
    <3>1. update.answer \in MoneySettings /\ update.channel \in PaidChannels
      BY <1>9, <2>3 DEF ReplyArrives, EndsUpdate, MoneyUpdates
    <3>2. [date |-> update.answer.from, picked |-> FALSE] \in Reviews
      BY <3>1, <1>r DEF MoneySettings
    <3>3. review' = [review EXCEPT ![update.channel] = [date |-> update.answer.from, picked |-> FALSE]]
      BY <1>9, <2>3 DEF ReplyArrives
    <3>4. review' \in [PaidChannels -> Reviews \cup {NULL}]
      BY <3>1, <3>2, <3>3
    <3>5. \A c \in DOMAIN items' : review'[c] # NULL
      BY <2>1, <3>1, <3>2, <3>3
    <3>6. pageLoad' = pageLoad /\ archiving' = archiving
      BY <1>9 DEF ReplyArrives
    <3> QED BY <2>1, <3>4, <3>5, <3>6
  <2> QED BY <2>2, <2>3
<1>10. ASSUME NEW c \in PaidChannels, ArchivesItem(c) PROVE ChannelsTypeOK'
  BY <1>10 DEF ArchivesItem
<1>11. CASE ServerArchives
  BY <1>11 DEF ServerArchives
<1>12. CASE ArchiveReply
  BY <1>12 DEF ArchiveReply
<1>13. CASE ArchiveFails
  BY <1>13 DEF ArchiveFails
<1>14. CASE UNCHANGED channelsVars
  BY <1>14, <1>1 DEF channelsVars
<1> QED
  BY <1>1, <1>2, <1>3, <1>4, <1>5, <1>6, <1>7, <1>8, <1>9, <1>10, <1>11, <1>12, <1>13, <1>14
  DEF ChannelsNext, OthersAsk

\* The setting in force today changes with an update of the channel, not with the day.
LEMMA InForceStands ==
    ASSUME MoneyInv, MoneyInv', NEW c \in PaidChannels,
           \/ setting' = setting /\ (day' = day \/ MidnightPasses)
           \/ CommitsUpdate /\ update.channel # c
    PROVE  InForce(c, day)' = InForce(c, day)
<1> USE DEF MoneyInv, MoneyTypeOK
<1>1. \A x \in Days : setting'[c][x] = setting[c][x]
  BY CommitsFacts
<1>2. \A x \in Days : setting[c][x] # NULL => x <= day /\ x <= day'
  BY <1>1
<1>3. Past(setting, c, day) = Past(setting', c, day')
  BY <1>1, <1>2 DEF Past
<1>4. \A x \in Past(setting, c, day) : setting[c][x] = setting'[c][x]
  BY <1>1 DEF Past
<1>5. setting \in SettingTables /\ setting' \in SettingTables
  OBVIOUS
<1> HIDE DEF MoneyInv, MoneyTypeOK
<1>6. EffectiveSetting([setting |-> setting], c, day) = EffectiveSetting([setting |-> setting'], c, day')
  BY <1>3, <1>4, <1>5, EffectiveSame
<1> QED BY <1>6 DEF InForce

LEMMA AnswerInForce ==
    ASSUME MoneyInv, update # NULL, update.answer # NULL
    PROVE  update.answer = InForce(update.channel, day)
<1> USE DEF MoneyInv, MoneyTypeOK
<1> DEFINE c == update.channel
<1>1. c \in PaidChannels /\ setting \in SettingTables /\ update.today \in Days /\ update.today <= day
  BY DEF MoneyUpdates
<1>2. \A x \in Days : setting[c][x] # NULL => x <= day /\ x <= update.today
  BY <1>1
<1>3. Past(setting, c, day) = Past(setting, c, update.today)
  BY <1>2 DEF Past
<1>4. update.answer = EffectiveSetting([setting |-> setting], c, update.today)
  OBVIOUS
<1> HIDE DEF c
<1> QED BY <1>1, <1>3, <1>4, EffectiveSame DEF InForce, c

LEMMA ItemsNext == ChannelsInv /\ [ChannelsNext]_channelsVars => ItemsStand'
<1> SUFFICES ASSUME ChannelsInv, [ChannelsNext]_channelsVars, ~oldItems' PROVE ItemsStand'
  BY DEF ItemsStand
<1>m. MoneyInv /\ MoneyInv' /\ ChannelsTypeOK /\ ItemsStand
  BY MoneyInvNext, ServerSteps DEF ChannelsInv
<1>t. ChannelsTypeOK'
  BY ChannelsTypeNext
<1>0. /\ \A c \in DOMAIN items : c \in PaidChannels
      /\ pageLoad # NULL /\ pageLoad.seen # NULL => DOMAIN pageLoad.seen \subseteq PaidChannels
  BY <1>m DEF ChannelsTypeOK, PageLoads, PagesSeen
<1> USE ChannelsAssumption DEF ItemsStand, AnswerToCome
<1>1. CASE MidnightPasses /\ UNCHANGED screenOnly
  <2>1. \A c \in PaidChannels : InForce(c, day)' = InForce(c, day)
    BY <1>1, <1>m, InForceStands DEF MidnightPasses
  <2> QED BY <1>0, <1>1, <1>m, <2>1 DEF MidnightPasses, screenOnly
<1>s. ASSUME UNCHANGED moneyVars
      PROVE  /\ \A c \in PaidChannels : InForce(c, day)' = InForce(c, day)
             /\ UNCHANGED <<day, setting, closed, update>>
  BY <1>s DEF moneyVars, InForce
<1>2. ASSUME NEW p, OpensPage(p) PROVE ItemsStand'
  <2>1. pageLoad' # NULL /\ pageLoad'.seen = NULL
    BY <1>2 DEF OpensPage, PageLoads
  <2> QED BY <2>1
<1>3. CASE PageRead
  <2> DEFINE f == [c \in PageOfList(channelPage) |-> InForce(c, day)]
  <2>1. pageLoad' = [seen |-> f] /\ UNCHANGED moneyVars
    BY <1>3 DEF PageRead
  <2>2. f \in PagesSeen
    BY <1>m, PageReadType DEF MoneyInv, MoneyTypeOK
  <2>3. pageLoad' # NULL /\ pageLoad'.seen = f
    BY <2>1, <2>2 DEF PageLoads
  <2>4. \A c \in DOMAIN f : c \in PaidChannels \ closed /\ f[c] = InForce(c, day)
    BY DEF PageOfList
  <2> QED BY <1>s, <2>1, <2>3, <2>4
<1>4. CASE PageArrives
  BY <1>0, <1>4, <1>m, <1>s DEF PageArrives
<1>5. CASE PageFails
  BY <1>5 DEF PageFails
<1>6. ASSUME NEW c, NEW e, PicksDate(c, e) PROVE ItemsStand'
  BY <1>0, <1>6, <1>m, <1>s DEF PicksDate
<1>7. ASSUME NEW c, NEW e, NEW rpm, AsksUpdate(c, e, rpm), UNCHANGED <<pageLoad, items, archiving, oldItems>>
      PROVE  ItemsStand'
  <2>1. update = NULL /\ UNCHANGED <<day, setting, closed>>
    BY <1>7 DEF AsksUpdate
  <2>2. \A x : InForce(x, day)' = InForce(x, day)
    BY <2>1 DEF InForce
  <2> QED BY <1>0, <1>7, <1>m, <2>1, <2>2
<1>8. CASE ServerCommits
  <2>1. /\ CommitsUpdate /\ ~oldItems /\ mine # NULL /\ mine' = mine /\ pageLoad = NULL
        /\ UNCHANGED <<day, closed, pageLoad, items, archiving>>
    BY <1>8 DEF ServerCommits, CommitsUpdate
  <2>2. \A c \in PaidChannels \ {update.channel} : InForce(c, day)' = InForce(c, day)
    BY <1>m, <2>1, InForceStands
  <2>3. update # NULL /\ update.answer = NULL /\ update'.channel = update.channel
        /\ update' # NULL
    BY <1>m, <2>1, CommitsFacts, MoneyAssumption DEF CommitsUpdate, MoneyUpdates
  <2>4. update'.answer # NULL
    BY <1>m, <2>1, CommitsAnswers
  <2> QED BY <1>0, <1>m, <2>1, <2>2, <2>3, <2>4
<1>9. CASE EndsUpdate /\ UNCHANGED <<pageLoad, archiving, oldItems>> /\ ReplyArrives
  <2>1. UNCHANGED <<day, setting, closed, pageLoad, archiving, oldItems>> /\ update # NULL
        /\ (update.answer # NULL \/ update.channel \in closed)
    BY <1>9 DEF EndsUpdate
  <2>2. \A x : InForce(x, day)' = InForce(x, day)
    BY <2>1 DEF InForce
  <2>3. CASE mine # NULL /\ update.answer # NULL
    <3>1. items' = SavedInList(update.channel, update.answer)
      BY <1>9, <2>3 DEF ReplyArrives
    <3>2. update.answer = InForce(update.channel, day)
      BY <1>m, <2>1, <2>3, AnswerInForce
    <3> QED BY <1>0, <1>m, <2>1, <2>2, <3>1, <3>2 DEF SavedInList
  <2>4. CASE ~(mine # NULL /\ update.answer # NULL)
    <3>1. items' = items
      BY <1>9, <2>4 DEF ReplyArrives
    <3> QED BY <1>0, <1>m, <2>1, <2>2, <2>4, <3>1
  <2> QED BY <2>3, <2>4
<1>10. CASE SaveReplyLost
  BY <1>10 DEF SaveReplyLost
<1>11. ASSUME NEW c \in PaidChannels, ArchivesItem(c) PROVE ItemsStand'
  BY <1>0, <1>11, <1>m, <1>s DEF ArchivesItem
<1>12. CASE ServerArchives
  <2>1. /\ UNCHANGED <<day, setting, update, mine, pageLoad, items>> /\ ~oldItems /\ pageLoad = NULL
        /\ closed' = closed \cup {archiving.channel} /\ archiving # NULL /\ archiving.step = "asked"
        /\ archiving' = [archiving EXCEPT !.step = "done"]
    BY <1>12 DEF ServerArchives, ClosesChannel
  <2>2. archiving' # NULL /\ archiving'.step = "done" /\ archiving'.channel = archiving.channel
    BY <1>t, <1>m, <2>1 DEF ChannelsTypeOK, Archivings
  <2>3. \A x : InForce(x, day)' = InForce(x, day)
    BY <2>1 DEF InForce
  <2> QED BY <1>0, <1>m, <2>1, <2>2, <2>3
<1>13. CASE ArchiveReply
  BY <1>0, <1>13, <1>m, <1>s DEF ArchiveReply
<1>14. CASE ArchiveFails
  BY <1>0, <1>14, <1>m, <1>s DEF ArchiveFails
<1>15. CASE UNCHANGED channelsVars
  BY <1>0, <1>15, <1>m, <1>s DEF channelsVars, screenOnly
<1> QED
  BY <1>1, <1>2, <1>3, <1>4, <1>5, <1>6, <1>7, <1>8, <1>9, <1>10, <1>11, <1>12, <1>13, <1>14, <1>15
  DEF ChannelsNext, SubmitsReview, OthersAsk, screenOnly, ReplyArrives

LEMMA ChannelsInvNext == ChannelsInv /\ [ChannelsNext]_channelsVars => ChannelsInv'
  BY ChannelsTypeNext, ItemsNext, MoneyInvNext, ServerSteps DEF ChannelsInv

LEMMA ChannelsInvShows == ChannelsInv => ShowsTheSettings
<1> SUFFICES ASSUME ChannelsInv PROVE ShowsTheSettings
  OBVIOUS
<1> QED BY DEF ChannelsInv, ItemsStand, AnswerToCome, ShowsTheSettings

LEMMA ChannelsHistory == ChannelsInv /\ [ChannelsNext]_channelsVars => HistoryStands
  BY ServerSteps, HistoryKept DEF ChannelsInv

----------------------------------------------------------------------------
\* A provider's tab (AiSettingsScreen).
TabInv ==
    /\ reads \in Nat
    /\ \A o \in opening : o.read \in Nat /\ o.read <= reads /\ (o.read = wanted => o.provider = tab)
    /\ ~crossed => modelsOf \in {NULL, tab} /\ (choice = NULL \/ choice.of = tab)
    /\ wanted = NULL /\ ~blind => flagOf \in {tab, "typed"}
    /\ keyOf \in {NULL, tab}

LEMMA TabInvInit == AiTabInit => TabInv
  BY TabAssumption DEF AiTabInit, TabInv

LEMMA TabInvNext == TabInv /\ [AiTabNext]_aiTabVars => TabInv'
<1> SUFFICES ASSUME TabInv, [AiTabNext]_aiTabVars PROVE TabInv'
  OBVIOUS
<1> USE TabAssumption DEF TabInv, Model
<1>1. ASSUME NEW p, OpensTab(p) PROVE TabInv'
  BY <1>1 DEF OpensTab
<1>2. ASSUME NEW o \in opening, NEW status \in BOOLEAN, NEW models \in BOOLEAN, TabArrives(o, status, models)
      PROVE  TabInv'
  <2>1. CASE ~Active(o)
    BY <1>2, <2>1 DEF TabArrives
  <2>2. CASE Active(o)
    <3>1. o.provider = tab /\ wanted' = NULL /\ UNCHANGED <<tab, reads, keyOf, crossed>>
          /\ opening' = opening \ {o}
      BY <1>2, <2>2 DEF TabArrives, Active
    <3>2. \A q \in opening' : q.read \in Nat /\ q.read <= reads' /\ (q.read = wanted' => q.provider = tab')
      BY <3>1
    <3>3. ~crossed => modelsOf' \in {NULL, tab}
      BY <1>2, <2>2, <3>1 DEF TabArrives
    <3>4. choice' = NULL \/ choice'.of = tab
      BY <1>2, <2>2, <3>1 DEF TabArrives, Chosen
    <3>5. ~blind' => flagOf' = tab
      BY <1>2, <2>2, <3>1 DEF TabArrives
    <3> QED BY <3>1, <3>2, <3>3, <3>4, <3>5
  <2> QED BY <2>1, <2>2
<1>3. ASSUME NEW r \in rereads, NEW models \in BOOLEAN, RereadArrives(r, models) PROVE TabInv'
  BY <1>3 DEF RereadArrives, Chosen
<1>4. CASE Rereads
  BY <1>4 DEF Rereads
<1>5. CASE ChoosesModel
  BY <1>5 DEF ChoosesModel
<1>6. CASE TypesFlagOrKey
  BY <1>6 DEF TypesFlagOrKey
<1>7. CASE SavesTab
  BY <1>7 DEF SavesTab
<1>8. CASE SaveArrives
  BY <1>8 DEF SaveArrives
<1>9. CASE UNCHANGED aiTabVars
  BY <1>9 DEF aiTabVars
<1> QED BY <1>1, <1>2, <1>3, <1>4, <1>5, <1>6, <1>7, <1>8, <1>9 DEF AiTabNext

LEMMA TabInvOffers == TabInv => OffersItsOwn
  BY DEF TabInv, OffersItsOwn

----------------------------------------------------------------------------
\* The API of the AI (AiService).
\* A save that no other disturbed knows the setting of its provider.
SettingsInv ==
    /\ stored \in [ServiceProviders -> ServiceSettings \cup {NULL}]
    /\ role \in [ServiceRoles -> {NULL} \cup [provider : ServiceProviders, model : ModelIds]]
    /\ save \in [Saves -> SaveRecords \cup {NULL}]
    /\ \A s \in Saves : save[s] = NULL => s \notin disturbed
    /\ \A s \in Saves : save[s] # NULL /\ s \notin disturbed => save[s].existing = stored[save[s].provider]

CallsInv ==
    /\ source \in 0..MaxSource
    /\ call \in [Calls -> CallRecords \cup {NULL}]
    /\ AnswersOfTheSource

LEMMA ServiceInvInit == AiInit => SettingsInv /\ CallsInv
<1> SUFFICES ASSUME AiInit PROVE SettingsInv /\ CallsInv
  OBVIOUS
<1> USE ServiceAssumption DEF AiInit
<1>1. SettingsInv
  BY DEF SettingsInv
<1>2. CallsInv
  BY DEF CallsInv, AnswersOfTheSource
<1> QED BY <1>1, <1>2

LEMMA CallsInvNext == CallsInv /\ [ClassifyNext]_classifyVars => CallsInv'
<1> SUFFICES ASSUME CallsInv, [ClassifyNext]_classifyVars PROVE CallsInv'
  OBVIOUS
<1> USE ServiceAssumption DEF CallsInv, CallRecords, AnswersOfTheSource
<1>1. CASE SourceChanges
  BY <1>1 DEF SourceChanges
<1>2. ASSUME NEW k \in Calls, ReadsSource(k) PROVE CallsInv'
  BY <1>2 DEF ReadsSource
<1>3. ASSUME NEW k \in Calls, LooksCached(k) PROVE CallsInv'
  BY <1>3 DEF LooksCached, Phase
<1>4. ASSUME NEW k \in Calls, Persists(k) PROVE CallsInv'
  BY <1>4, ZenonT(40) DEF Persists
<1>5. ASSUME NEW k \in Calls, ClassifyFails(k) PROVE CallsInv'
  BY <1>5 DEF ClassifyFails, Phase
<1>6. ASSUME NEW k \in Calls, EndsCall(k) PROVE CallsInv'
  BY <1>6 DEF EndsCall
<1>7. CASE UNCHANGED classifyVars
  BY <1>7 DEF classifyVars
<1> QED BY <1>1, <1>2, <1>3, <1>4, <1>5, <1>6, <1>7 DEF ClassifyNext

LEMMA SettingType ==
    ASSUME SettingsInv, NEW v \in SaveRecords
    PROVE  SettingOf(v) \in ServiceSettings
<1> USE DEF SettingsInv, SaveRecords, ServiceSettings
<1>1. v.existing = NULL \/ v.existing \in ServiceSettings
  OBVIOUS
<1>2. Merged(v.key, ExistingField(v.existing, "key"), NULL) \in KeyValues \cup {NULL}
  BY <1>1 DEF Merged, ExistingField
<1>3. Merged(v.enabled, ExistingField(v.existing, "enabled"), FALSE) \in Flags \cup {FALSE}
  BY <1>1 DEF Merged, ExistingField
<1>4. Merged(v.models, ExistingField(v.existing, "models"), NULL)
         \in [ServiceRoles -> ModelIds \cup {NULL}] \cup {NULL}
  BY <1>1 DEF Merged, ExistingField
<1>5. ExistingField(stored[v.provider], "models") \in [ServiceRoles -> ModelIds \cup {NULL}] \cup {NULL}
  BY DEF ExistingField
<1> QED BY <1>2, <1>3, <1>4, <1>5 DEF SettingOf

\* A part that was left out stays, when the setting is that of the request's reading.
LEMMA SettingKeeps ==
    ASSUME SettingsInv, NEW v \in SaveRecords, v.existing = stored[v.provider], v.existing # NULL,
           NEW f \in {"key", "enabled", "models"}, v[f] = NULL
    PROVE  SettingOf(v)[f] = v.existing[f]
<1> USE DEF SettingsInv, SaveRecords, ServiceSettings, SettingOf, Merged, ExistingField
<1>1. CASE f = "key"
  BY <1>1
<1>2. CASE f = "enabled"
  BY <1>2, ServiceAssumption
<1>3. CASE f = "models"
  BY <1>3
<1> QED BY <1>1, <1>2, <1>3

LEMMA SettingsInvNext == SettingsInv /\ [SettingsNext]_settingVars => SettingsInv'
<1> SUFFICES ASSUME SettingsInv, [SettingsNext]_settingVars PROVE SettingsInv'
  OBVIOUS
<1> USE ServiceAssumption DEF SettingsInv
<1>1. ASSUME NEW s \in Saves, NEW p \in ServiceProviders, NEW key \in KeyValues \cup {NULL},
             NEW enabled \in Flags \cup {NULL},
             NEW models \in [ServiceRoles -> ModelIds \cup {NULL}] \cup {NULL},
             AsksSave(s, p, key, enabled, models)
      PROVE  SettingsInv'
  <2> DEFINE v == [provider |-> p, key |-> key, enabled |-> enabled, models |-> models, existing |-> stored[p]]
  <2>1. v \in SaveRecords /\ v.provider = p /\ v.existing = stored[p]
    BY DEF SaveRecords
  <2>2. save' = [save EXCEPT ![s] = v] /\ UNCHANGED <<stored, role, disturbed>> /\ save[s] = NULL
    BY <1>1 DEF AsksSave
  <2> HIDE DEF v
  <2> QED BY <2>1, <2>2
<1>2. ASSUME NEW s \in Saves, WritesSave(s) PROVE SettingsInv'
  <2>1. save[s] \in SaveRecords /\ save[s].provider \in ServiceProviders
    BY <1>2 DEF WritesSave, SaveRecords
  <2>2. SettingOf(save[s]) \in ServiceSettings
    BY <2>1, SettingType
  <2>3. /\ stored' = [stored EXCEPT ![save[s].provider] = SettingOf(save[s])]
        /\ save' = [save EXCEPT ![s] = NULL]
        /\ disturbed' = {x \in Saves \ {s} : x \in disturbed
                            \/ (save[x] # NULL /\ save[x].provider = save[s].provider)}
    BY <1>2 DEF WritesSave
  <2>4. role' \in [ServiceRoles -> {NULL} \cup [provider : ServiceProviders, model : ModelIds]]
    BY <1>2, <2>1 DEF WritesSave, RolesOf, SaveRecords
  <2>5. stored' \in [ServiceProviders -> ServiceSettings \cup {NULL}]
    BY <2>1, <2>2, <2>3
  <2>6. ASSUME NEW x \in Saves, save'[x] # NULL, x \notin disturbed'
        PROVE  save'[x].existing = stored'[save'[x].provider]
    <3>1. x # s /\ save'[x] = save[x] /\ save[x].provider # save[s].provider /\ x \notin disturbed
      BY <2>3, <2>6
    <3>2. save[x].provider \in ServiceProviders
      BY <2>6, <3>1 DEF SaveRecords
    <3> QED BY <2>3, <2>6, <3>1, <3>2
  <2>7. \A x \in Saves : save'[x] = NULL => x \notin disturbed'
    BY <2>3
  <2> QED BY <2>3, <2>4, <2>5, <2>6, <2>7
<1>3. CASE UNCHANGED settingVars
  BY <1>3 DEF settingVars
<1> QED BY <1>1, <1>2, <1>3 DEF SettingsNext

LEMMA SavesAsAsked == SettingsInv /\ [SettingsNext]_settingVars => SavesWhatIsAsked
<1> SUFFICES ASSUME SettingsInv, [SettingsNext]_settingVars,
                    NEW s \in Saves, save[s] # NULL, save'[s] = NULL
             PROVE
        /\ \A p \in ServiceProviders \ {save[s].provider} : stored'[p] = stored[p]
        /\ \A r \in ServiceRoles : role'[r] # role[r] =>
             save[s].models # NULL /\ role'[r] = [provider |-> save[s].provider, model |-> save[s].models[r]]
        /\ s \notin disturbed => \A f \in {"key", "enabled", "models"} :
             LET before == stored[save[s].provider]
             IN  before # NULL /\ save[s][f] = NULL => stored'[save[s].provider][f] = before[f]
  BY DEF SavesWhatIsAsked
<1> USE ServiceAssumption DEF SettingsInv
<1>1. WritesSave(s)
  <2>1. ASSUME NEW t \in Saves, NEW p \in ServiceProviders, NEW key \in KeyValues \cup {NULL},
               NEW enabled \in Flags \cup {NULL},
               NEW models \in [ServiceRoles -> ModelIds \cup {NULL}] \cup {NULL},
               AsksSave(t, p, key, enabled, models)
        PROVE  FALSE
    BY <2>1 DEF AsksSave
  <2>2. ASSUME NEW t \in Saves, WritesSave(t) PROVE t = s
    BY <2>2 DEF WritesSave
  <2>3. ~UNCHANGED settingVars
    BY DEF settingVars
  <2> QED BY <2>1, <2>2, <2>3 DEF SettingsNext
<1>2. save[s] \in SaveRecords /\ save[s].provider \in ServiceProviders
  BY DEF SaveRecords
<1>3. \A p \in ServiceProviders \ {save[s].provider} : stored'[p] = stored[p]
  BY <1>1, <1>2 DEF WritesSave
<1>4. \A r \in ServiceRoles : role'[r] # role[r] =>
             save[s].models # NULL /\ role'[r] = [provider |-> save[s].provider, model |-> save[s].models[r]]
  BY <1>1 DEF WritesSave, RolesOf
<1>5. ASSUME s \notin disturbed, NEW f \in {"key", "enabled", "models"},
             stored[save[s].provider] # NULL, save[s][f] = NULL
      PROVE  stored'[save[s].provider][f] = stored[save[s].provider][f]
  <2>1. stored'[save[s].provider] = SettingOf(save[s])
    BY <1>1, <1>2 DEF WritesSave
  <2>2. save[s].existing = stored[save[s].provider]
    BY <1>5
  <2>3. SettingOf(save[s])[f] = save[s].existing[f]
    BY <1>2, <1>5, <2>2, SettingKeeps
  <2> QED BY <2>1, <2>2, <2>3
<1> QED BY <1>3, <1>4, <1>5

----------------------------------------------------------------------------
\* The router (AiRouter).
Wires == {"valid", "invalid", "unreachable", "limited", "refused", "error", "malformed", "empty"}

\* What a client with a key and a model makes of a wire's routed.
Verdict(wire) ==
    CASE wire = "unreachable" -> "AI_UNAVAILABLE"
      [] wire = "limited" -> "AI_RATE_LIMITED"
      [] wire = "refused" -> "AI_CONFIGURATION_INVALID"
      [] wire \in {"error", "malformed", "empty"} -> "AI_REQUEST_FAILED"
      [] OTHER -> wire

LEMMA VerdictIs ==
    ASSUME NEW wire \in Wires
    PROVE  /\ Verdict(wire) = "valid" <=> wire = "valid"
           /\ Verdict(wire) = "invalid" <=> wire = "invalid"
           /\ Verdict(wire) = "AI_CONFIGURATION_INVALID" <=> wire = "refused"
           /\ wire \notin {"valid", "invalid", "refused"} => Verdict(wire) \in Failures
           /\ Verdict(wire) # "AI_SCHEMA_INVALID"
  BY DEF Wires, Verdict, Failures

\* Two tries, by a client with a model.
LEMMA StructuredIs ==
    ASSUME NEW p, NEW client, client.model # NULL, NEW first \in Wires, NEW second \in Wires
    PROVE  LET outcome == Structured(p, client, <<first, second>>)
           IN  /\ ~client.key => outcome = "AI_DISABLED"
               /\ client.key =>
                    /\ outcome = "valid" <=> first = "valid" \/ (first = "invalid" /\ second = "valid")
                    /\ outcome \in {"AI_SCHEMA_INVALID", "AI_CONFIGURATION_INVALID"} => first # "valid"
                    /\ outcome \in {"valid", "AI_SCHEMA_INVALID", "AI_CONFIGURATION_INVALID"} \cup Failures
<1> DEFINE outcome == Structured(p, client, <<first, second>>)
<1>1. CASE ~client.key
  BY <1>1 DEF Structured, Generate
<1>2. CASE client.key
  <2>1. Generate(p, client, first) = Verdict(first) /\ Generate(p, client, second) = Verdict(second)
    BY <1>2 DEF Generate, Verdict
  <2>2. outcome = IF Verdict(first) # "invalid" THEN Verdict(first)
                  ELSE IF Verdict(second) # "invalid" THEN Verdict(second) ELSE "AI_SCHEMA_INVALID"
    BY <2>1 DEF Structured
  <2> HIDE DEF outcome
  <2>3. outcome = "valid" <=> first = "valid" \/ (first = "invalid" /\ second = "valid")
    BY <2>2, VerdictIs
  <2>4. outcome \in {"AI_SCHEMA_INVALID", "AI_CONFIGURATION_INVALID"} => first # "valid"
    BY <2>2, VerdictIs
  <2>5. outcome \in {"valid", "AI_SCHEMA_INVALID", "AI_CONFIGURATION_INVALID"} \cup Failures
    <3>1. ASSUME NEW w \in Wires, Verdict(w) # "invalid"
          PROVE  Verdict(w) \in {"valid", "AI_SCHEMA_INVALID", "AI_CONFIGURATION_INVALID"} \cup Failures
      BY <3>1, VerdictIs
    <3> QED BY <2>2, <3>1
  <2> QED BY <1>2, <2>3, <2>4, <2>5 DEF outcome
<1> QED BY <1>1, <1>2

\* Whatever is stored, configured and sent: an routed is that of the provider it names.
THEOREM RouteAttributes ==
    ASSUME NEW clients, NEW settings, NEW primary \in AiProviders, NEW roles, NEW task, NEW wires,
           \A p \in AiProviders : /\ \E key, model : clients[p] = [key |-> key, model |-> model]
                                  /\ clients[p].model # NULL
                                  /\ clients[p].key /\ settings[p] # NULL => settings[p].enabled
                                  /\ \E first, second \in Wires : wires[p] = <<first, second>>,
           \A r \in Roles : roles[r] # NULL => roles[r].provider \in AiProviders
    PROVE  AnswerAttributed(clients, settings, wires, Route(clients, primary, roles, task, wires))
<1> DEFINE sends(q) == wires[q][1] = "valid" \/ (wires[q][1] = "invalid" /\ wires[q][2] = "valid")
           Sound(a) == /\ a.provider \in AiProviders
                       /\ ~clients[a.provider].key => a.outcome = "AI_DISABLED"
                       /\ clients[a.provider].key =>
                            /\ a.outcome = "valid" <=> sends(a.provider)
                            /\ a.outcome \in {"AI_SCHEMA_INVALID", "AI_CONFIGURATION_INVALID"} =>
                                  wires[a.provider][1] # "valid"
                            /\ a.outcome \in {"valid", "AI_SCHEMA_INVALID", "AI_CONFIGURATION_INVALID"} \cup Failures
<1>1. ASSUME NEW request, request.provider \in AiProviders
      PROVE  Sound(Ask(clients, request, wires)) /\ Ask(clients, request, wires).provider = request.provider
  <2> DEFINE p == request.provider
             model == IF request.model # NULL THEN request.model ELSE clients[p].model
             client == [clients[p] EXCEPT !.model = model]
             a == Ask(clients, request, wires)
  <2>1. PICK first \in Wires, second \in Wires : wires[p] = <<first, second>>
    BY <1>1
  <2>2. client.model # NULL /\ client.key = clients[p].key
    <3>1. PICK key, other : clients[p] = [key |-> key, model |-> other]
      BY <1>1
    <3>2. model # NULL
      BY <1>1
    <3> HIDE DEF model
    <3>3. client = [key |-> key, model |-> model]
      BY <3>1
    <3>4. client.key = key /\ clients[p].key = key /\ client.model = model
      BY <3>1, <3>3
    <3> QED BY <3>2, <3>4
  <2>3. a.provider = p /\ a.outcome = Structured(p, client, <<first, second>>)
    BY <2>1 DEF Ask
  <2>4. wires[p][1] = first /\ wires[p][2] = second
    BY <2>1
  <2> HIDE DEF client, a
  <2> QED BY <1>1, <2>2, <2>3, <2>4, StructuredIs DEF a
<1> DEFINE selected == Selected(primary, roles, task)
           fallback == FallbackRequest(selected, roles)
           first == Ask(clients, selected, wires)
           last == Ask(clients, fallback, wires)
<1>2. selected.provider \in AiProviders
  BY DEF Selected, RoleOf, Roles
<1>3. fallback.provider = Other(selected.provider) /\ fallback.provider \in AiProviders
      /\ \A q \in AiProviders : q \in {selected.provider, fallback.provider}
  BY <1>2 DEF FallbackRequest, Other, AiProviders
<1>4. Sound(first) /\ first.provider = selected.provider /\ Sound(last) /\ last.provider = fallback.provider
  BY <1>1, <1>2, <1>3
<1> DEFINE routed == Route(clients, primary, roles, task, wires)
<1>5. routed = IF first.outcome \in Failures THEN last ELSE first
  BY DEF Route, FallsBack
<1>6. {"valid", "AI_SCHEMA_INVALID", "AI_CONFIGURATION_INVALID"} \cap Failures = {} /\ "AI_DISABLED" \in Failures
  BY DEF Failures
<1> HIDE DEF routed, first, last, selected, fallback
<1>7. Sound(routed)
  BY <1>4, <1>5
<1>8. ASSUME routed.outcome = "valid"
      PROVE  clients[routed.provider].key /\ sends(routed.provider)
             /\ (settings[routed.provider] # NULL => settings[routed.provider].enabled)
  BY <1>6, <1>7, <1>8
<1>9. ASSUME routed.outcome # "valid", NEW q \in AiProviders, clients[q].key, wires[q][1] = "valid"
      PROVE  routed.outcome \in {"AI_SCHEMA_INVALID", "AI_CONFIGURATION_INVALID"}
  <2>1. CASE q = first.provider
    BY <1>4, <1>5, <1>6, <1>9, <2>1
  <2>2. CASE q = last.provider
    BY <1>4, <1>5, <1>6, <1>9, <2>2
  <2> QED BY <1>3, <1>4, <2>1, <2>2
<1>10. ASSUME routed.outcome \in {"AI_SCHEMA_INVALID", "AI_CONFIGURATION_INVALID"}
       PROVE  clients[routed.provider].key /\ wires[routed.provider][1] # "valid"
  BY <1>6, <1>7, <1>10
<1> QED BY <1>8, <1>9, <1>10 DEF AnswerAttributed, routed

----------------------------------------------------------------------------
\* The evidence of a report (ReportEvidence).
\* The tables of a period as the report reads them: finitely many channels, days in order,
\* between instants that are integers; what the rows and the snapshots hold does not matter.
ReportData(t, p) ==
    /\ IsFiniteSet(t.channels)
    /\ p.first \in Int /\ p.last \in Int /\ p.cutoff \in Int /\ p.first <= p.last

\* The snapshot a boundary takes is the newest of those known within it.
LEMMA UsableIs ==
    ASSUME NEW seen, NEW from \in Int, NEW to \in Int, Usable(seen, from, to) # NULL
    PROVE  LET known == {i \in DOMAIN seen : seen[i] # NULL}
           IN  Usable(seen, from, to) \in {i \in known \cap from..to : ~\E j \in known : j \in i + 1..to}
<1> DEFINE known == {i \in DOMAIN seen : seen[i] # NULL}
           within == {i \in DOMAIN seen \cap from..to : seen[i] # NULL}
<1>1. within \subseteq Int /\ IsFiniteSet(within) /\ within = known \cap from..to
  <2>1. IsFiniteSet(from..to)
    BY FS_Interval
  <2>2. within \in SUBSET (from..to) /\ from..to \subseteq Int
    OBVIOUS
  <2> QED BY <2>1, <2>2, FS_Subset
<1>2. within # {} /\ Usable(seen, from, to) = Max(within)
  BY DEF Usable
<1> DEFINE latest == Max(within)
<1>3. latest \in within /\ \A y \in within : latest >= y
  BY <1>1, <1>2, GreatestIs
<1> HIDE DEF within, latest
<1>4. latest \in known \cap from..to /\ latest \in Int /\ latest >= from
  BY <1>1, <1>3
<1>5. ASSUME NEW j \in known, j \in latest + 1..to PROVE FALSE
  <2>1. j \in Int /\ j > latest /\ j \in from..to
    BY <1>4, <1>5
  <2>2. j \in within
    BY <1>1, <2>1
  <2> QED BY <1>3, <1>4, <2>1, <2>2
<1>6. latest \in {i \in known \cap from..to : ~\E j \in known : j \in i + 1..to}
  BY <1>4, <1>5
<1> QED BY <1>2, <1>6 DEF latest

\* The boundaries of a period are its ends, unless the data is cut before.
LEMMA BoundariesAre ==
    ASSUME NEW t, NEW p, ReportData(t, p)
    PROVE  LET dayEnd == (p.last + 1) * DayLength
               end == Min({p.cutoff, dayEnd})
           IN  /\ EndBoundary(p) \in Int /\ LastInstant(p) \in Int /\ StartBoundary(p) \in Int
               /\ EndBoundary(p) = end /\ LastInstant(p) = Min({p.cutoff, dayEnd - 1})
               /\ StartBoundary(p) = end - (p.last + 1 - p.first) * DayLength
<1> DEFINE dayEnd == (p.last + 1) * DayLength
<1>1. p.first \in Int /\ p.last \in Int /\ p.cutoff \in Int /\ p.first <= p.last /\ DayLength \in Nat
  BY ReportAssumption DEF ReportData
<1>2. Cardinality(PeriodDays(p)) = p.last + 1 - p.first
  <2>1. Cardinality(p.first..p.last) = IF p.first > p.last THEN 0 ELSE p.last - p.first + 1
    BY ONLY <1>1, FS_Interval
  <2>2. p.last - p.first + 1 = p.last + 1 - p.first /\ ~(p.first > p.last)
    BY <1>1
  <2> QED BY <2>1, <2>2 DEF PeriodDays
<1>3. dayEnd \in Int /\ ReportDayEnd(p) = dayEnd
  <2>1. \A i \in Int, j \in Nat : i * j \in Int
    OBVIOUS
  <2>2. p.last + 1 \in Int
    BY <1>1
  <2> QED BY <1>1, <2>1, <2>2 DEF ReportDayEnd
<1> HIDE DEF dayEnd
<1>4. /\ EndBoundary(p) = IF p.cutoff < dayEnd THEN p.cutoff ELSE dayEnd
      /\ LastInstant(p) = IF p.cutoff < dayEnd THEN p.cutoff ELSE dayEnd - 1
  BY <1>3 DEF EndBoundary, LastInstant
<1>5. /\ Min({p.cutoff, dayEnd}) = IF p.cutoff <= dayEnd THEN p.cutoff ELSE dayEnd
      /\ Min({p.cutoff, dayEnd - 1}) = IF p.cutoff <= dayEnd - 1 THEN p.cutoff ELSE dayEnd - 1
  BY <1>1, <1>3, OfTwo
<1>6. /\ EndBoundary(p) = Min({p.cutoff, dayEnd}) /\ EndBoundary(p) \in Int
      /\ LastInstant(p) = Min({p.cutoff, dayEnd - 1}) /\ LastInstant(p) \in Int
  BY <1>1, <1>3, <1>4, <1>5
<1>7. StartBoundary(p) = EndBoundary(p) - (p.last + 1 - p.first) * DayLength
  BY <1>2 DEF StartBoundary
<1>8. StartBoundary(p) \in Int
  <2> DEFINE length == (p.last + 1 - p.first) * DayLength
  <2>1. \A i \in Int, j \in Nat : i * j \in Int
    OBVIOUS
  <2>2. p.last + 1 - p.first \in Int
    BY <1>1
  <2>3. length \in Int
    BY <1>1, <2>1, <2>2
  <2>4. StartBoundary(p) = EndBoundary(p) - length
    BY <1>7
  <2> HIDE DEF length
  <2> QED BY <1>6, <2>3, <2>4
<1> QED BY <1>6, <1>7, <1>8 DEF dayEnd

Covered(t, p) == {Cardinality(Cells(t, p)), Cardinality(t.channels) * Cardinality(PeriodDays(p))}

\* An item about a target, or about all, quotes what the tables hold of it.
LEMMA EvidenceTells ==
    ASSUME NEW t, NEW p, ReportData(t, p), NEW item \in Aggregate(t, p).evidence, NEW of,
           item.about \in {of, Portfolio}
    PROVE  item.numbers \subseteq NumbersOf(t, p, of) \cup Covered(t, p)
<1>1. CASE item \in ChannelEvidence(t, p)
  <2> DEFINE at(k) == t.row[k[1]][k[2]]
             counts(k) == {Fact(ChannelEntity(k[1]), "count", k[2], {n}, at(k).whole) :
                             n \in {at(k).count} \ {NULL}}
             deltas(k) == {Fact(ChannelEntity(k[1]), "delta", k[2], {n}, at(k).whole) :
                             n \in {at(k).delta} \ {NULL}}
  <2>1. PICK k \in Cells(t, p) : item \in counts(k) \cup deltas(k)
    BY <1>1 DEF ChannelEvidence
  <2> DEFINE row == t.row[k[1]][k[2]]
  <2>2. item.about = ChannelEntity(k[1]) /\ item.numbers \subseteq {row.count, row.delta}
    <3>1. CASE item \in counts(k)
      <4>1. item = Fact(ChannelEntity(k[1]), "count", k[2], {row.count}, row.whole)
        BY ONLY <3>1
      <4> HIDE DEF row
      <4> QED BY ONLY <4>1 DEF Fact
    <3>2. CASE item \in deltas(k)
      <4>1. item = Fact(ChannelEntity(k[1]), "delta", k[2], {row.delta}, row.whole)
        BY ONLY <3>2
      <4> HIDE DEF row
      <4> QED BY ONLY <4>1 DEF Fact
    <3> HIDE DEF row, counts, deltas
    <3> QED BY ONLY <2>1, <3>1, <3>2
  <2>3. of = <<"CHANNEL", k[1]>>
    BY <2>2 DEF ChannelEntity, Portfolio
  <2>4. of[1] = "CHANNEL" /\ of[2] = k[1]
    BY <2>3
  <2>5. k[2] \in PeriodDays(p) /\ t.row[of[2]][k[2]] # NULL /\ row = t.row[of[2]][k[2]]
    BY <2>4 DEF Cells
  <2>6. {row.count, row.delta} \subseteq NumbersOf(t, p, of)
    BY <2>4, <2>5 DEF NumbersOf
  <2> QED BY <2>2, <2>6
<1>2. CASE item = CoverageFact(t, p)
  BY <1>2 DEF CoverageFact, Fact, Covered
<1>3. CASE \E v \in TopOf(t, p) : item \in VideoEvidence(t, p, v)
  <2>1. PICK v : item \in VideoEvidence(t, p, v)
    BY <1>3
  <2> DEFINE latest == LatestSeen(t, p, v)
             baseline == BaselineSeen(t, p, v)
             seen == t.video[v].seen
             known == {i \in DOMAIN seen : seen[i] # NULL}
             newest(from, to) == {i \in known \cap from..to : ~\E j \in known : j \in i + 1..to}
             end == EndBoundary(p)
             start == StartBoundary(p)
             ends == newest(end - Tolerance, LastInstant(p))
             starts == newest(start - Tolerance, start)
  <2>2. item.about = VideoEntity(v)
    BY <2>1 DEF VideoEvidence, Fact
  <2>3. of = <<"VIDEO", v>>
    BY <2>2 DEF VideoEntity, Portfolio
  <2>4. of[1] # "CHANNEL" /\ of[2] = v
    BY <2>3
  <2>5. NumbersOf(t, p, of) =
          {seen[i] : i \in ends}
          \cup {seen[k[1]] - seen[k[2]] : k \in {k \in ends \X starts : k[1] > k[2]}}
    <3>1. /\ end = Min({p.cutoff, (p.last + 1) * DayLength})
          /\ LastInstant(p) = Min({p.cutoff, (p.last + 1) * DayLength - 1})
          /\ start = end - (p.last + 1 - p.first) * DayLength
      BY BoundariesAre
    <3> HIDE DEF end, start
    <3> QED BY <2>4, <3>1 DEF NumbersOf
  <2>6. /\ latest # NULL => latest \in ends
        /\ baseline # NULL => baseline \in starts
        /\ ends \subseteq Int /\ starts \subseteq Int
    <3>0. EndBoundary(p) \in Int /\ StartBoundary(p) \in Int /\ LastInstant(p) \in Int
      BY ONLY ReportData(t, p), BoundariesAre
    <3>1. end \in Int /\ start \in Int /\ LastInstant(p) \in Int /\ Tolerance \in Int
      BY <3>0, ReportAssumption
    <3>2. latest = Usable(seen, end - Tolerance, LastInstant(p)) /\ baseline = Usable(seen, start - Tolerance, start)
      BY DEF LatestSeen, BaselineSeen
    <3>3. end - Tolerance \in Int /\ start - Tolerance \in Int
      BY <3>1
    <3> HIDE DEF seen, latest, baseline, end, start
    <3> QED BY <3>1, <3>2, <3>3, UsableIs
  <2>7. item.numbers \subseteq {seen[i] : i \in {latest} \ {NULL}} \cup ({VideoDelta(t, p, v)} \ {NULL})
    BY <2>1 DEF VideoEvidence, Fact
  <2>8. VideoDelta(t, p, v) # NULL =>
          /\ latest # NULL /\ baseline # NULL /\ ~(latest <= baseline)
          /\ VideoDelta(t, p, v) = seen[latest] - seen[baseline]
    BY DEF VideoDelta
  <2> HIDE DEF ends, starts, latest, baseline, seen
  <2>9. {seen[i] : i \in {latest} \ {NULL}} \subseteq {seen[i] : i \in ends}
    BY <2>6
  <2>10. ASSUME VideoDelta(t, p, v) # NULL
         PROVE  VideoDelta(t, p, v) \in {seen[k[1]] - seen[k[2]] : k \in {k \in ends \X starts : k[1] > k[2]}}
    <3>1. latest \in ends /\ baseline \in starts /\ latest > baseline
      BY <2>6, <2>8, <2>10
    <3>2. <<latest, baseline>> \in {k \in ends \X starts : k[1] > k[2]}
      BY <3>1
    <3> QED BY <2>8, <2>10, <3>2
  <2> QED BY <2>5, <2>7, <2>9, <2>10
<1>4. item \in ChannelEvidence(t, p) \cup {CoverageFact(t, p)}
               \cup UNION {VideoEvidence(t, p, v) : v \in TopOf(t, p)}
  BY DEF Aggregate
<1> QED BY <1>1, <1>2, <1>3, <1>4

\* Data that is complete has a figure for every channel on every day.
LEMMA CompleteIsWhole ==
    ASSUME NEW t, NEW p, ReportData(t, p), Coverage(t, p) = "COMPLETE"
    PROVE  /\ \A c \in t.channels, d \in PeriodDays(p) : t.row[c][d] # NULL
           /\ \A c \in t.channels, d \in PeriodDays(p) : t.row[c][d].whole
           /\ \A v \in TopOf(t, p) : VideoDelta(t, p, v) # NULL
<1> DEFINE complete == {k \in Cells(t, p) : t.row[k[1]][k[2]].whole}
           all == t.channels \X PeriodDays(p)
<1>1. /\ ~(\E v \in TopOf(t, p) : VideoDelta(t, p, v) = NULL)
      /\ Cardinality(complete) = Cardinality(t.channels) * Cardinality(PeriodDays(p))
  BY DEF Coverage
<1>2. IsFiniteSet(all) /\ Cardinality(all) = Cardinality(complete)
  <2>1. IsFiniteSet(t.channels) /\ IsFiniteSet(PeriodDays(p))
    BY FS_Interval DEF ReportData, PeriodDays
  <2> QED BY <2>1, <1>1, FS_Product
<1>3. complete \in SUBSET all
  BY DEF Cells
<1>4. complete = all
  BY <1>2, <1>3, FS_Subset
<1>5. ASSUME NEW c \in t.channels, NEW d \in PeriodDays(p)
      PROVE  t.row[c][d] # NULL /\ t.row[c][d].whole
  <2>1. <<c, d>> \in complete
    BY <1>4
  <2> QED BY <2>1 DEF Cells
<1> QED BY <1>1, <1>5

\* Whatever the model proposes, a report that is accepted tells what the tables hold.
THEOREM ReportsTell ==
    ASSUME NEW t, NEW p, ReportData(t, p), NEW report
    PROVE  ReportsTellTheData(t, p, report)
<1> DEFINE aggregate == Aggregate(t, p)
<1> SUFFICES ASSUME Outcome(report, aggregate, p.kind) = "SUCCESS"
             PROVE  /\ \A goal \in report.targets :
                         goal.reason.numbers \subseteq NumbersOf(t, p, goal.of) \cup Covered(t, p)
                    /\ \/ report.limitations # {}
                       \/ /\ \A c \in t.channels, d \in PeriodDays(p) : t.row[c][d] # NULL
                          /\ \A c \in t.channels, d \in PeriodDays(p) : t.row[c][d].whole
                          /\ \A v \in aggregate.videos : VideoDelta(t, p, v) # NULL
  BY DEF ReportsTellTheData, Covered
<1>1. Accepted(report, aggregate, p.kind) /\ aggregate.coverage # "INSUFFICIENT"
  BY DEF Outcome
<1>2. ASSUME NEW goal \in report.targets
      PROVE  goal.reason.numbers \subseteq NumbersOf(t, p, goal.of) \cup Covered(t, p)
  <2>1. goal.reason \in Claims(report)
    BY DEF Claims
  <2>2. goal.reason.cites \subseteq aggregate.evidence
    BY <1>1, <2>1 DEF Accepted, Supported
  <2>3. TargetGrounded(goal, aggregate)
    BY <1>1 DEF Accepted
  <2>4. SUFFICES ASSUME NEW n \in goal.reason.numbers
                 PROVE  n \in NumbersOf(t, p, goal.of) \cup Covered(t, p)
    OBVIOUS
  <2>5. PICK item \in goal.reason.cites : item.about \in {goal.of, Portfolio} /\ n \in item.numbers
    BY <2>3 DEF TargetGrounded, Quotable
  <2> QED BY <2>2, <2>5, EvidenceTells
<1>3. ASSUME report.limitations = {}
      PROVE  /\ \A c \in t.channels, d \in PeriodDays(p) : t.row[c][d] # NULL
             /\ \A c \in t.channels, d \in PeriodDays(p) : t.row[c][d].whole
             /\ \A v \in aggregate.videos : VideoDelta(t, p, v) # NULL
  <2>1. aggregate.coverage # "PARTIAL"
    BY <1>1, <1>3 DEF Accepted, SaysPartial
  <2>2. aggregate.coverage = Coverage(t, p) /\ aggregate.videos = TopOf(t, p)
    BY DEF Aggregate
  <2>3. Coverage(t, p) \in {"INSUFFICIENT", "PARTIAL", "COMPLETE"}
    BY DEF Coverage
  <2>4. Coverage(t, p) = "COMPLETE"
    BY <1>1, <2>1, <2>2, <2>3
  <2> QED BY <2>2, <2>4, CompleteIsWhole
<1> QED BY <1>2, <1>3

----------------------------------------------------------------------------
\* A screen's listing (ChannelListing). The first m of the selection, newest first.
FirstListed(m) ==
    [i \in 1..m |-> [id |-> NewestFirst[i], figure |-> selection[NewestFirst[i]].figure]]

\* So far, an inquiry that nothing came between has the first pages of the selection.
ListedSoFar ==
    /\ inquiry.page \in Nat \ {0}
    /\ \E m \in 0..Cardinality(InSelection) :
         /\ inquiry.items = FirstListed(m)
         /\ ~inquiry.ended => m = (inquiry.page - 1) * RowsPerRequest
         /\ inquiry.ended => m = Cardinality(InSelection) /\ inquiry.total = m

ListingRows == [figure : RowFigures \cup {NULL}]

ListingInv ==
    /\ selection \in [RowChannels -> {NULL} \cup ListingRows]
    /\ moved \/ ListedSoFar

LEMMA NewestIs ==
    /\ IsFiniteSet(InSelection) /\ Cardinality(InSelection) \in Nat
    /\ NewestFirst \in Seq(InSelection) /\ Len(NewestFirst) = Cardinality(InSelection)
    /\ DOMAIN NewestFirst = 1..Cardinality(InSelection)
    /\ \A i \in 1..Cardinality(InSelection) : NewestFirst[i] \in InSelection
    /\ \A c \in InSelection : \E i \in 1..Cardinality(InSelection) : NewestFirst[i] = c
    /\ \A i, j \in 1..Cardinality(InSelection) : NewestFirst[i] = NewestFirst[j] => i = j
<1> DEFINE S == InSelection
           n == Cardinality(S)
           before == {k \in S \X S : k[1] > k[2]}
<1>1. IsFiniteSet(S) /\ S \subseteq Int
  <2>1. S \in SUBSET RowChannels /\ IsFiniteSet(RowChannels) /\ RowChannels \subseteq Int
    BY ListingAssumption DEF InSelection
  <2> HIDE DEF S
  <2> QED BY <2>1, FS_Subset
<1>2. NewestFirst = Ordered(S, before)
  BY DEF NewestFirst
<1>3. NewestFirst \in [1..n -> S] \/ DOMAIN NewestFirst # 1..n \/ \E i \in 1..n : NewestFirst[i] \notin S
  BY DEF NewestFirst, Ordered
<1> HIDE DEF S
<1>4. \A x, y \in S : <<x, y>> \in before <=> x > y
  OBVIOUS
<1> HIDE DEF before
<1>5. StrictOrder(S, before)
  BY <1>1, <1>4 DEF StrictOrder
<1>6. /\ n \in Nat /\ DOMAIN NewestFirst = 1..n
      /\ \A i \in 1..n : NewestFirst[i] \in S
      /\ \A x \in S : \E i \in 1..n : NewestFirst[i] = x
      /\ \A i, j \in 1..n : i < j <=> <<NewestFirst[i], NewestFirst[j]>> \in before
  BY ONLY <1>1, <1>2, <1>5, OrderedIs
<1>7. ASSUME NEW i \in 1..n, NEW j \in 1..n, NewestFirst[i] = NewestFirst[j] PROVE i = j
  <2>1. NewestFirst[i] \in S /\ <<NewestFirst[i], NewestFirst[i]>> \notin before
    BY ONLY <1>1, <1>4, <1>6
  <2>2. ~(i < j) /\ ~(j < i)
    BY ONLY <1>6, <1>7, <2>1
  <2> QED BY ONLY <1>6, <2>2
<1>8. NewestFirst \in Seq(S) /\ Len(NewestFirst) = n
  <2>1. NewestFirst \in [1..n -> S]
    BY <1>3, <1>6
  <2> HIDE DEF n
  <2>2. NewestFirst \in Seq(S)
    BY ONLY <1>6, <2>1, SeqDef
  <2>3. Len(NewestFirst) \in Nat /\ DOMAIN NewestFirst = 1..Len(NewestFirst)
    BY ONLY <2>2, LenProperties
  <2> QED BY ONLY <1>6, <2>2, <2>3
<1> QED BY <1>1, <1>6, <1>7, <1>8 DEF S

\* A page that starts after the first m carries on from there.
LEMMA PageIs ==
    ASSUME NEW p \in Nat \ {0}, (p - 1) * RowsPerRequest <= Cardinality(InSelection)
    PROVE  LET n == Cardinality(InSelection)
               m == (p - 1) * RowsPerRequest
           IN  /\ Page(p) \in Seq(InSelection) /\ DOMAIN Page(p) = 1..Len(Page(p))
               /\ Len(Page(p)) \in Nat /\ m + Len(Page(p)) <= n /\ m \in Nat
               /\ m + Len(Page(p)) = p * RowsPerRequest \/ m + Len(Page(p)) = n
               /\ (Page(p) = <<>>) <=> (Len(Page(p)) = 0)
               /\ Len(Page(p)) = 0 => m = n
               /\ \A i \in 1..Len(Page(p)) : Page(p)[i] = NewestFirst[m + i]
<1> DEFINE n == Cardinality(InSelection)
           m == (p - 1) * RowsPerRequest
           r == p * RowsPerRequest
           b == IF r < n THEN r ELSE n
<1>1. RowsPerRequest \in Nat \ {0} /\ n \in Nat
  BY ListingAssumption, NewestIs
<1>2. m \in Nat /\ r = m + RowsPerRequest
  BY <1>1
<1>3. Page(p) = SubSeq(NewestFirst, m + 1, b)
  BY NewestIs DEF Page
<1>4. m <= n
  OBVIOUS
<1> HIDE DEF m, r, n
<1>5. m <= b /\ b <= n /\ b \in Nat /\ (b = r \/ b = n) /\ m + 1 \in Int /\ b \in Int
  BY ONLY <1>1, <1>2, <1>4
<1> HIDE DEF b
<1>6. \A i \in (m + 1)..b : NewestFirst[i] \in InSelection
  <2>1. \A i \in 1..n : NewestFirst[i] \in InSelection
    BY NewestIs DEF n
  <2>2. \A i \in (m + 1)..b : i \in 1..n
    BY ONLY <1>1, <1>2, <1>5
  <2> QED BY ONLY <2>1, <2>2
<1> DEFINE f == m + 1
           rows == SubSeq(NewestFirst, f, b)
<1>7. /\ rows \in Seq(InSelection) /\ Len(rows) = IF f <= b THEN b - f + 1 ELSE 0
      /\ \A i \in 1..(b - f + 1) : rows[i] = NewestFirst[f + i - 1]
  <2> HIDE DEF f
  <2>1. f \in Int /\ b \in Int /\ \A i \in f..b : NewestFirst[i] \in InSelection
    BY <1>5, <1>6 DEF f
  <2> QED BY ONLY <2>1, SubSeqProperties
<1> HIDE DEF rows
<1>8. Len(rows) = b - m /\ Len(rows) \in Nat
  BY ONLY <1>2, <1>5, <1>7
<1>9. \A i \in 1..Len(rows) : rows[i] = NewestFirst[m + i]
  <2> SUFFICES ASSUME NEW i \in 1..Len(rows) PROVE rows[i] = NewestFirst[m + i]
    OBVIOUS
  <2>1. i \in 1..(b - f + 1) /\ f + i - 1 = m + i
    BY ONLY <1>2, <1>5, <1>8
  <2>2. rows[i] = NewestFirst[f + i - 1]
    BY ONLY <1>7, <2>1
  <2> QED BY ONLY <2>1, <2>2
<1>10. rows = <<>> <=> Len(rows) = 0
  BY ONLY <1>7, EmptySeq, <1>8
<1>11. DOMAIN rows = 1..Len(rows)
  BY ONLY <1>7, LenProperties
<1>12. m + Len(rows) <= n /\ (m + Len(rows) = r \/ m + Len(rows) = n) /\ (Len(rows) = 0 => m = n)
  BY ONLY <1>1, <1>2, <1>5, <1>8
<1> QED BY <1>2, <1>3, <1>7, <1>8, <1>9, <1>10, <1>11, <1>12 DEF rows, f, m, r, n
LEMMA NothingListed == inquiry = NotListed => ListedSoFar
<1> SUFFICES ASSUME inquiry = NotListed PROVE ListedSoFar
  OBVIOUS
<1>1. inquiry.items = <<>> /\ inquiry.page = 1 /\ inquiry.ended = FALSE
  BY DEF NotListed
<1>2. <<>> = FirstListed(0)
  BY DEF FirstListed
<1>3. 0 \in 0..Cardinality(InSelection) /\ (1 - 1) * RowsPerRequest = 0
  BY NewestIs, ListingAssumption
<1> QED BY <1>1, <1>2, <1>3 DEF ListedSoFar

\* One listing after another.
LEMMA ListsFollow ==
    ASSUME NEW m \in Nat, NEW w \in Nat, NEW f
    PROVE  /\ [i \in 1..m |-> f[i]] \o [i \in 1..w |-> f[m + i]] = [i \in 1..(m + w) |-> f[i]]
           /\ Len([i \in 1..(m + w) |-> f[i]]) = m + w
<1> DEFINE s == [i \in 1..m |-> f[i]]
           t == [i \in 1..w |-> f[m + i]]
           u == [i \in 1..(m + w) |-> f[i]]
           T == {f[i] : i \in 1..(m + w)}
<1>1. s \in [1..m -> T] /\ t \in [1..w -> T] /\ u \in [1..(m + w) -> T]
  OBVIOUS
<1>2. /\ \A i \in 1..m : s[i] = f[i]
      /\ \A i \in 1..w : t[i] = f[m + i]
      /\ \A i \in 1..(m + w) : u[i] = f[i]
  OBVIOUS
<1> HIDE DEF s, t, u, T
<1>3. s \in Seq(T) /\ t \in Seq(T) /\ u \in Seq(T)
  <2> DEFINE l == m + w
  <2>1. l \in Nat
    OBVIOUS
  <2> HIDE DEF l
  <2> QED BY <1>1, <2>1, SeqDef DEF l
<1>4. Len(s) = m /\ Len(t) = w /\ Len(u) = m + w
  <2>1. DOMAIN s = 1..m /\ DOMAIN t = 1..w /\ DOMAIN u = 1..(m + w)
    BY ONLY <1>1
  <2>2. /\ DOMAIN s = 1..Len(s) /\ DOMAIN t = 1..Len(t) /\ DOMAIN u = 1..Len(u)
        /\ Len(s) \in Nat /\ Len(t) \in Nat /\ Len(u) \in Nat
    BY ONLY <1>3, LenProperties
  <2> QED BY <2>1, <2>2
<1>5. /\ s \o t \in Seq(T) /\ Len(s \o t) = m + w
      /\ \A i \in 1..(m + w) : (s \o t)[i] = IF i <= m THEN s[i] ELSE t[i - m]
  BY ONLY <1>3, <1>4, ConcatProperties
<1>6. \A i \in 1..(m + w) : (s \o t)[i] = u[i]
  <2> SUFFICES ASSUME NEW i \in 1..(m + w) PROVE (s \o t)[i] = u[i]
    OBVIOUS
  <2>1. CASE i <= m
    BY <1>2, <1>5, <2>1
  <2>2. CASE ~(i <= m)
    <3>1. i - m \in 1..w /\ m + (i - m) = i
      BY <2>2
    <3>2. (s \o t)[i] = t[i - m] /\ t[i - m] = f[m + (i - m)]
      BY <1>2, <1>5, <2>2, <3>1
    <3> QED BY <1>2, <3>1, <3>2
  <2> QED BY <2>1, <2>2
<1>7. s \o t = u
  <2>1. Len(s \o t) = Len(u) /\ \A i \in 1..Len(s \o t) : (s \o t)[i] = u[i]
    BY <1>4, <1>5, <1>6
  <2> QED BY ONLY <1>3, <1>5, <2>1, SeqEqual
<1> QED BY <1>4, <1>7 DEF s, t, u

LEMMA SelectionStays ==
    UNCHANGED selection => /\ \A k : FirstListed(k)' = FirstListed(k)
                           /\ Cardinality(InSelection)' = Cardinality(InSelection)
<1> SUFFICES ASSUME UNCHANGED selection
             PROVE  /\ \A k : FirstListed(k)' = FirstListed(k)
                    /\ Cardinality(InSelection)' = Cardinality(InSelection)
  OBVIOUS
<1>1. NewestFirst' = NewestFirst /\ InSelection' = InSelection
  BY DEF NewestFirst, InSelection
<1> QED BY <1>1 DEF FirstListed

\* The page asked for is the next of those listed so far.
LEMMA PageListed == ListedSoFar /\ AsksPage => ListedSoFar'
<1> SUFFICES ASSUME ListedSoFar, AsksPage PROVE ListedSoFar'
  OBVIOUS
<1> DEFINE n == Cardinality(InSelection)
           p == inquiry.page
           m == (p - 1) * RowsPerRequest
           rows == Page(p)
           new == [i \in DOMAIN rows |-> [id |-> rows[i], figure |-> selection[rows[i]].figure]]
           longer == inquiry.items \o new
           l == m + Len(rows)
           line(c) == [id |-> c, figure |-> selection[c].figure]
<1>1. n \in Nat /\ p \in Nat \ {0} /\ ~inquiry.ended /\ m <= n /\ inquiry.items = FirstListed(m)
  <2>1. PICK k \in 0..Cardinality(InSelection) :
          inquiry.items = FirstListed(k) /\ (~inquiry.ended => k = (inquiry.page - 1) * RowsPerRequest)
    BY DEF ListedSoFar
  <2>2. ~inquiry.ended
    BY DEF AsksPage
  <2>3. k = m /\ Cardinality(InSelection) \in Nat
    BY <2>1, <2>2, NewestIs
  <2>4. k <= n
    BY ONLY <2>3, k \in 0..n
  <2> QED BY <2>1, <2>2, <2>3, <2>4 DEF ListedSoFar
<1>2. /\ m \in Nat /\ Len(rows) \in Nat /\ DOMAIN rows = 1..Len(rows) /\ l <= n
      /\ l = p * RowsPerRequest \/ l = n
      /\ rows = <<>> <=> Len(rows) = 0
      /\ Len(rows) = 0 => m = n
      /\ \A i \in 1..Len(rows) : rows[i] = NewestFirst[m + i]
  BY <1>1, PageIs
<1>3. inquiry' = [items |-> longer, total |-> n, page |-> p + 1, ended |-> Len(longer) >= n \/ rows = <<>>]
  BY DEF AsksPage
<1>4. UNCHANGED selection
  BY DEF AsksPage
<1>5. new = [i \in 1..Len(rows) |-> line(NewestFirst[m + i])]
  BY <1>2
<1>6. FirstListed(m) = [i \in 1..m |-> line(NewestFirst[i])] /\ FirstListed(l) = [i \in 1..l |-> line(NewestFirst[i])]
  BY DEF FirstListed
<1>7. longer = FirstListed(l) /\ Len(longer) = l
  <2> DEFINE w == Len(rows)
             f == FirstListed(l)
  <2>1. m \in Nat /\ w \in Nat /\ l = m + w
    BY <1>2
  <2>2. \A i \in 1..l : f[i] = line(NewestFirst[i])
    BY <1>6
  <2> HIDE DEF line, f, new
  <2>3. f = [i \in 1..l |-> f[i]]
    BY <1>6, <2>2 DEF f
  <2>4. inquiry.items = [i \in 1..m |-> f[i]]
    <3>1. \A i \in 1..m : i \in 1..l
      BY ONLY <2>1
    <3>2. \A i \in 1..m : f[i] = line(NewestFirst[i])
      BY ONLY <2>2, <3>1
    <3> QED BY <1>1, <1>6, <3>2
  <2>5. new = [i \in 1..w |-> f[m + i]]
    <3>1. \A i \in 1..w : m + i \in 1..l
      BY ONLY <2>1
    <3>2. \A i \in 1..w : f[m + i] = line(NewestFirst[m + i])
      BY ONLY <2>2, <3>1
    <3> QED BY <1>5, <3>2
  <2> HIDE DEF l, m, w
  <2>6. /\ [i \in 1..m |-> f[i]] \o [i \in 1..w |-> f[m + i]] = [i \in 1..(m + w) |-> f[i]]
        /\ Len([i \in 1..(m + w) |-> f[i]]) = m + w
    BY ONLY <2>1, ListsFollow
  <2>7. longer = f /\ Len(f) = l
    BY <2>1, <2>3, <2>4, <2>5, <2>6
  <2> QED BY ONLY <2>7 DEF f
<1> HIDE DEF longer, l, n, rows
<1>8. inquiry'.ended <=> l = n
  <2>1. l = n \/ Len(rows) # 0
    BY <1>1, <1>2 DEF l
  <2>2. inquiry'.ended = (Len(longer) >= n \/ rows = <<>>)
    BY ONLY <1>3, Zenon
  <2>3. (l >= n \/ rows = <<>>) <=> l = n
    BY <1>1, <1>2, <2>1 DEF l
  <2> QED BY ONLY <1>7, <2>2, <2>3
<1>9. inquiry'.page = p + 1 /\ inquiry'.total = n /\ inquiry'.items = FirstListed(l)
  BY ONLY <1>3, <1>7
<1>10. (\A k : FirstListed(k)' = FirstListed(k)) /\ Cardinality(InSelection)' = n
  BY <1>4, SelectionStays DEF n
<1>11. l \in 0..n /\ ~inquiry'.ended => l = (p + 1 - 1) * RowsPerRequest
  BY <1>1, <1>2, <1>8
<1>12. p + 1 \in Nat \ {0} /\ l \in Nat /\ l \in 0..n
  BY <1>1, <1>2 DEF l
<1> QED BY <1>8, <1>9, <1>10, <1>11, <1>12 DEF ListedSoFar

LEMMA ListingInvInit == ListingInit => ListingInv
<1> SUFFICES ASSUME ListingInit PROVE ListingInv
  OBVIOUS
<1>1. selection \in [RowChannels -> {NULL} \cup ListingRows]
  BY DEF ListingInit, ListingRows
<1>2. ListedSoFar
  BY NothingListed DEF ListingInit
<1> QED BY <1>1, <1>2 DEF ListingInv

LEMMA ListingInvNext == ListingInv /\ [ListingNext]_inquiryVars => ListingInv'
<1> SUFFICES ASSUME ListingInv, [ListingNext]_inquiryVars PROVE ListingInv'
  OBVIOUS
<1>0. (inquiry = NotListed => ListedSoFar)'
  BY NothingListed, PTL
<1>1. CASE UNCHANGED inquiryVars
  <2>1. UNCHANGED <<selection, inquiry, moved>>
    BY <1>1 DEF inquiryVars
  <2>2. ListedSoFar => ListedSoFar'
    BY <2>1, SelectionStays DEF ListedSoFar
  <2> QED BY <2>1, <2>2 DEF ListingInv, ListingRows
<1>2. ASSUME NEW c \in RowChannels, Changes(c) PROVE ListingInv'
  <2>1. selection' \in [RowChannels -> {NULL} \cup ListingRows]
    BY <1>2 DEF Changes, ListingInv, ListingRows
  <2>2. moved' \/ inquiry' = NotListed
    BY <1>2 DEF Changes
  <2> QED BY <1>0, <2>1, <2>2 DEF ListingInv
<1>3. CASE AsksPage
  BY <1>3, PageListed DEF ListingInv, AsksPage
<1>4. CASE ListsAgain
  <2>1. inquiry' = NotListed /\ selection' = selection
    BY <1>4 DEF ListsAgain
  <2> QED BY <1>0, <2>1 DEF ListingInv
<1> QED BY <1>1, <1>2, <1>3, <1>4 DEF ListingNext

\* Every channel of the selection, once, and the sum of what is known of them.
LEMMA ListingInvShows == ListingInv => ListsTheSelection
<1> SUFFICES ASSUME ListingInv, inquiry.ended, ~moved PROVE ListsTheSelection
  BY DEF ListsTheSelection
<1> DEFINE n == Cardinality(InSelection)
           newest == NewestFirst
           value == [c \in InSelection |-> selection[c].figure]
           known == {c \in InSelection : value[c] # NULL}
           figures == ListedFigures
           lines == inquiry.items
<1> SUFFICES /\ {lines[i].id : i \in DOMAIN lines} = InSelection
             /\ Len(lines) = Cardinality(InSelection)
             /\ CardTotal = SumOver(value, known)
             /\ WholeTotal <=> known = InSelection
  BY Zenon DEF ListsTheSelection, SumOver
<1>1. n \in Nat /\ lines = FirstListed(n) /\ inquiry.total = n
  BY NewestIs DEF ListingInv, ListedSoFar
<1>2. \A c \in InSelection : value[c] \in RowFigures \cup {NULL}
  BY DEF ListingInv, ListingRows, InSelection
<1>3. DOMAIN lines = 1..n /\ \A i \in 1..n : lines[i] = [id |-> newest[i], figure |-> value[newest[i]]]
  BY <1>1, NewestIs DEF FirstListed, InSelection
<1>4. /\ \A i \in 1..n : newest[i] \in InSelection
      /\ \A c \in InSelection : \E i \in 1..n : newest[i] = c
      /\ \A i, j \in 1..n : newest[i] = newest[j] => i = j
      /\ IsFiniteSet(InSelection)
  BY NewestIs
<1> HIDE DEF value, newest, n
<1>5. DOMAIN figures = 1..n /\ \A i \in 1..n : figures[i] = value[newest[i]]
  <2>1. ASSUME NEW i \in 1..n PROVE lines[i].figure = value[newest[i]]
    <3>1. lines[i] = [id |-> newest[i], figure |-> value[newest[i]]]
      BY <1>3
    <3> QED BY ONLY <3>1
  <2> QED BY <1>3, <2>1 DEF ListedFigures
<1>6. {lines[i].id : i \in DOMAIN lines} = InSelection
  <2>1. ASSUME NEW i \in 1..n PROVE lines[i].id = newest[i]
    <3>1. lines[i] = [id |-> newest[i], figure |-> value[newest[i]]]
      BY <1>3
    <3> QED BY ONLY <3>1
  <2> QED BY <1>3, <1>4, <2>1
<1>7. Len(lines) = n /\ (lines = <<>> <=> n = 0)
  <2>1. lines = [i \in 1..n |-> lines[i]]
    BY <1>1 DEF FirstListed
  <2>2. Len([i \in 1..(0 + n) |-> lines[i]]) = 0 + n
    BY <1>1, ListsFollow
  <2>3. Len(lines) = n
    BY <1>1, <2>1, <2>2
  <2>4. lines = <<>> <=> DOMAIN lines = {}
    BY <2>1
  <2> QED BY <1>1, <1>3, <2>3, <2>4
<1> DEFINE some == KnownItems
<1>8. \A i : i \in some <=> i \in 1..n /\ newest[i] \in known
  BY <1>4, <1>5 DEF KnownItems
<1>9. IsFiniteSet(1..n) /\ some \in SUBSET (1..n) /\ IsFiniteSet(some) /\ Cardinality(1..n) = n
  <2>1. IsFiniteSet(1..n) /\ Cardinality(1..n) = n
    BY <1>1, FS_Interval
  <2>2. some \in SUBSET (1..n)
    BY <1>8
  <2> QED BY ONLY <2>1, <2>2, FS_Subset
<1>10. SumOver(figures, some) = SumOver(value, known)
  <2>1. {newest[i] : i \in some} = known
    BY <1>4, <1>8
  <2>2. \A i \in some : value[newest[i]] \in Int /\ figures[i] = value[newest[i]]
    BY <1>2, <1>5, <1>8, ListingAssumption
  <2>3. \A i, j \in some : newest[i] = newest[j] => i = j
    BY <1>4, <1>8
  <2> HIDE DEF some, figures, known
  <2>4. IsFiniteSet(some)
    BY ONLY <1>9
  <2>5. SumOver(figures, some) = SumOver(value, {newest[i] : i \in some})
    BY ONLY <2>2, <2>3, <2>4, SumRenamed
  <2> QED BY <2>1, <2>5
<1>11. some = {} <=> known = {}
  BY <1>4, <1>8
<1>12. SumOver(value, known) \in Int /\ (known = {} => SumOver(value, known) = 0)
  <2>1. known \in SUBSET InSelection /\ \A c \in known : value[c] \in Int
    BY <1>2, ListingAssumption
  <2> HIDE DEF known
  <2>2. IsFiniteSet(known)
    BY ONLY <1>4, <2>1, FS_Subset
  <2> QED BY ONLY <2>1, <2>2, SumType, SumOfNone
<1>13. CardTotal = SumOver(value, known)
  <2>1. AllListed
    BY <1>1, <1>7 DEF AllListed
  <2>2. SumOfKnown = IF some = {} /\ lines # <<>> THEN NULL ELSE SumOver(figures, some)
    BY DEF SumOfKnown, SumOver
  <2> HIDE DEF some, figures, known
  <2>3. SumOfKnown = IF some = {} /\ lines # <<>> THEN NULL ELSE SumOver(value, known)
    BY <1>10, <2>2
  <2>4. SumOver(value, known) # NULL
    BY <1>12, ListingAssumption
  <2> QED BY <1>11, <1>12, <2>1, <2>3, <2>4 DEF CardTotal
<1>14. WholeTotal <=> known = InSelection
  <2>1. WholeTotal <=> Cardinality(some) = Cardinality(1..n)
    BY <1>1, <1>7, <1>9 DEF WholeTotal, AllListed
  <2>2. (\A i \in 1..n : i \in some) <=> known = InSelection
    BY <1>4, <1>8
  <2> HIDE DEF some, known
  <2>3. Cardinality(some) = Cardinality(1..n) <=> some = 1..n
    BY ONLY <1>9, FS_Subset
  <2> QED BY <1>9, <2>1, <2>2, <2>3
<1> QED BY <1>6, <1>7, <1>13, <1>14 DEF n

----------------------------------------------------------------------------
\* Side by side (MCConsole). A step of one part is a step of it, and of no other.
LEMMA PartsStep ==
    [Next]_vars =>
        /\ [FiguresNext]_figureVars /\ [ScreenNext]_screenVars /\ [AuthNext]_authVars
        /\ [UsersNext]_usersVars /\ [GroupsNext]_groupsVars /\ [ChannelsNext]_channelsVars
        /\ [AiTabNext]_aiTabVars /\ [SettingsNext]_settingVars /\ [ClassifyNext]_classifyVars
        /\ [ListingNext]_inquiryVars
<1> SUFFICES ASSUME [Next]_vars
             PROVE  /\ [FiguresNext]_figureVars /\ [ScreenNext]_screenVars /\ [AuthNext]_authVars
                    /\ [UsersNext]_usersVars /\ [GroupsNext]_groupsVars /\ [ChannelsNext]_channelsVars
                    /\ [AiTabNext]_aiTabVars /\ [SettingsNext]_settingVars /\ [ClassifyNext]_classifyVars
                    /\ [ListingNext]_inquiryVars
  OBVIOUS
<1>1. CASE UNCHANGED vars
  BY <1>1 DEF vars, aiVars, settingVars, classifyVars
<1>2. CASE Next
  <2>1. [FiguresNext]_figureVars
    BY <1>2 DEF Next
  <2>2. [ScreenNext]_screenVars
    BY <1>2 DEF Next
  <2>3. [AuthNext]_authVars
    BY <1>2 DEF Next
  <2>4. [UsersNext]_usersVars
    BY <1>2 DEF Next
  <2>5. [GroupsNext]_groupsVars
    BY <1>2 DEF Next
  <2>6. [ChannelsNext]_channelsVars
    BY <1>2 DEF Next
  <2>7. [AiTabNext]_aiTabVars
    BY <1>2 DEF Next
  <2>8. SettingsNext => UNCHANGED classifyVars
    BY DEF SettingsNext, WritesSave, AsksSave
  <2>9. ClassifyNext => UNCHANGED settingVars
    BY DEF ClassifyNext, SourceChanges, ReadsSource, LooksCached, Persists, ClassifyFails, EndsCall
  <2>10. UNCHANGED aiVars => UNCHANGED settingVars /\ UNCHANGED classifyVars
    BY DEF aiVars, settingVars, classifyVars
  <2>11. SettingsNext \/ ClassifyNext \/ UNCHANGED aiVars
    BY <1>2 DEF Next
  <2>12. [SettingsNext]_settingVars /\ [ClassifyNext]_classifyVars
    BY <2>8, <2>9, <2>10, <2>11
  <2>13. [ListingNext]_inquiryVars
    BY <1>2 DEF Next
  <2> QED BY <2>1, <2>2, <2>3, <2>4, <2>5, <2>6, <2>7, <2>12, <2>13
<1> QED BY <1>1, <1>2

ScreensInv == ScreenInv /\ AuthInv /\ UsersInv /\ GroupsInv /\ ChannelsInv /\ TabInv

LEMMA ScreensInvInit == Init => ScreensInv
  BY ScreenInvInit, AuthInvInit, UsersInvInit, GroupsInvInit, ChannelsInvInit, TabInvInit
     DEF Init, ScreensInv

LEMMA ScreensInvNext == ScreensInv /\ [Next]_vars => ScreensInv'
  BY PartsStep, ScreenInvNext, AuthInvNext, UsersInvNext, GroupsInvNext, ChannelsInvNext, TabInvNext
     DEF ScreensInv

\* Whatever is selected, submitted, answered late, lost or changed by another meanwhile,
\* every screen shows what it names: the dashboard its selection, a tab its user, the
\* administrator's screens what the server holds, a provider's tab its own.
THEOREM ScreensShow == Spec => []ScreensShowTheirOwn
<1>1. ScreensInv => ScreensShowTheirOwn
  BY UsersInvShows, AuthInvShows, GroupsInvShows, ChannelsInvShows, TabInvOffers
     DEF ScreensInv, ScreensShowTheirOwn, ScreenInv
<1> QED BY <1>1, ScreensInvInit, ScreensInvNext, PTL DEF Spec

LEMMA ServiceInvNext == SettingsInv /\ CallsInv /\ [Next]_vars => SettingsInv' /\ CallsInv'
  BY PartsStep, SettingsInvNext, CallsInvNext

\* No step, of whichever tabs and administrators interleave, changes what it was not asked
\* to: the revenue of a past day, the settings of an AI provider, or who is signed in.
THEOREM NothingIsUnasked == Spec => NothingUnasked
<1>1. Init => ScreensInv /\ SettingsInv /\ CallsInv
  BY ScreensInvInit, ServiceInvInit DEF Init
<1>2. ScreensInv /\ SettingsInv /\ CallsInv /\ [Next]_vars => (ScreensInv /\ SettingsInv /\ CallsInv)'
  BY ScreensInvNext, ServiceInvNext
<1>3. ScreensInv /\ SettingsInv /\ [Next]_vars => HistoryStands /\ SavesWhatIsAsked /\ LeavesOnlyWhenTold
  BY PartsStep, ChannelsHistory, SavesAsAsked, AuthLeaves DEF ScreensInv
<1> QED BY <1>1, <1>2, <1>3, PTL DEF Spec, NothingUnasked

----------------------------------------------------------------------------
\* What is computed is of what was asked.
AskedOf ==
    /\ part = "router" /\ answer # NULL => input \in RouterInputs /\ answer = RouteOf(input)
    /\ part = "report" /\ answer # NULL => input \in ReportInputs
    /\ part = "trends" /\ answer # NULL => input \in TrendInputs /\ answer = Trends(input, 0)
    /\ part = "revenue" /\ answer # NULL => input \in RevenueInputs /\ answer = Revenue(input, 1)
    /\ part = "leaders" /\ answer # NULL => input \in LeaderInputs /\ answer = Leaders(input)
    /\ part = "rankings" /\ answer # NULL => input \in RankingInputs
    /\ part = "intelligence" /\ answer # NULL =>
         /\ input \in IntelligenceInputs
         /\ answer = IntelligenceOf(input.tables, 1, 0, input.old, input.exact, input.catalog)

LEMMA AskedOfInit == Init => AskedOf
  BY DEF Init, FiguresInit, AskedOf

LEMMA AskedOfNext == AskedOf /\ [Next]_vars => AskedOf'
<1> SUFFICES ASSUME AskedOf, [FiguresNext]_figureVars PROVE AskedOf'
  BY PartsStep
<1>1. CASE AskAi
  BY <1>1 DEF AskAi, Computes, AskedOf
<1>2. CASE ReportProposed
  BY <1>2 DEF ReportProposed, AskedOf
<1>3. CASE AskTrends
  BY <1>3 DEF AskTrends, Computes, AskedOf
<1>4. CASE AskRevenue
  BY <1>4 DEF AskRevenue, Computes, AskedOf
<1>5. CASE AskLeaders
  BY <1>5 DEF AskLeaders, Computes, AskedOf
<1>6. CASE AskIntelligence
  BY <1>6 DEF AskIntelligence, Computes, AskedOf
<1>7. CASE AskRanking
  BY <1>7 DEF AskRanking, Computes, AskedOf
<1>8. CASE UNCHANGED figureVars
  BY <1>8 DEF figureVars, AskedOf
<1> QED BY <1>1, <1>2, <1>3, <1>4, <1>5, <1>6, <1>7, <1>8 DEF FiguresNext

\* The worker's primary is one of the providers, whatever their keys and priorities.
LEMMA PrimaryIsOne ==
    ASSUME NEW settings, NEW clients, \A p \in AiProviders : Priority(settings, p) \in Int
    PROVE  WorkerPrimary(settings, clients) \in AiProviders
<1> DEFINE ahead(p) ==
             IF Configured(clients[p]) # Configured(clients[Other(p)]) THEN Configured(clients[p])
             ELSE IF Priority(settings, p) # Priority(settings, Other(p))
             THEN Priority(settings, p) < Priority(settings, Other(p))
             ELSE p = "GEMINI"
<1>1. Other("GEMINI") = "NVIDIA" /\ Other("NVIDIA") = "GEMINI"
  BY DEF Other
<1>2. \A p \in AiProviders : Configured(clients[p]) \in BOOLEAN
  BY DEF Configured
<1>3. ahead("GEMINI") \/ ahead("NVIDIA")
  BY <1>1, <1>2 DEF AiProviders
<1>4. \E p \in AiProviders : ahead(p)
  BY <1>3 DEF AiProviders
<1>5. WorkerPrimary(settings, clients) = CHOOSE p \in AiProviders : ahead(p)
  BY DEF WorkerPrimary
<1> HIDE DEF ahead
<1> QED BY <1>4, <1>5

\* What the router is asked with: settings, wires and roles of the two providers.
LEMMA RouterInputsAre ==
    ASSUME NEW i \in RouterInputs
    PROVE  /\ \A p \in AiProviders :
                /\ i.settings[p] # NULL => i.settings[p].priority \in Int
                /\ \E first, second \in Wires : i.wires[p] = <<first, second>>
           /\ \A r \in Roles : i.roles[r] # NULL => i.roles[r].provider \in AiProviders
<1>1. PICK g \in StoredSettings({0, 1}, {NULL, "own"}), n \in StoredSettings({0}, {"own"}),
           w \in WirePairs, x \in WirePairs :
        /\ i.settings = ByProvider(g, n) /\ i.wires = ByProvider(w, x)
        /\ i.roles \in StoredRoles
  <2>1. PICK g \in StoredSettings({0, 1}, {NULL, "own"}), n \in StoredSettings({0}, {"own"}),
             e \in Environments, roles \in StoredRoles, worker \in BOOLEAN,
             task \in {"CHANNEL_CLASSIFICATION", "DAILY_REPORT"}, w \in WirePairs, x \in WirePairs :
          i = [settings |-> ByProvider(g, n), environment |-> e, roles |-> roles, task |-> task,
               worker |-> worker, wires |-> ByProvider(w, x)]
    BY DEF RouterInputs
  <2>2. i.settings = ByProvider(g, n) /\ i.wires = ByProvider(w, x) /\ i.roles = roles
    BY <2>1
  <2> QED BY <2>2
<1>2. \A s \in {g, n} : s # NULL => s.priority \in Int
  <2>1. ASSUME NEW priorities, priorities \subseteq Int, NEW own, NEW s \in StoredSettings(priorities, own),
               s # NULL
        PROVE  s.priority \in Int
    <3>1. PICK priority \in priorities :
            \E key, enabled \in BOOLEAN, model \in own :
              s = [key |-> key, enabled |-> enabled, priority |-> priority, models |-> Models(model)]
      BY <2>1 DEF StoredSettings, Optional
    <3> QED BY <2>1, <3>1
  <2>2. {0, 1} \subseteq Int /\ {0} \subseteq Int
    OBVIOUS
  <2> QED BY <2>1, <2>2
<1>3. \A y \in WirePairs : \E first, second \in Wires : y = <<first, second>>
  BY DEF WirePairs, Wires
<1>4. \A roles \in StoredRoles, r \in Roles : roles[r] # NULL => roles[r].provider \in AiProviders
  BY DEF StoredRoles, AiProviders
<1> QED BY <1>1, <1>2, <1>3, <1>4 DEF ByProvider

\* Who answers an AI request is enabled, has a key and sent what it is said to have sent,
\* and no provider that is out of reach hides another that would answer; and a
\* classification is of the data as they were when it was asked.
THEOREM AiAnswers == Spec => []AiAnswersHold
<1>1. ASSUME AskedOf, Answered("router")
      PROVE  AnswerAttributed(ClientsOf(input), input.settings, input.wires, answer)
  <2> DEFINE i == input
             clients == ClientsOf(i)
             primary == IF i.worker THEN WorkerPrimary(i.settings, clients) ELSE "GEMINI"
             roles == IF i.worker THEN i.roles ELSE ApiRoles(i.roles, i.environment, clients)
  <2>1. i \in RouterInputs /\ answer = RouteOf(i)
    BY <1>1 DEF AskedOf, Answered
  <2>2. answer = Route(clients, primary, roles, i.task, i.wires)
    BY <2>1 DEF RouteOf
  <2>3. ASSUME NEW p \in AiProviders
        PROVE  /\ \E key, model : clients[p] = [key |-> key, model |-> model]
               /\ clients[p].model # NULL
               /\ clients[p].key /\ i.settings[p] # NULL => i.settings[p].enabled
    <3> DEFINE key == KeyOf(i.settings[p], i.environment[p])
               best == [q \in AiProviders |-> "best"]
               model == ModelOf(p, i.settings[p], i.environment[p], best)
    <3>1. clients[p] = [key |-> key, model |-> model]
      BY DEF ClientsOf, Clients
    <3>2. model # NULL
      <4>1. best[p] # NULL
        BY RecommendedAssumption
      <4> HIDE DEF best
      <4> QED BY <4>1 DEF ModelOf
    <3>3. key /\ i.settings[p] # NULL => i.settings[p].enabled
      BY DEF KeyOf
    <3> HIDE DEF key, model
    <3>4. clients[p].key = key /\ clients[p].model = model
      BY <3>1
    <3> QED BY <3>1, <3>2, <3>3, <3>4
  <2>4. primary \in AiProviders
    <3>1. \A p \in AiProviders : Priority(i.settings, p) \in Int
      BY <2>1, RouterInputsAre DEF Priority
    <3>2. "GEMINI" \in AiProviders
      BY DEF AiProviders
    <3> QED BY <3>1, <3>2, PrimaryIsOne
  <2>5. ASSUME NEW r \in Roles, roles[r] # NULL
        PROVE  roles[r].provider \in AiProviders
    <3>1. CASE i.worker
      BY <2>1, <2>5, <3>1, RouterInputsAre
    <3>2. CASE ~i.worker
      <4>1. i.roles[r] # NULL => i.roles[r].provider \in AiProviders
        BY <2>1, RouterInputsAre
      <4>2. roles[r] = ApiRoles(i.roles, i.environment, clients)[r]
        BY <3>2
      <4> HIDE DEF clients, roles
      <4> QED BY <2>5, <4>1, <4>2 DEF ApiRoles, AiProviders
    <3> QED BY <3>1, <3>2
  <2>6. \A p \in AiProviders : \E first, second \in Wires : i.wires[p] = <<first, second>>
    BY <2>1, RouterInputsAre
  <2> HIDE DEF clients, primary, roles
  <2>7. AnswerAttributed(clients, i.settings, i.wires, Route(clients, primary, roles, i.task, i.wires))
    BY <2>3, <2>4, <2>5, <2>6, RouteAttributes
  <2> QED BY <2>2, <2>7 DEF clients
<1>2. AskedOf /\ CallsInv => AiAnswersHold
  BY <1>1 DEF AiAnswersHold, RoutesHold, CallsInv
<1>3. Init => AskedOf /\ SettingsInv /\ CallsInv
  BY AskedOfInit, ServiceInvInit DEF Init
<1>4. AskedOf /\ SettingsInv /\ CallsInv /\ [Next]_vars => (AskedOf /\ SettingsInv /\ CallsInv)'
  BY AskedOfNext, ServiceInvNext
<1> QED BY <1>2, <1>3, <1>4, PTL DEF Spec

\* Daily rows as they are kept: figures where they are known, as in what is whole, and a
\* change is that of the figures of its day and of the day before.
RowsAre(rows) ==
    \A d \in 0..2 : rows[d] # NULL =>
        /\ Figure(rows[d].count) /\ (rows[d].whole => rows[d].count # NULL)
        /\ rows[d].delta # NULL =>
              /\ d > 0 /\ rows[d].count # NULL /\ rows[d - 1] # NULL /\ rows[d - 1].count # NULL
              /\ rows[d].delta = rows[d].count - rows[d - 1].count

LEMMA RowsOfAre ==
    ASSUME NEW counts, DOMAIN counts = 0..2, \A d \in 0..2 : Figure(counts[d]), NEW lost, NEW partial
    PROVE  RowsAre(RowsOf(counts, lost, partial))
<1> DEFINE rows == RowsOf(counts, lost, partial)
           known(d) == d > 0 /\ d # lost /\ {counts[d], counts[d - 1]} \cap {NULL, NoRow} = {}
           delta(d) == IF known(d) THEN counts[d] - counts[d - 1] ELSE NULL
           whole(d) == counts[d] # NULL /\ d # partial
<1>1. \A d \in 0..2 :
         rows[d] = IF counts[d] = NoRow THEN NULL
                   ELSE [count |-> counts[d], delta |-> delta(d), whole |-> whole(d)]
  BY DEF RowsOf
<1>2. ASSUME NEW d \in 0..2, rows[d] # NULL
      PROVE  /\ counts[d] # NoRow /\ rows[d].count = counts[d] /\ rows[d].delta = delta(d)
             /\ rows[d].whole => counts[d] # NULL
  <2>1. rows[d] = [count |-> counts[d], delta |-> delta(d), whole |-> whole(d)] /\ counts[d] # NoRow
    <3> HIDE DEF rows, delta, whole
    <3> QED BY <1>1, <1>2
  <2>2. whole(d) => counts[d] # NULL
    OBVIOUS
  <2> HIDE DEF rows, delta, whole
  <2> QED BY <2>1, <2>2
<1>3. ASSUME NEW d \in 0..2, rows[d] # NULL, rows[d].delta # NULL
      PROVE  /\ d > 0 /\ rows[d].count # NULL /\ rows[d - 1] # NULL /\ rows[d - 1].count # NULL
             /\ rows[d].delta = rows[d].count - rows[d - 1].count
  <2>1. known(d) /\ rows[d].delta = counts[d] - counts[d - 1]
    BY <1>2, <1>3
  <2>2. /\ d > 0 /\ counts[d] # NULL /\ counts[d - 1] # NULL /\ counts[d - 1] # NoRow
    BY <2>1
  <2>3. d - 1 \in 0..2
    BY <2>2
  <2>4. rows[d - 1] = [count |-> counts[d - 1], delta |-> delta(d - 1), whole |-> whole(d - 1)]
    <3> HIDE DEF rows, delta, whole
    <3> QED BY <1>1, <2>2, <2>3
  <2>5. Figure(counts[d - 1]) /\ Figure(delta(d - 1)) /\ whole(d - 1) \in BOOLEAN
    <3>1. ASSUME known(d - 1) PROVE counts[d - 1] - counts[(d - 1) - 1] \in Int
      <4>1. d - 1 > 0 /\ counts[d - 1] # NULL /\ counts[(d - 1) - 1] # NULL
        BY <3>1
      <4>2. (d - 1) - 1 \in 0..2
        BY <2>3, <4>1
      <4>3. Figure(counts[d - 1]) /\ Figure(counts[(d - 1) - 1])
        BY <2>3, <4>2
      <4> QED BY <4>1, <4>3 DEF Figure
    <3>2. Figure(delta(d - 1))
      BY <3>1 DEF Figure
    <3> HIDE DEF delta
    <3> QED BY <2>3, <3>2
  <2>6. rows[d - 1] # NULL
    <3>1. rows[d - 1] \in [count : Int \cup {NULL}, delta : Int \cup {NULL}, whole : BOOLEAN]
      <4> HIDE DEF rows, delta, whole
      <4> QED BY <2>4, <2>5 DEF Figure
    <3> HIDE DEF rows
    <3> QED BY <3>1, FigureAssumption
  <2>7. rows[d - 1].count = counts[d - 1]
    <3> HIDE DEF rows, delta, whole
    <3> QED BY <2>4
  <2> HIDE DEF rows, delta, known
  <2> QED BY <1>2, <1>3, <2>1, <2>2, <2>6, <2>7
<1> HIDE DEF rows, delta
<1>4. RowsAre(rows)
  <2>1. \A d \in 0..2 : rows[d] # NULL => Figure(rows[d].count) /\ (rows[d].whole => rows[d].count # NULL)
    BY <1>2
  <2> QED BY <1>3, <2>1 DEF RowsAre
<1> QED BY <1>4 DEF rows

LEMMA NoRowsAre == RowsAre([d \in 0..2 |-> NULL])
  BY DEF RowsAre

LEMMA FewAreFinite == IsFiniteSet({}) /\ IsFiniteSet({1}) /\ IsFiniteSet({1, 2})
<1>1. IsFiniteSet({})
  BY FS_EmptySet
<1>2. IsFiniteSet({} \cup {1})
  BY <1>1, FS_AddElement
<1>3. IsFiniteSet({1} \cup {2})
  BY <1>2, FS_AddElement
<1>4. {1, 2} = {1} \cup {2}
  OBVIOUS
<1> QED BY <1>1, <1>2, <1>3, <1>4

\* The tables a trend is asked of are of that shape.
CollectionIs(s) == Figure(s.figure) /\ (s.whole => s.figure # NULL)

LEMMA HistoriesAre ==
    \A h \in Histories \cup OtherHistories : RowsAre(h.rows) /\ CollectionIs(h.current)
<1>1. ASSUME NEW h \in Histories PROVE RowsAre(h.rows) /\ CollectionIs(h.current)
  <2>1. PICK k \in Kept, lost \in {0, 1, 2}, partial \in {0, 2, 3} :
          h = [rows |-> RowsOf(k[1], lost, partial), current |-> k[2]]
    BY <1>1 DEF Histories
  <2>2. h.rows = RowsOf(k[1], lost, partial) /\ h.current = k[2]
    BY <2>1
  <2>3. k[1] \in [0..2 -> {NoRow, NULL, 1, 3}] /\ k[2] \in Collected({NULL, 1, 4}, 0..2) \cup {Never}
    BY DEF Kept
  <2>4. DOMAIN k[1] = 0..2 /\ \A d \in 0..2 : Figure(k[1][d])
    BY <2>3 DEF Figure, NoRow
  <2>5. RowsAre(RowsOf(k[1], lost, partial))
    BY <2>4, RowsOfAre
  <2>6. CollectionIs(k[2])
    <3>1. CASE k[2] = Never
      BY <3>1 DEF Never, CollectionIs, Figure
    <3>2. CASE k[2] \in Collected({NULL, 1, 4}, 0..2)
      BY <3>2 DEF Collected, CollectionIs, Figure
    <3> QED BY <2>3, <3>1, <3>2
  <2> QED BY <2>2, <2>5, <2>6
<1>2. ASSUME NEW h \in OtherHistories PROVE RowsAre(h.rows) /\ CollectionIs(h.current)
  <2> DEFINE steady == [d \in 0..2 |-> 2]
             late == [d \in 0..2 |-> IF d = 2 THEN NULL ELSE 3]
  <2>1. RowsAre(RowsOf(steady, 0, 3))
    <3>1. DOMAIN steady = 0..2 /\ \A d \in 0..2 : Figure(steady[d])
      BY DEF Figure
    <3> HIDE DEF steady
    <3> QED BY <3>1, RowsOfAre
  <2>2. RowsAre(RowsOf(late, 0, 3))
    <3>1. DOMAIN late = 0..2 /\ \A d \in 0..2 : Figure(late[d])
      BY DEF Figure
    <3> HIDE DEF late
    <3> QED BY <3>1, RowsOfAre
  <2>3. RowsAre([d \in 0..2 |-> NULL])
    BY NoRowsAre
  <2>4. \/ h = [rows |-> RowsOf(steady, 0, 3), current |-> [figure |-> 5, whole |-> TRUE, day |-> 2]]
        \/ h = [rows |-> [d \in 0..2 |-> NULL], current |-> [figure |-> 2, whole |-> TRUE, day |-> 2]]
        \/ h = [rows |-> RowsOf(late, 0, 3), current |-> [figure |-> 3, whole |-> TRUE, day |-> 1]]
    BY <1>2 DEF OtherHistories
  <2>5. /\ CollectionIs([figure |-> 5, whole |-> TRUE, day |-> 2])
        /\ CollectionIs([figure |-> 2, whole |-> TRUE, day |-> 2])
        /\ CollectionIs([figure |-> 3, whole |-> TRUE, day |-> 1])
    <3>1. NULL \notin Int
      BY FigureAssumption
    <3> QED BY <3>1 DEF CollectionIs, Figure
  <2> DEFINE kept(r, s) == [rows |-> r, current |-> s]
             none == [d \in 0..2 |-> NULL]
  <2>6. \A r, s : kept(r, s).rows = r /\ kept(r, s).current = s
    OBVIOUS
  <2>7. \E r \in {RowsOf(steady, 0, 3), none, RowsOf(late, 0, 3)},
           s \in {[figure |-> 5, whole |-> TRUE, day |-> 2], [figure |-> 2, whole |-> TRUE, day |-> 2],
                  [figure |-> 3, whole |-> TRUE, day |-> 1]} : h = kept(r, s)
    BY <2>4
  <2> HIDE DEF steady, late, kept, none
  <2>8. PICK r, s : h = kept(r, s) /\ RowsAre(r) /\ CollectionIs(s)
    BY <2>1, <2>2, <2>3, <2>5, <2>7 DEF none
  <2> QED BY <2>6, <2>8
<1> QED BY <1>1, <1>2

LEMMA TrendInputsAre == \A i \in TrendInputs : TrendData(i, 0)
<1> SUFFICES ASSUME NEW i \in TrendInputs PROVE TrendData(i, 0)
  OBVIOUS
<1>1. PICK h \in Histories \cup OtherHistories, g \in Histories \cup OtherHistories,
           chosen \in {{}, {1}, {1, 2}} :
        i = Tables(h, g, chosen)
  BY DEF TrendInputs
<1>2. /\ i.shown = chosen /\ i.today = 2
      /\ i.row = <<h.rows, g.rows>> /\ i.current = <<h.current, g.current>>
  BY <1>1 DEF Tables
<1>3. IsFiniteSet(i.shown)
  BY <1>2, FewAreFinite
<1>4. \A c \in i.shown : c \in {1, 2}
  BY <1>2
<1>5. ASSUME NEW c \in i.shown PROVE RowsAre(i.row[c]) /\ CollectionIs(i.current[c])
  BY <1>2, <1>4, HistoriesAre
<1>6. ASSUME NEW c \in i.shown, NEW d \in 0..2
      PROVE  Figure(CountOn(i, c, d)) /\ (WholeOn(i, c, d) => CountOn(i, c, d) # NULL)
  BY <1>5 DEF RowsAre, CountOn, WholeOn, Figure
<1>7. ASSUME NEW c \in i.shown, NEW d \in 1..2, StoredDelta(i, c, d) # NULL
      PROVE  /\ CountOn(i, c, d) # NULL /\ CountOn(i, c, d - 1) # NULL
             /\ StoredDelta(i, c, d) = CountOn(i, c, d) - CountOn(i, c, d - 1)
  BY <1>5, <1>7 DEF RowsAre, StoredDelta, CountOn
<1> QED BY <1>2, <1>3, <1>5, <1>6, <1>7 DEF TrendData, CollectionIs

LEMMA RevenueInputsAre == \A i \in RevenueInputs : RevenueData(i, 1)
<1> SUFFICES ASSUME NEW i \in RevenueInputs PROVE RevenueData(i, 1)
  OBVIOUS
<1> DEFINE rows(gains) == [d \in 0..2 |-> DeltaRow(gains[d])]
           others == [d \in 0..2 |-> IF d = 1 THEN NULL ELSE DeltaRow(3)]
           unset == [d \in {0} |-> NULL]
           set == [d \in {0} |-> [monetized |-> TRUE, rpm |-> 1]]
<1>1. PICK gains \in [0..2 -> {NULL, -3, 2}], settings \in [0..2 -> Settings],
           other \in {unset, set}, chosen \in {{}, {1}, {1, 2}} :
        i = [shown |-> chosen, today |-> 2, row |-> <<rows(gains), others>>,
             setting |-> <<settings, other>>]
  BY DEF RevenueInputs
<1>2. /\ i.shown = chosen /\ i.today = 2
      /\ i.row = <<rows(gains), others>> /\ i.setting = <<settings, other>>
  BY <1>1
<1>3. \A c \in i.shown : c \in {1, 2}
  BY <1>2
<1>4. ASSUME NEW s \in Settings, s # NULL
      PROVE  s.monetized \in BOOLEAN /\ (s.monetized => s.rpm \in Int)
  <2>1. CASE s = [monetized |-> FALSE, rpm |-> NULL]
    BY <2>1
  <2>2. CASE s = [monetized |-> TRUE, rpm |-> 1]
    BY <2>2
  <2>3. CASE s = [monetized |-> TRUE, rpm |-> 3]
    BY <2>3
  <2> QED BY <1>4, <2>1, <2>2, <2>3 DEF Settings, Optional
<1>5. \A d \in 0..2 : settings[d] # NULL => /\ settings[d].monetized \in BOOLEAN
                                            /\ settings[d].monetized => settings[d].rpm \in Int
  BY <1>4
<1>6. /\ DOMAIN other = {0}
      /\ other[0] # NULL => other[0].monetized \in BOOLEAN /\ (other[0].monetized => other[0].rpm \in Int)
  <2>1. CASE other = unset
    BY <2>1
  <2>2. CASE other = set
    <3>1. other[0] = [monetized |-> TRUE, rpm |-> 1] /\ DOMAIN other = {0}
      BY <2>2
    <3>2. other[0].monetized = TRUE /\ other[0].rpm = 1
      BY <3>1
    <3> QED BY <3>1, <3>2
  <2> QED BY <2>1, <2>2
<1>7. IsFiniteSet(DOMAIN settings) /\ DOMAIN settings = 0..2 /\ IsFiniteSet({0})
  <2>2. IsFiniteSet(0..2)
    <3>1. 0 \in Int /\ 2 \in Int
      OBVIOUS
    <3> QED BY ONLY <3>1, FS_Interval
  <2>3. {} \cup {0} = {0}
    OBVIOUS
  <2>4. IsFiniteSet({} \cup {0})
    BY FS_EmptySet, FS_AddElement
  <2> QED BY <2>2, <2>3, <2>4
<1>8. ASSUME NEW c \in i.shown
      PROVE  /\ IsFiniteSet(DOMAIN i.setting[c]) /\ DOMAIN i.setting[c] \subseteq Int
             /\ \A e \in DOMAIN i.setting[c] : i.setting[c][e] # NULL =>
                   /\ i.setting[c][e].monetized \in BOOLEAN
                   /\ i.setting[c][e].monetized => i.setting[c][e].rpm \in Int
  <2>1. CASE c = 1
    BY <1>2, <1>5, <1>7, <2>1
  <2>2. CASE c = 2
    BY <1>2, <1>6, <1>7, <2>2
  <2> QED BY <1>3, <2>1, <2>2
<1>9. ASSUME NEW c \in i.shown, NEW d \in 1..2 PROVE Figure(StoredDelta(i, c, d))
  <2>1. d \in 0..2 /\ Figure(rows(gains)[d].delta)
    BY DEF DeltaRow, Figure
  <2>2. others[d] # NULL => others[d].delta = 3
    BY DEF DeltaRow
  <2>3. i.row[c] \in {rows(gains), others}
    BY <1>2, <1>3
  <2> HIDE DEF rows, others
  <2> QED BY <2>1, <2>2, <2>3 DEF StoredDelta, Figure
<1>10. IsFiniteSet(i.shown)
  BY <1>2, FewAreFinite
<1> QED BY <1>2, <1>8, <1>9, <1>10 DEF RevenueData

\* A catalogue scanned tells figures, of videos that are numbered.
ScanTells(scan) == Figures(scan.views) /\ DOMAIN scan.views \subseteq Int

LEMMA ScansTell ==
    ASSUME NEW S, S \subseteq Int, IsFiniteSet(S), NEW counts, \A x \in counts : Figure(x),
           NEW views \in [S -> counts], NEW whole
    PROVE  ScanTells(ScanOfViews(views, whole))
<1>1. ScanOfViews(views, whole).views = views
  BY DEF ScanOfViews
<1>2. Figures(views) /\ DOMAIN views = S
  BY DEF Figures
<1> QED BY <1>1, <1>2 DEF ScanTells

LEMMA ScansOnTell ==
    ASSUME NEW counts, \A x \in counts : Figure(x),
           NEW scan \in Optional(ScansOn({1, 2}, counts)), scan # NULL
    PROVE  ScanTells(scan)
<1>1. scan \in ScansOn({1, 2}, counts)
  BY DEF Optional
<1>2. PICK whole \in BOOLEAN, views \in UNION {[S -> counts] : S \in SUBSET {1, 2}} :
        scan = ScanOfViews(views, whole)
  BY <1>1 DEF ScansOn
<1>3. PICK S \in SUBSET {1, 2} : views \in [S -> counts]
  BY <1>2
<1>4. IsFiniteSet(S)
  <2>1. IsFiniteSet({1, 2}) /\ S \subseteq {1, 2}
    BY FewAreFinite
  <2> QED BY <2>1, FS_Subset
<1>5. S \subseteq Int
  OBVIOUS
<1> QED BY <1>2, <1>3, <1>4, <1>5, ScansTell

LEMMA LeaderInputsAre == \A i \in LeaderInputs : LeaderData(i)
<1> SUFFICES ASSUME NEW i \in LeaderInputs PROVE LeaderData(i)
  OBVIOUS
<1> DEFINE earlier == ScansOn({1, 2}, {1, 2, 3})
           later == ScansOn({1, 2}, {NULL, 2, 3})
           rows(n) == [d \in 0..2 |-> DeltaRow(n)]
           scans(pair) == [d \in 1..2 |-> pair[d]]
<1>1. PICK pair \in Optional(earlier) \X Optional(later), other \in OtherScans,
           gain \in {NULL, 0, 3}, chosen \in {{}, {1}, {1, 2}} :
        i = LeaderTables(pair, other, gain, chosen)
  BY DEF LeaderInputs
<1>2. /\ i.shown = chosen /\ i.today = 2
      /\ i.row = <<rows(gain), rows(0)>> /\ i.scan = <<scans(pair), scans(other)>>
  BY <1>1 DEF LeaderTables
<1>3. IsFiniteSet(i.shown) /\ i.shown \subseteq Int /\ \A c \in i.shown : c \in {1, 2}
  <2>1. \A c \in i.shown : c \in {1, 2}
    BY <1>2
  <2>2. IsFiniteSet(i.shown)
    BY <1>2, FewAreFinite
  <2> QED BY <2>1, <2>2
<1>4. ASSUME NEW n \in {NULL, 0, 3} PROVE \A d \in 0..2 : Figure(rows(n)[d].delta)
  BY DEF DeltaRow, Figure
<1>5. ASSUME NEW c \in i.shown PROVE Figure(StoredDelta(i, c, i.today))
  <2>1. i.row[c] = rows(gain) \/ i.row[c] = rows(0)
    BY <1>2, <1>3
  <2>2. Figure(rows(gain)[2].delta) /\ Figure(rows(0)[2].delta)
    BY <1>4
  <2> HIDE DEF rows
  <2> QED BY <1>2, <2>1, <2>2 DEF StoredDelta, Figure
<1>6. /\ pair[1] # NULL => ScanTells(pair[1])
      /\ pair[2] # NULL => ScanTells(pair[2])
  <2>1. (\A x \in {1, 2, 3} : Figure(x)) /\ (\A x \in {NULL, 2, 3} : Figure(x))
    BY DEF Figure
  <2>2. pair[1] \in Optional(earlier) /\ pair[2] \in Optional(later)
    OBVIOUS
  <2> QED BY <2>1, <2>2, ScansOnTell
<1>7. \A d \in {1, 2} : other[d] # NULL => ScanTells(other[d])
  <2>1. {3} \subseteq Int /\ IsFiniteSet({3})
    <3>1. {} \cup {3} = {3}
      OBVIOUS
    <3> QED BY <3>1, FS_EmptySet, FS_AddElement
  <2>2. \A x \in Int : Figure(x)
    BY DEF Figure
  <2> DEFINE third(n) == ScanOfViews([v \in {3} |-> n], TRUE)
  <2>3. [v \in {3} |-> 1] \in [{3} -> Int] /\ [v \in {3} |-> 2] \in [{3} -> Int]
    OBVIOUS
  <2>4. ScanTells(third(1)) /\ ScanTells(third(2))
    BY <2>1, <2>2, <2>3, ScansTell
  <2>5. other = <<NULL, NULL>> \/ other = <<third(1), third(2)>>
    BY DEF OtherScans
  <2> HIDE DEF third
  <2> QED BY <2>4, <2>5
<1>8. ASSUME NEW c \in i.shown, NEW d \in {i.today - 1, i.today}, i.scan[c][d] # NULL
      PROVE  ScanTells(i.scan[c][d])
  <2>1. d \in {1, 2} /\ i.scan[c] \in {scans(pair), scans(other)}
    BY <1>2, <1>3
  <2>2. i.scan[c][d] \in {pair[d], other[d]}
    BY <2>1
  <2> QED BY <1>6, <1>7, <1>8, <2>1, <2>2
<1> QED BY <1>2, <1>3, <1>5, <1>8 DEF LeaderData, ScanTells

LEMMA ReportInputsAre == \A i \in ReportInputs : PeriodRows(i.tables, i.period)
<1> SUFFICES ASSUME NEW i \in ReportInputs PROVE PeriodRows(i.tables, i.period)
  OBVIOUS
<1>1. PICK rows \in ReportRows, others \in OtherReportRows :
        \E channels \in {{}, {1}, {1, 2}}, videos \in ReportVideos, period \in Periods :
          i = [tables |-> [channels |-> channels, row |-> <<rows, others>>, video |-> videos],
               period |-> period]
  BY DEF ReportInputs
<1>2. /\ i.tables.row = <<rows, others>> /\ i.tables.channels \subseteq {1, 2} /\ i.period \in Periods
  BY <1>1
<1>3. \A partial : \A counts \in [0..2 -> Int \cup {NULL}] : RowsAre(RowsOf(counts, 0, partial))
  <2> SUFFICES ASSUME NEW partial, NEW counts \in [0..2 -> Int \cup {NULL}]
               PROVE  RowsAre(RowsOf(counts, 0, partial))
    OBVIOUS
  <2>1. DOMAIN counts = 0..2 /\ \A d \in 0..2 : Figure(counts[d])
    BY DEF Figure
  <2> QED BY <2>1, RowsOfAre
<1>4. RowsAre(rows)
  <2>1. /\ [d \in 0..2 |-> 5] \in [0..2 -> Int \cup {NULL}]
        /\ [d \in 0..2 |-> 5 + d] \in [0..2 -> Int \cup {NULL}]
        /\ [d \in 0..2 |-> IF d = 2 THEN NoRow ELSE 5 + d] \in [0..2 -> Int \cup {NULL}]
        /\ [d \in 0..2 |-> IF d = 1 THEN NULL ELSE 5] \in [0..2 -> Int \cup {NULL}]
    BY DEF NoRow
  <2> QED BY <1>3, <2>1, NoRowsAre DEF ReportRows
<1>5. RowsAre(others)
  <2>1. [d \in 0..2 |-> 7 + 2 * d] \in [0..2 -> Int \cup {NULL}]
    OBVIOUS
  <2> QED BY <1>3, <2>1, NoRowsAre DEF OtherReportRows
<1>6. \A c \in i.tables.channels : RowsAre(i.tables.row[c])
  BY <1>2, <1>4, <1>5
<1>7. i.period.first = 1 /\ i.period.last \in {1, 2} /\ PeriodDays(i.period) \subseteq 0..2
  BY <1>2 DEF Periods, PeriodDays
<1>8. ASSUME NEW c \in i.tables.channels, NEW d \in 0..2,
             i.tables.row[c][d] # NULL, i.tables.row[c][d].delta # NULL
      PROVE  /\ i.tables.row[c][d].count \in Int
             /\ i.tables.row[c][d - 1] # NULL /\ i.tables.row[c][d - 1].count \in Int
             /\ i.tables.row[c][d].delta = i.tables.row[c][d].count - i.tables.row[c][d - 1].count
  <2> DEFINE r == i.tables.row[c]
  <2>1. RowsAre(r)
    BY <1>6
  <2> HIDE DEF r
  <2>2. ASSUME r[d] # NULL, r[d].delta # NULL
        PROVE  /\ r[d].count \in Int /\ r[d - 1] # NULL /\ r[d - 1].count \in Int
               /\ r[d].delta = r[d].count - r[d - 1].count
    <3>1. d > 0 /\ d - 1 \in 0..2
      BY <2>1, <2>2 DEF RowsAre
    <3> QED BY <2>1, <2>2, <3>1 DEF RowsAre, Figure
  <2> QED BY <1>8, <2>2 DEF r
<1> QED BY <1>7, <1>8 DEF PeriodRows

\* A report that is stored quotes only what the tables hold of its targets, and says so
\* when something of the period is missing, whatever the AI proposed.
THEOREM StoredReportsTell == Spec => []ReportsHold
<1>1. ASSUME NEW i \in ReportInputs PROVE ReportData(i.tables, i.period)
  <2>1. /\ i.tables.channels \in {{}, {1}, {1, 2}}
        /\ i.period.first \in Int /\ i.period.last \in Int /\ i.period.cutoff \in Int
        /\ i.period.first <= i.period.last
    BY DEF ReportInputs, Periods
  <2> QED BY <2>1, FewAreFinite DEF ReportData
<1>2. AskedOf => ReportsHold
  BY <1>1, ReportsTell DEF AskedOf, ReportsHold, Answered
<1> QED BY <1>2, AskedOfInit, AskedOfNext, PTL DEF Spec

\* Every total of the dashboard is that of its days and of its channels, and every period of
\* a report is the difference between its ends.
THEOREM FiguresAlwaysAddUp == Spec => []FiguresAddUp
<1>1. AskedOf => FiguresAddUp
  <2> SUFFICES ASSUME AskedOf PROVE FiguresAddUp
    OBVIOUS
  <2>1. ASSUME Answered("trends") PROVE TrendsAddUp(input, 0, answer)
    BY <2>1, TrendInputsAre, TrendsAlwaysAddUp DEF AskedOf, Answered
  <2>2. ASSUME Answered("revenue") PROVE RevenueAddsUp(input, answer)
    BY <2>2, RevenueInputsAre, RevenueAlwaysAddsUp DEF AskedOf, Answered
  <2>3. ASSUME Answered("report") PROVE PeriodsAddUp(input.tables, input.period)
    BY <2>3, ReportInputsAre, PeriodsAlwaysAddUp DEF AskedOf, Answered
  <2> QED BY <2>1, <2>2, <2>3 DEF FiguresAddUp
<1> QED BY <1>1, AskedOfInit, AskedOfNext, PTL DEF Spec

\* No table makes the dashboard compute trends, revenue or leaders that its own contract
\* refuses.
THEOREM AnswersAlwaysParse == Spec => []AnswersParse
<1>1. AskedOf => AnswersParse
  <2> SUFFICES ASSUME AskedOf PROVE AnswersParse
    OBVIOUS
  <2>1. ASSUME Answered("trends") PROVE TrendsParse(answer)
    BY <2>1, TrendInputsAre, TrendsAlwaysParse DEF AskedOf, Answered
  <2>2. ASSUME Answered("revenue") PROVE RevenueParses(answer)
    BY <2>2, RevenueInputsAre, RevenueAlwaysParses DEF AskedOf, Answered
  <2>3. ASSUME Answered("leaders") PROVE LeadersParse(answer)
    BY <2>3, LeaderInputsAre, LeadersAlwaysParse DEF AskedOf, Answered
  <2> QED BY <2>1, <2>2, <2>3 DEF AnswersParse
<1> QED BY <1>1, AskedOfInit, AskedOfNext, PTL DEF Spec

\* The leading videos are those that gained most between two whole catalogues.
THEOREM LeadersAlwaysHold == Spec => []LeadersHold
<1>1. AskedOf => LeadersHold
  BY LeaderInputsAre, LeadersAlwaysTell DEF AskedOf, LeadersHold, Answered
<1> QED BY <1>1, AskedOfInit, AskedOfNext, PTL DEF Spec

LEMMA WithinInterval ==
    ASSUME NEW a \in Int, NEW b \in Int, NEW S, S \subseteq a..b
    PROVE  IsFiniteSet(S) /\ S \subseteq Int
<1>1. IsFiniteSet(a..b) /\ S \in SUBSET (a..b)
  BY FS_Interval
<1>2. IsFiniteSet(S)
  BY ONLY <1>1, FS_Subset
<1> QED BY <1>2

\* The tables a page is asked of, of one channel.
LEMMA IntelligenceInputsAre == \A i \in IntelligenceInputs : PageData(i.tables, 1, 0) /\ i.old \in BOOLEAN
<1> SUFFICES ASSUME NEW i \in IntelligenceInputs PROVE PageData(i.tables, 1, 0) /\ i.old \in BOOLEAN
  OBVIOUS
<1>1. PICK h \in Histories, after \in Optional(Collected({NULL, 3}, 0..2)) :
        i.tables = PageTables(h, after) /\ i.old \in BOOLEAN
  BY DEF IntelligenceInputs
<1> DEFINE t == i.tables
<1>2. /\ t.today = 2 /\ t.row[1] = h.rows /\ t.current[1] = h.current
      /\ t.latest[1] \in {h.current, after} /\ (t.latest[1] = after => after # NULL \/ after = h.current)
      /\ {"shown", "today", "row", "current"} \subseteq DOMAIN t
  <2>1. t = [shown |-> {1}, today |-> 2, row |-> <<h.rows>>, current |-> <<h.current>>,
             latest |-> <<Latest(h.current, after)>>]
    BY <1>1 DEF PageTables
  <2>2. /\ Latest(h.current, after) \in {h.current, after}
        /\ Latest(h.current, after) = after => after # NULL \/ after = h.current
    BY DEF Latest
  <2> HIDE DEF t
  <2> QED BY <2>1, <2>2
<1> HIDE DEF t
<1>3. RowsAre(t.row[1]) /\ CollectionIs(t.current[1])
  BY <1>2, HistoriesAre
<1>4. \A d \in 0..2 : Figure(CountOn(t, 1, d))
  BY <1>3 DEF RowsAre, CountOn, Figure
<1>5. Figure(t.latest[1].figure)
  <2>1. after # NULL => Figure(after.figure)
    BY DEF Optional, Collected, Figure
  <2> QED BY <1>2, <1>3, <2>1 DEF CollectionIs
<1>6. PageData(t, 1, 0)
  BY <1>2, <1>3, <1>4, <1>5 DEF PageData, CollectionIs
<1> QED BY <1>1, <1>6 DEF t

\* The videos a ranking is asked of.
LEMMA SeenInputsAre == \A s \in SeenInputs : DOMAIN s \subseteq Int /\ Figures(s)
<1> SUFFICES ASSUME NEW s \in SeenInputs PROVE DOMAIN s \subseteq Int /\ Figures(s)
  OBVIOUS
<1>1. DOMAIN s \in SUBSET (1..10) /\ \A k \in DOMAIN s : Figure(s[k])
  <2>1. \/ s = [i \in {} |-> 0] \/ s = [i \in {9} |-> 5] \/ s = [i \in {4, 6, 9} |-> i]
        \/ s = [i \in {3, 5, 8} |-> 9 - i] \/ s = [i \in {5, 6, 7, 10} |-> IF i = 6 THEN NULL ELSE i]
        \/ s = [i \in {1, 2} |-> 3]
    BY DEF SeenInputs
  <2>2. CASE s = [i \in {} |-> 0]
    BY <2>2
  <2>3. CASE s = [i \in {9} |-> 5]
    BY <2>3 DEF Figure
  <2>4. CASE s = [i \in {4, 6, 9} |-> i]
    BY <2>4 DEF Figure
  <2>5. CASE s = [i \in {3, 5, 8} |-> 9 - i]
    BY <2>5 DEF Figure
  <2>6. CASE s = [i \in {5, 6, 7, 10} |-> IF i = 6 THEN NULL ELSE i]
    BY <2>6 DEF Figure
  <2>7. CASE s = [i \in {1, 2} |-> 3]
    BY <2>7 DEF Figure
  <2> QED BY <2>1, <2>2, <2>3, <2>4, <2>5, <2>6, <2>7
<1>2. IsFiniteSet(DOMAIN s)
  <2>1. 1 \in Int /\ 10 \in Int
    OBVIOUS
  <2> QED BY <1>1, <2>1, WithinInterval
<1> QED BY <1>1, <1>2 DEF Figures

LEMMA RankingInputsAre ==
    \A i \in RankingInputs : VideoData(i.videos) /\ i.kind \in Kinds /\ i.size = 2
<1> SUFFICES ASSUME NEW i \in RankingInputs PROVE VideoData(i.videos) /\ i.kind \in Kinds /\ i.size = 2
  OBVIOUS
<1> DEFINE steady == [x \in {4, 6, 9} |-> x]
<1>1. PICK p \in {NULL, 2, 5}, q \in {2, 5}, s \in SeenInputs, t \in SeenInputs, u \in SeenInputs, k \in Kinds :
        i = [videos |-> <<[chan |-> 1, published |-> p, seen |-> s],
                          [chan |-> 1, published |-> q, seen |-> t],
                          [chan |-> 2, published |-> 3, seen |-> u],
                          [chan |-> 2, published |-> 4, seen |-> steady]>>,
             kind |-> k, size |-> 2]
  BY DEF RankingInputs
<1> DEFINE videos == i.videos
<1>2. /\ DOMAIN videos = 1..4 /\ steady \in SeenInputs
      /\ videos[1].published = p /\ videos[1].seen = s
      /\ videos[2].published = q /\ videos[2].seen = t
      /\ videos[3].published = 3 /\ videos[3].seen = u
      /\ videos[4].published = 4 /\ videos[4].seen = steady
      /\ i.kind \in Kinds /\ i.size = 2
  <2>1. steady \in SeenInputs
    BY DEF SeenInputs
  <2> HIDE DEF steady
  <2> QED BY <1>1, <2>1
<1> HIDE DEF videos, steady
<1>3. \A v \in 1..4 : videos[v].seen \in SeenInputs /\ Figure(videos[v].published)
  BY <1>2 DEF Figure
<1>4. IsFiniteSet(1..4) /\ 1..4 \subseteq Int
  <2>1. 1 \in Int /\ 4 \in Int
    OBVIOUS
  <2> QED BY <2>1, WithinInterval
<1>5. VideoData(videos)
  BY <1>2, <1>3, <1>4, SeenInputsAre DEF VideoData
<1> QED BY <1>2, <1>5 DEF videos

\* The panels of the dashboard draw what its answers tell, of the tables asked of.
LEMMA PanelsAlwaysTell == AskedOf => PanelsTell
<1> SUFFICES ASSUME AskedOf PROVE PanelsTell
  OBVIOUS
<1>1. ASSUME Answered("trends") PROVE TrendPanelTells(answer)
  BY <1>1, TrendInputsAre, TrendPanelAlwaysTells DEF AskedOf, Answered
<1>2. ASSUME Answered("revenue") PROVE RevenuePanelTells(answer)
  BY <1>2, RevenueInputsAre, RevenuePanelAlwaysTells DEF AskedOf, Answered
<1> QED BY <1>1, <1>2 DEF PanelsTell

LEMMA RankingsAlwaysTell ==
    AskedOf => (Answered("rankings") => /\ RankingsAreLocal(input.videos, Now, input.kind, input.size)
                                        /\ GainsAreOfTheirWindow(input.videos, Now))
<1> SUFFICES ASSUME AskedOf, Answered("rankings")
             PROVE  /\ RankingsAreLocal(input.videos, Now, input.kind, input.size)
                    /\ GainsAreOfTheirWindow(input.videos, Now)
  OBVIOUS
<1>1. VideoData(input.videos) /\ input.kind \in Kinds /\ input.size = 2
  BY RankingInputsAre DEF AskedOf, Answered
<1>2. Now \in Int /\ input.size \in Nat \ {0}
  BY <1>1 DEF Now
<1>3. RankingsAreLocal(input.videos, Now, input.kind, input.size)
  BY ONLY <1>1, <1>2, RankingsAlwaysLocal
<1>4. GainsAreOfTheirWindow(input.videos, Now)
  BY ONLY <1>1, <1>2, GainsAlwaysOfTheirWindow
<1> QED BY <1>3, <1>4

LEMMA PagesTell ==
    AskedOf => (Answered("intelligence") => PagesAgree(input.tables, 1, 0, input.old, answer))
<1> SUFFICES ASSUME AskedOf, Answered("intelligence")
             PROVE  PagesAgree(input.tables, 1, 0, input.old, answer)
  OBVIOUS
<1>1. /\ PageData(input.tables, 1, 0) /\ input.old \in BOOLEAN
      /\ answer = IntelligenceOf(input.tables, 1, 0, input.old, input.exact, input.catalog)
  BY IntelligenceInputsAre DEF AskedOf, Answered
<1> QED BY <1>1, PagesAlwaysAgree

\* Whatever the tables hold and however the pages of a listing and what changes between them
\* interleave: the page of a channel and the dashboard agree as far as they read the same,
\* the panels draw what the answers tell, the rankings say of a channel what its own ranking
\* says as far as they read it, a gain is of its window, and the cards say the sum of all the
\* channels of the selection (channels.service.ts, rankings.service.ts,
\* dashboard-trend-panel.tsx, dashboard-revenue-panel.tsx, dashboard-screen.tsx).
THEOREM PagesAlwaysHold == Spec => []PagesHold
<1>1. Init => AskedOf /\ ListingInv
  BY AskedOfInit, ListingInvInit DEF Init
<1>2. AskedOf /\ ListingInv /\ [Next]_vars => (AskedOf /\ ListingInv)'
  BY AskedOfNext, ListingInvNext, PartsStep
<1>3. AskedOf /\ ListingInv => PagesHold
  BY PagesTell, PanelsAlwaysTell, RankingsAlwaysTell, ListingInvShows DEF PagesHold
<1> QED BY <1>1, <1>2, <1>3, PTL DEF Spec
=============================================================================
