---------------------------- MODULE UsersScreen -----------------------------
(***************************************************************************)
(* The administrator's screen of the viewers and of the groups they may see  *)
(* (apps/web/src/components/users-screen.tsx): a version of the screen loads  *)
(* the list and, group by group, who may see which; a mutation that succeeds *)
(* makes a new version; the dialog of a viewer starts from what was loaded   *)
(* and replaces all of the viewer's groups.                                 *)
(*                                                                         *)
(* A reply may be lost after the server did what it was asked, and another   *)
(* administrator may change the groups meanwhile: both are remembered, for   *)
(* the screen cannot know of them before it loads again.                    *)
(***************************************************************************)
EXTENDS Basics, Integers, FiniteSets

CONSTANTS
    ScreenUsers,    \* viewers, created or not
    GrantGroups,
    PageSize,
    MaxVersions     \* bound on the versions of the screen

GrantsWork == [kind : {"create", "replace", "other"}, user : ScreenUsers, ids : SUBSET GrantGroups,
               step : {"asked", "granting", "granted", "lost", "failed"}]

\* No set or record is mistaken for an absent one.
ASSUME UsersAssumption ==
    /\ \A ids \in SUBSET GrantGroups : ids # NULL
    /\ \A users \in SUBSET ScreenUsers : users # NULL
    /\ NULL \notin [user : ScreenUsers, ids : SUBSET GrantGroups]
    /\ NULL \notin GrantsWork

VARIABLES
    grants,         \* the server: grants[u], NULL before u is created
    version,        \* of the screen
    loads,          \* loads under way: [version, seen], seen[g] NULL until g is read
    details,        \* groupDetails: details[g], the viewers of g
    groupsShown,    \* groupsLoading, groupsError or neither
    page, listed,   \* the page of the list, and the viewers it shows or NULL
    listing,        \* the page and version of the list load that is not aborted, or NULL
    dialog,         \* the groups dialog: [user, ids], or NULL
    work,           \* the mutation pending: [kind, user, ids, step], or NULL
    unknown         \* the screen cannot know the grants until it loads again

usersVars == <<grants, version, loads, details, groupsShown, page, listed, listing, dialog, work, unknown>>

Created == {u \in ScreenUsers : grants[u] # NULL}
Unread == [g \in GrantGroups |-> NULL]

\* The effects of a version, or of a page, abort those of the one before.
LoadsOf(v) == {[version |-> v, seen |-> Unread]}

UsersInit ==
    /\ grants = [u \in ScreenUsers |-> NULL]
    /\ version = 1
    /\ loads = {[version |-> 1, seen |-> Unread]}
    /\ details = [g \in GrantGroups |-> {}]
    /\ groupsShown = "loading"
    /\ page = 1 /\ listed = NULL
    /\ listing = [page |-> 1, version |-> 1]
    /\ dialog = NULL
    /\ work = NULL
    /\ unknown = FALSE

\* refresh.
Refreshes ==
    /\ version' = version + 1
    /\ loads' = LoadsOf(version + 1)
    /\ groupsShown' = "loading"
    /\ listing' = [page |-> page, version |-> version + 1]
    /\ unknown' = FALSE

StaysAsIs == UNCHANGED <<version, loads, groupsShown, listing, unknown>>

----------------------------------------------------------------------------
\* loadGroupDetails: the groups are read one by one, in transactions of their own.
ReadsGroup(l, g) ==
    /\ l.seen[g] = NULL
    /\ loads' = (loads \ {l}) \cup {[l EXCEPT !.seen[g] = {u \in Created : g \in grants[u]}]}
    /\ UNCHANGED <<grants, version, details, groupsShown, page, listed, listing, dialog, work, unknown>>

LoadArrives(l) ==
    /\ \A g \in GrantGroups : l.seen[g] # NULL
    /\ loads' = loads \ {l}
    /\ details' = l.seen
    /\ groupsShown' = "shown"
    /\ UNCHANGED <<grants, version, page, listed, listing, dialog, work, unknown>>

LoadFails(l) ==
    /\ loads' = loads \ {l}
    /\ groupsShown' = "failed"
    /\ UNCHANGED <<grants, version, details, page, listed, listing, dialog, work, unknown>>

\* The viewers of a page, in the order of their creation. An empty page beyond the end
\* would be left for the one before; no viewer is ever removed, so none is met.
ListArrives ==
    /\ listing # NULL
    /\ LET empty == Cardinality(Created) <= (listing.page - 1) * PageSize
       IN  IF page > 1 /\ empty
           THEN /\ page' = page - 1
                /\ listing' = [page |-> page - 1, version |-> version]
                /\ UNCHANGED listed
           ELSE /\ listed' = [page |-> listing.page, total |-> Cardinality(Created)]
                /\ listing' = NULL
                /\ UNCHANGED page
    /\ UNCHANGED <<grants, version, loads, details, groupsShown, dialog, work, unknown>>

ListFails ==
    /\ listing # NULL
    /\ listing' = NULL
    /\ UNCHANGED <<grants, version, loads, details, groupsShown, page, listed, dialog, work, unknown>>

TurnsPage ==
    /\ work = NULL /\ dialog = NULL
    /\ \/ page > 1 /\ page' = page - 1
       \/ listed # NULL /\ page * PageSize < listed.total /\ page' = page + 1
    /\ listing' = [page |-> page', version |-> version]
    /\ UNCHANGED <<grants, version, loads, details, groupsShown, listed, dialog, work, unknown>>

\* The buttons beside the messages.
Retries ==
    /\ dialog = NULL /\ version < MaxVersions
    /\ work = NULL \/ groupsShown = "failed"
    /\ Refreshes
    /\ UNCHANGED <<grants, details, page, listed, dialog, work>>

----------------------------------------------------------------------------
\* Another administrator.
OthersGrant(u, ids) ==
    /\ u \in Created
    /\ grants' = [grants EXCEPT ![u] = ids]
    /\ unknown' = TRUE
    /\ UNCHANGED <<version, loads, details, groupsShown, page, listed, listing, dialog, work>>

\* The form is disabled while the groups are not shown.
SubmitsCreate(u, ids) ==
    /\ work = NULL /\ dialog = NULL /\ groupsShown = "shown" /\ version < MaxVersions
    /\ u \notin Created
    /\ work' = [kind |-> "create", user |-> u, ids |-> ids, step |-> "asked"]
    /\ UNCHANGED <<grants, version, loads, details, groupsShown, page, listed, listing, dialog, unknown>>

OpensGroupsDialog(u) ==
    /\ work = NULL /\ dialog = NULL /\ groupsShown = "shown"
    /\ u \in Created
    /\ dialog' = [user |-> u, ids |-> {g \in GrantGroups : u \in details[g]}]
    /\ UNCHANGED <<grants, version, loads, details, groupsShown, page, listed, listing, work, unknown>>

ClosesDialog ==
    /\ dialog # NULL /\ work = NULL
    /\ dialog' = NULL
    /\ UNCHANGED <<grants, version, loads, details, groupsShown, page, listed, listing, work, unknown>>

\* confirmDialog, with the groups as they were ticked.
ConfirmsDialog(ids) ==
    /\ dialog # NULL /\ work = NULL /\ version < MaxVersions
    /\ work' = [kind |-> "replace", user |-> dialog.user, ids |-> ids, step |-> "granting"]
    /\ UNCHANGED <<grants, version, loads, details, groupsShown, page, listed, listing, dialog, unknown>>

\* The other mutations (email, password, sessions, enabled) leave the grants.
SubmitsOther(u) ==
    /\ work = NULL /\ dialog = NULL /\ version < MaxVersions /\ u \in Created
    /\ work' = [kind |-> "other", user |-> u, ids |-> {}, step |-> "granted"]
    /\ UNCHANGED <<grants, version, loads, details, groupsShown, page, listed, listing, dialog, unknown>>

----------------------------------------------------------------------------
CreatesUser ==
    /\ work # NULL /\ work.step = "asked"
    /\ grants' = [grants EXCEPT ![work.user] = {}]
    /\ \/ work' = [work EXCEPT !.step = "granting"]
       \/ work' = [work EXCEPT !.step = "lost"]
    /\ UNCHANGED <<version, loads, details, groupsShown, page, listed, listing, dialog, unknown>>

ReplacesGrants ==
    /\ work # NULL /\ work.step = "granting"
    /\ grants' = [grants EXCEPT ![work.user] = work.ids]
    /\ \/ work' = [work EXCEPT !.step = "granted"] /\ UNCHANGED unknown
       \/ work' = [work EXCEPT !.step = "failed"] /\ unknown' = TRUE
    /\ UNCHANGED <<version, loads, details, groupsShown, page, listed, listing, dialog>>

\* The server refuses, or is not reached.
Refused ==
    /\ work # NULL /\ work.step \in {"asked", "granting", "granted"}
    /\ work.step = "granted" => work.kind = "other"
    /\ work' = [work EXCEPT !.step = IF work.step = "asked" THEN "lost" ELSE "failed"]
    /\ UNCHANGED <<grants, version, loads, details, groupsShown, page, listed, listing, dialog, unknown>>

Succeeds ==
    /\ work # NULL /\ work.step = "granted"
    /\ work' = NULL /\ dialog' = NULL
    /\ Refreshes
    /\ UNCHANGED <<grants, details, page, listed>>

\* A user that was created without its groups is loaded; a failed dialog
\* stays open; a user whose creation failed is not known to be there.
Fails ==
    /\ work # NULL /\ work.step \in {"lost", "failed"}
    /\ work' = NULL
    /\ IF work.kind = "create" /\ work.step = "failed"
       THEN Refreshes ELSE StaysAsIs
    /\ UNCHANGED <<grants, details, page, listed, dialog>>

UsersNext ==
    \/ \E l \in loads : LoadArrives(l) \/ LoadFails(l) \/ \E g \in GrantGroups : ReadsGroup(l, g)
    \/ ListArrives \/ ListFails \/ TurnsPage \/ Retries
    \/ \E u \in ScreenUsers :
         \/ OpensGroupsDialog(u) \/ SubmitsOther(u)
         \/ \E ids \in SUBSET GrantGroups : OthersGrant(u, ids) \/ SubmitsCreate(u, ids)
    \/ \E ids \in SUBSET GrantGroups : ConfirmsDialog(ids)
    \/ ClosesDialog \/ CreatesUser \/ ReplacesGrants \/ Refused \/ Succeeds \/ Fails

UsersSpec == UsersInit /\ [][UsersNext]_usersVars

----------------------------------------------------------------------------
\* Unless a reply was lost or another administrator came between, the groups shown, and
\* those the dialog starts from, are the viewers' own: saving the dialog as it was opened
\* changes nothing.
ShowsTheGrants ==
    /\ groupsShown = "shown" /\ ~unknown /\ (work = NULL \/ work.step # "granted") =>
         \A u \in Created, g \in GrantGroups : (u \in details[g]) = (g \in grants[u])
    /\ dialog # NULL /\ work = NULL /\ ~unknown =>
         dialog.ids = grants[dialog.user]

=============================================================================
