---------------------------- MODULE GroupsScreen ----------------------------
(***************************************************************************)
(* The administrator's screen of the channel groups                         *)
(* (apps/web/src/components/channel-groups-screen.tsx): the groups are loaded *)
(* when it opens and after a creation; a save, of the name and description   *)
(* or of the channels of a group, puts the server's answer into the list and *)
(* leaves the other half of the dialog as it is; an archive takes the group  *)
(* out of the list; and nothing is loaded.                                  *)
(*                                                                         *)
(* A save or an archive while a load is under way is undone in the list when *)
(* the load read before it: that, a lost reply, a failed load and another    *)
(* administrator leave a list that is old until the next load.              *)
(***************************************************************************)
EXTENDS Basics, Integers

CONSTANTS
    ListedGroups, Contents,
    NoChannels,     \* what a new group has of channels
    MaxLoads,       \* bound on the loads
    MaxChanges      \* bound on the changes of groups, of this administrator and of others

\* What a group is: its name and description, and its channels, saved one by one.
GroupParts == {"metadata", "channels"}
GroupDetails == [GroupParts -> Contents]

HeldGroups == [ListedGroups -> GroupDetails \cup {NULL}]
GroupDialogs == [group : ListedGroups, step : {"asked", "read", "open"},
                 detail : GroupDetails \cup {NULL}, old : SUBSET GroupParts]
GroupJobs == [kind : GroupParts \cup {"create", "archive"}, group : ListedGroups,
              content : Contents \cup {NULL}, answer : GroupDetails \cup {NULL},
              step : {"asked", "done", "failed"}]

\* No group, list or record is mistaken for an absent one.
ASSUME GroupsAssumption ==
    /\ NoChannels \in Contents
    /\ NULL \notin ListedGroups
    /\ NULL \notin GroupDetails
    /\ NULL \notin HeldGroups
    /\ NULL \notin [seen : HeldGroups \cup {NULL}]
    /\ NULL \notin GroupDialogs
    /\ NULL \notin GroupJobs

VARIABLES
    held,           \* the server: held[g], the detail of g, or NULL when not active
    used,           \* the groups that were ever created
    changes,        \* changes made since the screen was opened
    list,           \* the list: list[g], or NULL
    listLoad,        \* the load that is not aborted: [seen], or NULL
    loadsMade,
    manage,         \* the dialog of a group: [group, step, detail, old], or NULL; old: the
                    \* parts of its detail that were changed since it was read
    target,         \* the group to be archived, or NULL
    job,            \* what is pending: [kind, group, content, answer, step], or NULL
    old             \* the list may be old

groupsVars == <<held, used, changes, list, listLoad, loadsMade, manage, target, job, old>>

NoGroup == [g \in ListedGroups |-> NULL]

GroupsInit ==
    /\ held \in [ListedGroups -> {NULL, [part \in GroupParts |-> NoChannels]}]
    /\ used = {g \in ListedGroups : held[g] # NULL} /\ changes = 0
    /\ list = NoGroup
    /\ listLoad = [seen |-> NULL] /\ loadsMade = 1
    /\ manage = NULL /\ target = NULL /\ job = NULL
    /\ old = FALSE

Modal == target # NULL \/ (manage # NULL /\ manage.step = "open")

\* refresh, which aborts the load before.
LoadsGroups ==
    /\ listLoad' = [seen |-> NULL]
    /\ loadsMade' = loadsMade + 1
    /\ old' = FALSE

GroupsRead ==
    /\ listLoad # NULL /\ listLoad.seen = NULL
    /\ listLoad' = [seen |-> held]
    /\ UNCHANGED <<held, used, changes, list, loadsMade, manage, target, job, old>>

GroupsArriveInList ==
    /\ listLoad # NULL /\ listLoad.seen # NULL
    /\ list' = listLoad.seen
    /\ listLoad' = NULL
    /\ UNCHANGED <<held, used, changes, loadsMade, manage, target, job, old>>

GroupsFail ==
    /\ listLoad # NULL
    /\ listLoad' = NULL
    /\ old' = TRUE
    /\ UNCHANGED <<held, used, changes, list, loadsMade, manage, target, job>>

RetriesGroups ==
    /\ job = NULL /\ ~Modal /\ loadsMade < MaxLoads
    /\ LoadsGroups
    /\ UNCHANGED <<held, used, changes, list, manage, target, job>>

\* What the server does, for this administrator or for another.
Becomes(g, detail) ==
    /\ held' = [held EXCEPT ![g] = detail]
    /\ used' = used \cup {g}
    /\ changes < MaxChanges /\ changes' = changes + 1

\* The dialog, once read, is not read again.
Outdated(g, parts) ==
    IF manage # NULL /\ manage.group = g /\ manage.step # "asked"
    THEN [manage EXCEPT !.old = @ \cup parts] ELSE manage

OthersSave(g, part, content) ==
    /\ held[g] # NULL
    /\ Becomes(g, [held[g] EXCEPT ![part] = content])
    /\ old' = TRUE
    /\ manage' = Outdated(g, {part})
    /\ UNCHANGED <<list, listLoad, loadsMade, target, job>>

OthersArchive(g) ==
    /\ held[g] # NULL
    /\ Becomes(g, NULL)
    /\ old' = TRUE
    /\ manage' = Outdated(g, GroupParts)
    /\ UNCHANGED <<list, listLoad, loadsMade, target, job>>

----------------------------------------------------------------------------
Pending(kind, g, content) ==
    /\ job = NULL
    /\ job' = [kind |-> kind, group |-> g, content |-> content, answer |-> NULL, step |-> "asked"]
    /\ UNCHANGED <<held, used, changes, list, listLoad, loadsMade, manage, target, old>>

\* A creation that succeeds loads the groups again.
SubmitsGroup(g, content) ==
    ~Modal /\ g \notin used /\ loadsMade < MaxLoads /\ Pending("create", g, content)

\* openManage, whose button is disabled while another is read.
OpensManage(g) ==
    /\ ~Modal /\ manage = NULL /\ job = NULL /\ list[g] # NULL
    /\ manage' = [group |-> g, step |-> "asked", detail |-> NULL, old |-> {}]
    /\ UNCHANGED <<held, used, changes, list, listLoad, loadsMade, target, job, old>>

ManageReads ==
    /\ manage # NULL /\ manage.step = "asked"
    /\ manage' = IF held[manage.group] = NULL THEN NULL
                 ELSE [manage EXCEPT !.step = "read", !.detail = held[manage.group]]
    /\ UNCHANGED <<held, used, changes, list, listLoad, loadsMade, target, job, old>>

ManageArrives ==
    /\ manage # NULL /\ manage.step = "read"
    /\ manage' = [manage EXCEPT !.step = "open"]
    /\ UNCHANGED <<held, used, changes, list, listLoad, loadsMade, target, job, old>>

ClosesManage ==
    /\ manage # NULL /\ job = NULL
    /\ manage.step = "open" \/ manage.step = "read"
    /\ manage' = NULL
    /\ UNCHANGED <<held, used, changes, list, listLoad, loadsMade, target, job, old>>

\* saveMetadata, saveChannels.
SavesGroup(part, content) ==
    /\ manage # NULL /\ manage.step = "open"
    /\ Pending(part, manage.group, content)

PicksArchive(g) ==
    /\ ~Modal /\ job = NULL /\ list[g] # NULL
    /\ target' = g
    /\ UNCHANGED <<held, used, changes, list, listLoad, loadsMade, manage, job, old>>

CancelsArchive ==
    /\ target # NULL /\ job = NULL
    /\ target' = NULL
    /\ UNCHANGED <<held, used, changes, list, listLoad, loadsMade, manage, job, old>>

ConfirmsArchive == target # NULL /\ Pending("archive", target, NULL)

----------------------------------------------------------------------------
\* What a group is after what is pending: a save changes the part it names.
Effect(j) ==
    CASE j.kind = "create" -> [metadata |-> j.content, channels |-> NoChannels]
      [] j.kind = "archive" -> NULL
      [] OTHER -> [held[j.group] EXCEPT ![j.kind] = j.content]

PartsChanged(kind) == IF kind \in GroupParts THEN {kind} ELSE GroupParts

\* The server does it, and the reply comes or is lost; or it refuses.
ServerDoes ==
    /\ job # NULL /\ job.step = "asked"
    /\ job.kind = "create" \/ held[job.group] # NULL
    /\ Becomes(job.group, Effect(job))
    /\ \/ /\ job' = [job EXCEPT !.step = "done", !.answer = Effect(job)]
          /\ old' = (old \/ listLoad # NULL)
       \/ /\ job' = [job EXCEPT !.step = "failed"]
          /\ old' = TRUE
    /\ manage' = IF job.kind \in GroupParts /\ job'.step = "done" THEN manage
                 ELSE Outdated(job.group, PartsChanged(job.kind))
    /\ UNCHANGED <<list, listLoad, loadsMade, target>>

ServerRefuses ==
    /\ job # NULL /\ job.step = "asked"
    /\ job' = [job EXCEPT !.step = "failed"]
    /\ UNCHANGED <<held, used, changes, list, listLoad, loadsMade, manage, target, old>>

\* The answer of a save goes into the list, if the group is still there.
Listed(j) ==
    IF j.kind = "create" \/ list[j.group] = NULL THEN list ELSE [list EXCEPT ![j.group] = j.answer]

\* The dialog keeps what was saved, and of the other part what it had.
JobSucceeds ==
    /\ job # NULL /\ job.step = "done"
    /\ job' = NULL
    /\ list' = Listed(job)
    /\ manage' = IF job.kind \in GroupParts
                 THEN [manage EXCEPT !.detail[job.kind] = job.content, !.old = @ \ {job.kind}]
                 ELSE manage
    /\ target' = IF job.kind = "archive" THEN NULL ELSE target
    /\ IF job.kind = "create" THEN LoadsGroups ELSE UNCHANGED <<listLoad, loadsMade, old>>
    /\ UNCHANGED <<held, used, changes>>

\* A dialog stays open with its error.
JobFails ==
    /\ job # NULL /\ job.step = "failed"
    /\ job' = NULL
    /\ UNCHANGED <<held, used, changes, list, listLoad, loadsMade, manage, target, old>>

GroupsNext ==
    \/ GroupsRead \/ GroupsArriveInList \/ GroupsFail \/ RetriesGroups
    \/ \E g \in ListedGroups :
         \/ OpensManage(g) \/ PicksArchive(g) \/ OthersArchive(g)
         \/ \E content \in Contents :
              \/ SubmitsGroup(g, content)
              \/ \E part \in GroupParts : OthersSave(g, part, content)
    \/ \E part \in GroupParts, content \in Contents : SavesGroup(part, content)
    \/ ManageReads \/ ManageArrives \/ ClosesManage \/ CancelsArchive \/ ConfirmsArchive
    \/ ServerDoes \/ ServerRefuses \/ JobSucceeds \/ JobFails

GroupsSpec == GroupsInit /\ [][GroupsNext]_groupsVars

----------------------------------------------------------------------------
\* Unless they are old, the list shows the active groups as the server holds them, and each
\* part of a dialog, whose save replaces all of that part, starts from the server's.
ShowsTheGroups ==
    ~old /\ listLoad = NULL /\ (job = NULL \/ job.step = "asked") =>
        /\ list = held
        /\ manage # NULL /\ manage.step = "open" =>
              \A part \in GroupParts \ manage.old : manage.detail[part] = held[manage.group][part]
=============================================================================
