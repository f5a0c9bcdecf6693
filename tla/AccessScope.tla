---------------------------- MODULE AccessScope -----------------------------
(***************************************************************************)
(* The channel groups and what they let a viewer see                         *)
(* (apps/api/src/channel-groups, packages/db/src/channel-group.repository):  *)
(* an administrator arranges channels into groups and viewers into groups,   *)
(* and every read of the API resolves the channels it may answer from in one *)
(* transaction and reads them in another.                                   *)
(*                                                                         *)
(* A read is of a selection (the channels list, the dashboard, the rankings) *)
(* or of one channel by its identifier.  Groups, memberships and channels    *)
(* may change between its two transactions; one read at a time is enough,    *)
(* for reads do not change what others read.                                *)
(***************************************************************************)
EXTENDS Basics, FiniteSets

CONSTANTS GroupIds, Slugs, ChannelIds, Viewers

CONSTANT Admin

Subjects == Viewers \cup {Admin}

ASSUME AdminIsNoViewer == Admin \notin Viewers /\ NULL \notin GroupIds \cup ChannelIds

ASSUME NullIsNoScope == \A channels \in SUBSET ChannelIds : channels # NULL

VARIABLES
    group,       \* group[g]: NULL or [slug, archived, channels, viewers]
    archived,    \* the channels archived, whose memberships stay
    read,        \* the read in progress, or answered
    everSeen,    \* the channels it was entitled to at some moment since it was asked
    alwaysSeen   \* and at every moment

scopeVars == <<group, archived, read, everSeen, alwaysSeen>>

Groups == {g \in GroupIds : group[g] # NULL}
ActiveGroups == {g \in Groups : ~group[g].archived}

\* toAggregate: a group shows its channels without the archived.
ChannelsOf(g) == group[g].channels \ archived

AccessibleGroups(u) ==
    IF u = Admin THEN ActiveGroups ELSE {g \in ActiveGroups : u \in group[g].viewers}

\* Slip: the groups a viewer was ever put in count, archived or not.
EveryGroupCounts(u) ==
    IF u = Admin THEN ChannelIds
    ELSE UNION {ChannelsOf(g) : g \in {x \in Groups : u \in group[x].viewers}}

\* resolveVisibleChannelIds: all of them for the administrator.
VisibleChannels(u) ==
    IF u = Admin THEN ChannelIds ELSE UNION {ChannelsOf(g) : g \in AccessibleGroups(u)}

\* resolveSelectedChannelIds: NULL is not found.
SelectedChannels(u, g, c) ==
    IF g # NULL /\ g \notin AccessibleGroups(u) THEN NULL
    ELSE LET within == IF g = NULL THEN VisibleChannels(u) ELSE ChannelsOf(g) \cap VisibleChannels(u)
         IN  IF c = NULL THEN within
             ELSE IF c \in within \ (IF u = Admin THEN archived ELSE {}) THEN {c}
             ELSE NULL

ScopeInit ==
    /\ group = [g \in GroupIds |-> NULL]
    /\ archived = {}
    /\ read = NULL
    /\ everSeen = {}
    /\ alwaysSeen = {}

----------------------------------------------------------------------------
\* The administrator's operations. What they refuse (a slug in use, a group or a
\* channel that is not active) they leave as it is.

\* A slug is unique among all the groups, the archived included.
FreeSlug(s, g) == \A x \in Groups \ {g} : group[x].slug # s

CreatesGroup(g, s) ==
    /\ group[g] = NULL /\ FreeSlug(s, g)
    /\ group' = [group EXCEPT ![g] = [slug |-> s, archived |-> FALSE, channels |-> {}, viewers |-> {}]]
    /\ UNCHANGED archived

RenamesGroup(g, s) ==
    /\ g \in ActiveGroups /\ FreeSlug(s, g)
    /\ group' = [group EXCEPT ![g].slug = s]
    /\ UNCHANGED archived

ArchivesGroup(g) ==
    /\ g \in ActiveGroups
    /\ group' = [group EXCEPT ![g].archived = TRUE]
    /\ UNCHANGED archived

\* replaceChannels: every one of them active, or none is replaced.
ReplacesChannels(g, channels) ==
    /\ g \in ActiveGroups
    /\ channels \cap archived = {}
    /\ group' = [group EXCEPT ![g].channels = channels]
    /\ UNCHANGED archived

\* replaceViewerGroups: the memberships in archived groups go too.
ReplacesViewerGroups(u, groups) ==
    /\ groups \subseteq ActiveGroups
    /\ group' = [g \in GroupIds |->
                   IF group[g] = NULL THEN NULL
                   ELSE [group[g] EXCEPT !.viewers = IF g \in groups THEN @ \cup {u} ELSE @ \ {u}]]
    /\ UNCHANGED archived

ArchivesChannel(c) ==
    /\ archived' = archived \cup {c}
    /\ UNCHANGED group

Administers ==
    /\ \/ \E g \in GroupIds :
            \/ \E s \in Slugs : CreatesGroup(g, s) \/ RenamesGroup(g, s)
            \/ ArchivesGroup(g)
            \/ \E channels \in SUBSET ChannelIds : ReplacesChannels(g, channels)
       \/ \E u \in Viewers, groups \in SUBSET Groups : ReplacesViewerGroups(u, groups)
       \/ \E c \in ChannelIds \ archived : ArchivesChannel(c)
    /\ UNCHANGED read

----------------------------------------------------------------------------
\* A read: asked, its scope resolved, its data read.
\* Whose a group is, and what it makes of a channel, whatever the code computes.
Member(u, g) == group[g] # NULL /\ ~group[g].archived /\ (u = Admin \/ u \in group[g].viewers)

Grants(u, g, c) == Member(u, g) /\ c \in group[g].channels /\ c \notin archived

Entitled(r) ==
    {c \in ChannelIds :
       /\ r.channel \in {NULL, c}
       /\ r.user = Admin \/ \E g \in GroupIds : Grants(r.user, g, c)
       /\ r.group # NULL => Grants(r.user, r.group, c)
       /\ r.kind = "selection" => c \notin archived}

Asks(u, kind, g, c) ==
    /\ read = NULL
    /\ kind = "one" => g = NULL /\ c # NULL
    /\ read' = [user |-> u, kind |-> kind, group |-> g, channel |-> c,
                phase |-> "asked", scope |-> {}, answer |-> NULL]

\* assertVisible, or resolveSelectedChannelIds.
Resolves ==
    /\ read # NULL /\ read.phase = "asked"
    /\ LET scope == IF read.kind = "selection"
                    THEN SelectedChannels(read.user, read.group, read.channel)
                    ELSE IF read.channel \in VisibleChannels(read.user) THEN {read.channel}
                    ELSE NULL
       IN  read' = IF scope = NULL THEN [read EXCEPT !.phase = "answered", !.answer = {}]
                   ELSE [read EXCEPT !.phase = "resolved", !.scope = scope]
    /\ UNCHANGED <<group, archived>>

\* list filters the archived channels again; findById does not.
ReadsData ==
    /\ read # NULL /\ read.phase = "resolved"
    /\ read' = [read EXCEPT !.phase = "answered",
                            !.answer = IF read.kind = "one" THEN read.scope
                                       ELSE read.scope \ archived]
    /\ UNCHANGED <<group, archived>>

Forgets ==
    /\ read # NULL /\ read.phase = "answered"
    /\ read' = NULL
    /\ UNCHANGED <<group, archived>>

Reads ==
    \/ \E u \in Subjects, kind \in {"one", "selection"}, g \in GroupIds \cup {NULL},
          c \in ChannelIds \cup {NULL} : Asks(u, kind, g, c) /\ UNCHANGED <<group, archived>>
    \/ Resolves \/ ReadsData \/ Forgets

\* What a read is entitled to is watched from its asking to its answer.
Watched ==
    IF read' = NULL THEN everSeen' = {} /\ alwaysSeen' = {}
    ELSE IF read = NULL THEN everSeen' = Entitled(read)' /\ alwaysSeen' = Entitled(read)'
    ELSE IF read.phase = "answered" THEN UNCHANGED <<everSeen, alwaysSeen>>
    ELSE /\ everSeen' = everSeen \cup Entitled(read)'
         /\ alwaysSeen' = alwaysSeen \cap Entitled(read)'

ScopeNext == (Administers \/ Reads) /\ Watched

ScopeSpec == ScopeInit /\ [][ScopeNext]_scopeVars

----------------------------------------------------------------------------
\* A read answers no channel that its asker was not entitled to, under the selection
\* asked for, at some moment of the read, and every channel it was entitled to
\* throughout: a change of the groups between the two transactions of a read costs at
\* most that read.
AnswersWithinScope ==
    read # NULL /\ read.phase = "answered" =>
        /\ read.answer \subseteq everSeen
        /\ alwaysSeen \subseteq read.answer
=============================================================================
