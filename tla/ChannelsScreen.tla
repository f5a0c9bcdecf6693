--------------------------- MODULE ChannelsScreen ---------------------------
(***************************************************************************)
(* The administrator's list of the channels                                 *)
(* (apps/web/src/components/channels-screen.tsx), with the form of each       *)
(* channel's monetization: a page of the list is loaded when it is opened,   *)
(* a form is filled once, when its channel is first listed, and a save puts  *)
(* the server's answer into the list and the form (Monetization is the       *)
(* server's side).                                                          *)
(*                                                                         *)
(* The list may be old after a save or an archive that a load under way did  *)
(* not see, a lost reply, or another administrator's update.                *)
(***************************************************************************)
EXTENDS Monetization

CONSTANTS ChannelsPerPage, MaxPages    \* MaxPages bounds the pages asked

PagesSeen == UNION {[S -> MoneySettings \cup {NULL}] : S \in SUBSET PaidChannels}
PageLoads == [seen : PagesSeen \cup {NULL}]
Archivings == [channel : PaidChannels, step : {"asked", "done"}]
Reviews == [date : Days, picked : BOOLEAN]

\* No record is mistaken for an absent one.
ASSUME ChannelsAssumption ==
    /\ NULL \notin PageLoads
    /\ NULL \notin Archivings
    /\ NULL \notin Reviews

VARIABLES
    channelPage,  \* the page open
    pageLoad,     \* the load that is not aborted: [seen], or NULL
    pagesAsked,
    items,        \* items[c], for the channels listed: the setting in force, or NULL
    review,       \* review[c]: the form, [date, picked], or NULL
    mine,         \* the update in progress was submitted here: [picked], or NULL
    archiving,    \* [channel, step], or NULL
    oldItems      \* the list may be old

screenOnly == <<channelPage, pageLoad, pagesAsked, items, review, mine, archiving, oldItems>>

channelsVars == <<moneyVars, screenOnly>>

InForce(c, d) == EffectiveSetting([setting |-> setting], c, d)

\* list: the channels that are not archived, newest first.
PageOfList(p) ==
    LET there == PaidChannels \ closed
    IN  {c \in there : Cardinality({d \in there : d > c}) \div ChannelsPerPage = p - 1}

ChannelsInit ==
    /\ MoneyInit
    /\ channelPage = 1 /\ pageLoad = [seen |-> NULL] /\ pagesAsked = 1
    /\ items = [c \in {} |-> NULL]
    /\ review = [c \in PaidChannels |-> NULL]
    /\ mine = NULL /\ archiving = NULL
    /\ oldItems = FALSE

OpensPage(p) ==
    /\ archiving = NULL /\ pagesAsked < MaxPages
    /\ p \in {channelPage - 1, channelPage + 1} /\ p \in 1..Cardinality(PaidChannels)
    /\ channelPage' = p
    /\ pageLoad' = [seen |-> NULL]
    /\ pagesAsked' = pagesAsked + 1
    /\ oldItems' = FALSE
    /\ UNCHANGED <<moneyVars, items, review, mine, archiving>>

PageRead ==
    /\ pageLoad # NULL /\ pageLoad.seen = NULL
    /\ pageLoad' = [seen |-> [c \in PageOfList(channelPage) |-> InForce(c, day)]]
    /\ UNCHANGED <<moneyVars, channelPage, pagesAsked, items, review, mine, archiving, oldItems>>

\* The date of a form is the day it is first shown.
PageArrives ==
    /\ pageLoad # NULL /\ pageLoad.seen # NULL
    /\ pageLoad' = NULL
    /\ items' = pageLoad.seen
    /\ review' = [c \in PaidChannels |->
                    IF c \notin DOMAIN pageLoad.seen THEN NULL
                    ELSE IF review[c] = NULL THEN [date |-> day, picked |-> FALSE] ELSE review[c]]
    /\ UNCHANGED <<moneyVars, channelPage, pagesAsked, mine, archiving, oldItems>>

PageFails ==
    /\ pageLoad # NULL
    /\ pageLoad' = NULL
    /\ oldItems' = TRUE
    /\ UNCHANGED <<moneyVars, channelPage, pagesAsked, items, review, mine, archiving>>

PicksDate(c, e) ==
    /\ c \in DOMAIN items /\ e <= day
    /\ review' = [review EXCEPT ![c] = [date |-> e, picked |-> TRUE]]
    /\ UNCHANGED <<moneyVars, channelPage, pageLoad, pagesAsked, items, mine, archiving, oldItems>>

----------------------------------------------------------------------------
SubmitsReview(c, rpm) ==
    /\ c \in DOMAIN items
    /\ AsksUpdate(c, review[c].date, rpm)
    /\ mine' = [picked |-> review[c].picked]
    /\ UNCHANGED <<channelPage, pageLoad, pagesAsked, items, review, archiving, oldItems>>

OthersAsk(c, e, rpm) ==
    /\ AsksUpdate(c, e, rpm)
    /\ UNCHANGED screenOnly

ServerCommits ==
    /\ CommitsUpdate
    /\ oldItems' = (oldItems \/ mine = NULL \/ pageLoad # NULL)
    /\ UNCHANGED <<channelPage, pageLoad, pagesAsked, items, review, mine, archiving>>

\* onSaved, for the rows that are still listed.
SavedInList(c, answer) == [x \in DOMAIN items |-> IF x = c THEN answer ELSE items[x]]

ReplyArrives ==
    /\ EndsUpdate
    /\ LET c == update.channel
           saved == mine # NULL /\ update.answer # NULL
       IN  /\ items' = IF saved THEN SavedInList(c, update.answer) ELSE items
           /\ review' = IF saved /\ review[c] # NULL
                        THEN [review EXCEPT ![c] = [date |-> update.answer.from, picked |-> FALSE]]
                        ELSE review
    /\ mine' = NULL
    /\ UNCHANGED <<channelPage, pageLoad, pagesAsked, archiving, oldItems>>

SaveReplyLost ==
    /\ EndsUpdate
    /\ mine' = NULL
    /\ oldItems' = TRUE
    /\ UNCHANGED <<channelPage, pageLoad, pagesAsked, items, review, archiving>>

----------------------------------------------------------------------------
ArchivesItem(c) ==
    /\ archiving = NULL /\ c \in DOMAIN items
    /\ archiving' = [channel |-> c, step |-> "asked"]
    /\ UNCHANGED <<moneyVars, channelPage, pageLoad, pagesAsked, items, review, mine, oldItems>>

ServerArchives ==
    /\ archiving # NULL /\ archiving.step = "asked"
    /\ ClosesChannel(archiving.channel)
    /\ archiving' = [archiving EXCEPT !.step = "done"]
    /\ oldItems' = (oldItems \/ pageLoad # NULL)
    /\ UNCHANGED <<channelPage, pageLoad, pagesAsked, items, review, mine>>

ArchiveReply ==
    /\ archiving # NULL /\ archiving.step = "done"
    /\ archiving' = NULL
    /\ items' = [c \in DOMAIN items \ {archiving.channel} |-> items[c]]
    /\ review' = [review EXCEPT ![archiving.channel] = NULL]
    /\ UNCHANGED <<moneyVars, channelPage, pageLoad, pagesAsked, mine, oldItems>>

\* Refused, or the reply lost.
ArchiveFails ==
    /\ archiving # NULL
    /\ archiving' = NULL
    /\ oldItems' = (oldItems \/ archiving.step = "done")
    /\ UNCHANGED <<moneyVars, channelPage, pageLoad, pagesAsked, items, review, mine>>

ChannelsNext ==
    \/ MidnightPasses /\ UNCHANGED screenOnly
    \/ \E p \in 1..Cardinality(PaidChannels) : OpensPage(p)
    \/ PageRead \/ PageArrives \/ PageFails
    \/ \E c \in PaidChannels, e \in Days : PicksDate(c, e)
    \/ \E c \in PaidChannels, rpm \in Rpms \cup {NULL} :
         SubmitsReview(c, rpm) \/ \E e \in Days : OthersAsk(c, e, rpm)
    \/ ServerCommits \/ ReplyArrives \/ SaveReplyLost
    \/ \E c \in PaidChannels : ArchivesItem(c)
    \/ ServerArchives \/ ArchiveReply \/ ArchiveFails

ChannelsSpec == ChannelsInit /\ [][ChannelsNext]_channelsVars

----------------------------------------------------------------------------
\* Unless it is old, the list shows channels that are not archived, each with the
\* setting in force today, whatever the dates of the updates.
ShowsTheSettings ==
    ~oldItems /\ pageLoad = NULL /\ update = NULL /\ archiving = NULL =>
        \A c \in DOMAIN items : c \notin closed /\ items[c] = InForce(c, day)

----------------------------------------------------------------------------
\* What a comment of the screen and the README say of a review, refuted by a run (README,
\* "Findings").
ByDefault == mine # NULL /\ ~mine.picked /\ update.answer = NULL

Committed == update' # NULL /\ update'.answer # NULL

\* "A review should create this week's effective-dated row by default instead of silently
\* overwriting the date of the previous review": a review submitted with the date its form
\* proposes never changes the setting of an earlier day (channels-screen.tsx, after a save
\* the form proposes the date of the setting answered).
ReviewsMakeNewRows ==
    [][ByDefault /\ Committed =>
         update.from = update.today \/ setting[update.channel][update.from] = NULL]_channelsVars
=============================================================================
