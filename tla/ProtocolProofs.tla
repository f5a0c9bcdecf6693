--------------------------- MODULE ProtocolProofs ---------------------------
(***************************************************************************)
(* Theorems about six of the smaller protocols, for all the values of their  *)
(* constants: one administrator at most (SeedAdmin), answers within the      *)
(* scope of the asker (AccessScope), verdicts of live workers (Heartbeat),   *)
(* reports that stand (AiReports), calls that leave nothing behind           *)
(* (YtdlpRunner), and snapshots whole intervals apart (VideoMonitor).        *)
(***************************************************************************)
EXTENDS AccessScope, SeedAdmin, Heartbeat, AiReports, YtdlpRunner, VideoMonitor,
        FiniteSetTheorems, SequenceTheorems, TLAPS

InProgress == {"asked", "hashing", "hashed"}

SeedTypeOK ==
    /\ seed \in [Seeds -> [email : SeedEmails \cup {NULL}, phase : InProgress \cup
                                   {"idle", "failed", "CREATED", "UNCHANGED", "CONFLICT"}]]
    /\ viewers \subseteq OtherUsers

\* There is one administrator at most, of a run that asked for its address, viewers only
\* beside one, and the runs that answer are of its address.
SeedInv ==
    /\ SeedTypeOK
    /\ admins = {} \/ \E e \in SeedEmails : admins = {e}
    /\ viewers # {} => admins # {}
    /\ \A s \in Seeds : seed[s].phase \in InProgress => seed[s].email \in SeedEmails
    /\ \A s \in Seeds : seed[s].phase \in {"CREATED", "UNCHANGED"} => seed[s].email \in admins

LEMMA SeedInvInit == SeedInit => SeedInv
  BY DEF SeedInit, SeedInv, SeedTypeOK, InProgress

LEMMA SeedInvNext == SeedInv /\ [SeedNext]_seedVars => SeedInv'
<1> SUFFICES ASSUME SeedInv, [SeedNext]_seedVars PROVE SeedInv'
  OBVIOUS
<1> USE DEF SeedInv, SeedTypeOK, InProgress
<1>1. ASSUME NEW s \in Seeds, Locks(s) PROVE SeedInv'
  BY <1>1 DEF Locks
<1>2. ASSUME NEW s \in Seeds, FirstInspects(s) PROVE SeedInv'
  BY <1>2 DEF FirstInspects, Reaches, Inspected
<1>3. ASSUME NEW s \in Seeds, Hashes(s) PROVE SeedInv'
  BY <1>3 DEF Hashes, Reaches
<1>4. ASSUME NEW s \in Seeds, SecondInspects(s) PROVE SeedInv'
  <2>1. CASE Inspected(s) = "EMPTY"
    BY <1>4, <2>1 DEF SecondInspects, Reaches, Inspected
  <2>2. CASE Inspected(s) # "EMPTY"
    BY <1>4, <2>2 DEF SecondInspects, Reaches, Inspected
  <2> QED BY <2>1, <2>2
<1>5. ASSUME NEW s \in Seeds, SeedFails(s) PROVE SeedInv'
  BY <1>5 DEF SeedFails, Reaches
<1>6. ASSUME NEW s \in Seeds, NEW e \in SeedEmails, RunsSeed(s, e) PROVE SeedInv'
  BY <1>6 DEF RunsSeed
<1>7. ASSUME NEW v \in OtherUsers, CreatesViewer(v) PROVE SeedInv'
  BY <1>7 DEF CreatesViewer
<1>8. CASE UNCHANGED seedVars
  BY <1>8 DEF seedVars
<1> QED
  BY <1>1, <1>2, <1>3, <1>4, <1>5, <1>6, <1>7, <1>8 DEF SeedNext

LEMMA SeedInvOne == SeedInv => OneAdministrator
<1> SUFFICES ASSUME SeedInv PROVE Cardinality(admins) <= 1
  BY DEF SeedInv, OneAdministrator
<1>1. CASE admins = {}
  BY <1>1, FS_EmptySet
<1>2. CASE \E e \in SeedEmails : admins = {e}
  BY <1>2, FS_Singleton
<1> QED BY <1>1, <1>2 DEF SeedInv

\* However many bootstraps run at once, crash between their transactions or are run again,
\* with whatever addresses: at most one administrator is created, and every bootstrap that
\* answers that it is there was given its address (seedInitialAdmin).
THEOREM BootstrapCreatesOne == SeedSpec => []OneAdministrator
<1>1. SeedInv /\ [SeedNext]_seedVars => SeedInv'
  BY SeedInvNext
<1> QED
  BY SeedInvInit, <1>1, SeedInvOne, PTL DEF SeedSpec

----------------------------------------------------------------------------
\* The scope of a read.

ReadRecords ==
    [user : Subjects, kind : {"one", "selection"}, group : GroupIds \cup {NULL},
     channel : ChannelIds \cup {NULL}, phase : {"asked", "resolved", "answered"},
     scope : SUBSET ChannelIds, answer : (SUBSET ChannelIds) \cup {NULL}]

GroupTable ==
    [GroupIds -> {NULL} \cup [slug : Slugs, archived : BOOLEAN,
                              channels : SUBSET ChannelIds, viewers : SUBSET Viewers]]

\* Between its two transactions a read holds a scope it was entitled to when it was
\* resolved, but for channels that were archived by then and that the second transaction
\* leaves out; nothing it was entitled to throughout is missing from it.
ScopeHolds ==
    read # NULL =>
        /\ read.kind = "one" => read.channel \in ChannelIds /\ read.group = NULL
        /\ read.phase = "resolved" =>
             /\ (IF read.kind = "one" THEN read.scope ELSE read.scope \ archived) \subseteq everSeen
             /\ alwaysSeen \subseteq read.scope
        /\ read.phase = "answered" => read.answer \subseteq everSeen /\ alwaysSeen \subseteq read.answer

ScopeInv ==
    /\ group \in GroupTable
    /\ archived \subseteq ChannelIds
    /\ read \in ReadRecords \cup {NULL}
    /\ ScopeHolds

LEMMA ScopeInvInit == ScopeInit => ScopeInv
  BY DEF ScopeInit, ScopeInv, ScopeHolds, GroupTable

LEMMA VisibleType == ASSUME ScopeInv, NEW u PROVE VisibleChannels(u) \subseteq ChannelIds
<1>1. \A g \in Groups : ChannelsOf(g) \subseteq ChannelIds
  BY DEF ScopeInv, GroupTable, Groups, ChannelsOf
<1> QED BY <1>1 DEF VisibleChannels, AccessibleGroups, ActiveGroups

LEMMA SelectedType ==
    ASSUME ScopeInv, NEW u, NEW g, NEW c, SelectedChannels(u, g, c) # NULL
    PROVE  SelectedChannels(u, g, c) \subseteq ChannelIds
  BY VisibleType DEF SelectedChannels

\* What the code resolves is what the groups grant.
LEMMA VisibleIsGranted ==
    ASSUME ScopeInv, NEW u, NEW c \in ChannelIds
    PROVE  c \in VisibleChannels(u) <=> u = Admin \/ \E g \in GroupIds : Grants(u, g, c)
  BY DEF VisibleChannels, AccessibleGroups, ActiveGroups, Groups, ChannelsOf, Grants, Member

GrantedSelection(u, g, x) ==
    {c \in ChannelIds :
       /\ x \in {NULL, c}
       /\ u = Admin \/ \E h \in GroupIds : Grants(u, h, c)
       /\ g # NULL => Grants(u, g, c)
       /\ c \notin archived}

LEMMA SelectedIsGranted ==
    ASSUME ScopeInv, NEW u, NEW g \in GroupIds \cup {NULL}, NEW x \in ChannelIds \cup {NULL}
    PROVE  (IF SelectedChannels(u, g, x) = NULL THEN {} ELSE SelectedChannels(u, g, x) \ archived)
           = GrantedSelection(u, g, x)
<1> DEFINE within == IF g = NULL THEN VisibleChannels(u) ELSE ChannelsOf(g) \cap VisibleChannels(u)
<1>1. ASSUME g # NULL PROVE g \in AccessibleGroups(u) <=> Member(u, g)
  BY <1>1 DEF AccessibleGroups, ActiveGroups, Groups, Member
<1>2. CASE g # NULL /\ g \notin AccessibleGroups(u)
  BY <1>1, <1>2 DEF SelectedChannels, Grants, GrantedSelection
<1>3. CASE ~(g # NULL /\ g \notin AccessibleGroups(u))
  <2>1. within \subseteq ChannelIds
    BY VisibleType
  <2>2. \A c \in ChannelIds :
          c \in within \ archived <=> /\ u = Admin \/ \E h \in GroupIds : Grants(u, h, c)
                                      /\ g # NULL => Grants(u, g, c)
                                      /\ c \notin archived
    BY <1>1, <1>3, VisibleIsGranted DEF ChannelsOf, Grants
  <2>3. SelectedChannels(u, g, x) =
          IF x = NULL THEN within
          ELSE IF x \in within \ (IF u = Admin THEN archived ELSE {}) THEN {x} ELSE NULL
    BY <1>3 DEF SelectedChannels
  <2> HIDE DEF within
  <2>4. CASE x = NULL
    BY <2>1, <2>2, <2>3, <2>4, NullIsNoScope DEF GrantedSelection
  <2>5. CASE x # NULL
    <3>1. {x} # NULL
      BY <2>5, NullIsNoScope
    <3> QED BY <2>1, <2>2, <2>3, <2>5, <3>1, AdminIsNoViewer DEF GrantedSelection
  <2> QED BY <2>4, <2>5
<1> QED BY <1>2, <1>3

\* What the administrator does takes no channel out of the archive.
LEMMA AdministersType ==
    ASSUME ScopeInv, Administers
    PROVE  /\ group' \in GroupTable
           /\ archived \subseteq archived' /\ archived' \subseteq ChannelIds
           /\ read' = read
<1> USE DEF ScopeInv, GroupTable, Groups, ActiveGroups
<1> DEFINE Typed == /\ group' \in GroupTable
                    /\ archived \subseteq archived' /\ archived' \subseteq ChannelIds
<1>1. ASSUME NEW g \in GroupIds, NEW s \in Slugs, CreatesGroup(g, s) PROVE Typed
  BY <1>1 DEF CreatesGroup
<1>2. ASSUME NEW g \in GroupIds, NEW s \in Slugs, RenamesGroup(g, s) PROVE Typed
  BY <1>2 DEF RenamesGroup
<1>3. ASSUME NEW g \in GroupIds, ArchivesGroup(g) PROVE Typed
  BY <1>3 DEF ArchivesGroup
<1>4. ASSUME NEW g \in GroupIds, NEW channels \in SUBSET ChannelIds, ReplacesChannels(g, channels)
      PROVE  Typed
  BY <1>4 DEF ReplacesChannels
<1>5. ASSUME NEW u \in Viewers, NEW groups \in SUBSET Groups, ReplacesViewerGroups(u, groups)
      PROVE  Typed
  BY <1>5 DEF ReplacesViewerGroups
<1>6. ASSUME NEW c \in ChannelIds, ArchivesChannel(c) PROVE Typed
  BY <1>6 DEF ArchivesChannel
<1> HIDE DEF Typed
<1>7. Typed
  BY <1>1, <1>2, <1>3, <1>4, <1>5, <1>6 DEF Administers
<1> QED BY <1>7 DEF Administers, Typed

LEMMA AdministersHolds ==
    ASSUME ScopeInv, Administers, Watched PROVE ScopeHolds'
<1>1. archived \subseteq archived' /\ read' = read
  BY AdministersType
<1>2. read # NULL /\ read.phase = "answered" => UNCHANGED <<everSeen, alwaysSeen>>
  BY <1>1 DEF Watched
<1>3. read # NULL => everSeen \subseteq everSeen' /\ alwaysSeen' \subseteq alwaysSeen
  BY <1>1 DEF Watched
<1> QED BY <1>1, <1>2, <1>3 DEF ScopeInv, ScopeHolds

LEMMA AsksHolds ==
    ASSUME ScopeInv, NEW u \in Subjects, NEW kind \in {"one", "selection"},
           NEW g \in GroupIds \cup {NULL}, NEW c \in ChannelIds \cup {NULL}, Asks(u, kind, g, c)
    PROVE  read' \in ReadRecords \cup {NULL} /\ ScopeHolds'
  BY DEF Asks, ReadRecords, ScopeHolds

\* A read that is resolved is entitled to its scope at that moment.
LEMMA ResolvesHolds ==
    ASSUME ScopeInv, Resolves, Watched
    PROVE  read' \in ReadRecords \cup {NULL} /\ ScopeHolds'
<1> DEFINE scope == IF read.kind = "selection"
                    THEN SelectedChannels(read.user, read.group, read.channel)
                    ELSE IF read.channel \in VisibleChannels(read.user) THEN {read.channel}
                    ELSE NULL
<1>1. /\ read \in ReadRecords /\ read # NULL /\ read.phase = "asked"
      /\ UNCHANGED <<group, archived>>
      /\ read.kind = "one" => read.channel \in ChannelIds /\ read.group = NULL
      /\ read' = IF scope = NULL THEN [read EXCEPT !.phase = "answered", !.answer = {}]
                 ELSE [read EXCEPT !.phase = "resolved", !.scope = scope]
  BY DEF Resolves, ScopeInv, ScopeHolds
<1>2. scope # NULL => scope \subseteq ChannelIds
  <2>1. CASE read.kind = "selection"
    BY <2>1, SelectedType
  <2>2. CASE read.kind # "selection"
    BY <1>1, <2>2 DEF ReadRecords
  <2> QED BY <2>1, <2>2
<1>3. read' \in ReadRecords
  BY <1>1, <1>2 DEF ReadRecords
<1>4. /\ read'.user = read.user /\ read'.kind = read.kind /\ read'.group = read.group
      /\ read'.channel = read.channel
      /\ scope = NULL => read'.phase = "answered" /\ read'.answer = {}
      /\ scope # NULL => read'.phase = "resolved" /\ read'.scope = scope
  BY <1>1 DEF ReadRecords
<1>5. Entitled(read)' = Entitled(read)
  BY <1>1, <1>4 DEF Entitled, Grants, Member
<1>6. Entitled(read) = IF scope = NULL THEN {}
                       ELSE IF read.kind = "one" THEN scope ELSE scope \ archived
  <2>1. CASE read.kind = "one"
    <3>1. {read.channel} # NULL /\ read.channel # NULL
      BY <1>1, <2>1, NullIsNoScope, AdminIsNoViewer
    <3>2. Entitled(read) = VisibleChannels(read.user) \cap {read.channel}
      BY <1>1, <2>1, <3>1, VisibleIsGranted, VisibleType DEF Entitled
    <3> QED BY <2>1, <3>1, <3>2
  <2>2. CASE read.kind = "selection"
    <3>1. scope = SelectedChannels(read.user, read.group, read.channel)
      BY <2>2
    <3>2. Entitled(read) = GrantedSelection(read.user, read.group, read.channel)
      BY <2>2 DEF Entitled, GrantedSelection
    <3>3. read.group \in GroupIds \cup {NULL} /\ read.channel \in ChannelIds \cup {NULL}
      BY <1>1 DEF ReadRecords
    <3> DEFINE selected == SelectedChannels(read.user, read.group, read.channel)
    <3>4. (IF selected = NULL THEN {} ELSE selected \ archived)
          = GrantedSelection(read.user, read.group, read.channel)
      BY <3>3, SelectedIsGranted
    <3> HIDE DEF scope, selected
    <3>5. scope = selected
      BY <3>1 DEF selected
    <3> QED BY <2>2, <3>2, <3>4, <3>5
  <2> QED BY <1>1, <2>1, <2>2 DEF ReadRecords
<1> HIDE DEF scope
<1>7. CASE read' = NULL
  BY <1>3, <1>7 DEF ScopeHolds
<1>8. CASE read' # NULL
  <2>1. /\ everSeen' = everSeen \cup Entitled(read)
        /\ alwaysSeen' = alwaysSeen \cap Entitled(read)
    BY <1>1, <1>5, <1>8 DEF Watched
  <2> QED BY <1>1, <1>3, <1>4, <1>6, <2>1 DEF ScopeHolds
<1> QED BY <1>7, <1>8

\* The second transaction leaves out what was archived since, as the entitlement does.
LEMMA ReadsDataHolds ==
    ASSUME ScopeInv, ReadsData, Watched
    PROVE  read' \in ReadRecords \cup {NULL} /\ ScopeHolds'
<1>1. /\ read \in ReadRecords /\ read # NULL /\ read.phase = "resolved"
      /\ UNCHANGED <<group, archived>>
      /\ read.kind = "one" => read.channel \in ChannelIds /\ read.group = NULL
      /\ (IF read.kind = "one" THEN read.scope ELSE read.scope \ archived) \subseteq everSeen
      /\ alwaysSeen \subseteq read.scope
  BY DEF ReadsData, ScopeInv, ScopeHolds
<1>2. /\ read' \in ReadRecords
      /\ read'.kind = read.kind /\ read'.group = read.group
      /\ read'.channel = read.channel /\ read'.phase = "answered"
      /\ read'.answer = IF read.kind = "one" THEN read.scope ELSE read.scope \ archived
  BY <1>1 DEF ReadsData, ReadRecords
<1>3. CASE read' = NULL
  BY <1>2, <1>3 DEF ScopeHolds
<1>4. CASE read' # NULL
  <2>1. /\ everSeen' = everSeen \cup Entitled(read)'
        /\ alwaysSeen' = alwaysSeen \cap Entitled(read)'
    BY <1>1, <1>4 DEF Watched
  <2>2. read.kind # "one" => Entitled(read)' \cap archived = {}
    BY <1>1, <1>2 DEF Entitled, ReadRecords
  <2> QED BY <1>1, <1>2, <2>1, <2>2 DEF ScopeHolds
<1> QED BY <1>3, <1>4

LEMMA ScopeInvNext == ScopeInv /\ [ScopeNext]_scopeVars => ScopeInv'
<1> SUFFICES ASSUME ScopeInv, [ScopeNext]_scopeVars PROVE ScopeInv'
  OBVIOUS
<1>1. CASE Administers /\ Watched
  BY <1>1, AdministersType, AdministersHolds DEF ScopeInv
<1>2. CASE Reads /\ Watched
  <2>1. read' \in ReadRecords \cup {NULL} /\ ScopeHolds' /\ UNCHANGED <<group, archived>>
    <3>1. ASSUME NEW u \in Subjects, NEW kind \in {"one", "selection"},
                 NEW g \in GroupIds \cup {NULL}, NEW c \in ChannelIds \cup {NULL},
                 Asks(u, kind, g, c), UNCHANGED <<group, archived>>
          PROVE  read' \in ReadRecords \cup {NULL} /\ ScopeHolds' /\ UNCHANGED <<group, archived>>
      BY <3>1, AsksHolds
    <3>2. CASE Resolves
      BY <1>2, <3>2, ResolvesHolds DEF Resolves
    <3>3. CASE ReadsData
      BY <1>2, <3>3, ReadsDataHolds DEF ReadsData
    <3>4. CASE Forgets
      BY <3>4 DEF Forgets, ScopeHolds
    <3> QED BY <1>2, <3>1, <3>2, <3>3, <3>4 DEF Reads
  <2> QED BY <2>1 DEF ScopeInv
<1>3. CASE UNCHANGED scopeVars
  BY <1>3 DEF scopeVars, ScopeInv, ScopeHolds
<1> QED BY <1>1, <1>2, <1>3 DEF ScopeNext

\* A read answers only channels its asker was entitled to at some moment of it, and all it
\* was entitled to throughout, however the administrator rearranges groups, viewers and
\* channels between its two transactions (resolveSelectedChannelIds, then list or get).
THEOREM ReadsStayInScope == ScopeSpec => []AnswersWithinScope
<1>1. ScopeInv => AnswersWithinScope
  BY DEF ScopeInv, ScopeHolds, AnswersWithinScope
<1> QED
  BY ScopeInvInit, ScopeInvNext, <1>1, PTL DEF ScopeSpec

----------------------------------------------------------------------------
\* The heartbeats.

HeartbeatTypeOK ==
    /\ instant \in Nat
    /\ heartbeat \in [WorkerIds -> Nat \cup {NULL}]
    /\ worker \in [WorkerIds -> [state : {"stopped", "running", "stopping"}, writing : BOOLEAN,
                                 deadline : Nat \cup {NULL}]]
    /\ alive \in [WorkerIds -> Nat \cup {NULL}]

\* Only a process that is there writes, so no row is later than its process was there.
BeatsOfTheLiving ==
    \A w \in WorkerIds :
        /\ worker[w].state = "stopped" => ~worker[w].writing
        /\ worker[w].state # "stopped" => alive[w] = instant
        /\ heartbeat[w] # NULL => alive[w] # NULL /\ heartbeat[w] <= alive[w] /\ alive[w] <= instant

HeartbeatInv == HeartbeatTypeOK /\ BeatsOfTheLiving /\ HealthyMeansAlive

LEMMA HeartbeatInvInit == HeartbeatInit => HeartbeatInv
  BY HeartbeatAssumption
  DEF HeartbeatInit, HeartbeatInv, HeartbeatTypeOK, BeatsOfTheLiving, HealthyMeansAlive, Stopped

LEMMA HeartbeatInvNext == HeartbeatInv /\ [HeartbeatNext]_heartbeatVars => HeartbeatInv'
<1> SUFFICES ASSUME HeartbeatInv, [HeartbeatNext]_heartbeatVars PROVE HeartbeatInv'
  OBVIOUS
<1> USE HeartbeatAssumption DEF HeartbeatInv, HeartbeatTypeOK, BeatsOfTheLiving
<1>1. CASE HeartbeatTick
  BY <1>1 DEF HeartbeatTick, HealthyMeansAlive
<1>2. CASE ApiAsks
  BY <1>2 DEF ApiAsks, HealthyMeansAlive
<1>3. CASE ApiAnswers
  BY <1>3 DEF ApiAnswers, HealthyMeansAlive, Fresh
<1>4. CASE ApiGivesUp
  BY <1>4 DEF ApiGivesUp, HealthyMeansAlive
<1>5. ASSUME NEW w \in WorkerIds, Bootstraps(w) PROVE HeartbeatInv'
  <2>1. HeartbeatTypeOK'
    BY <1>5 DEF Bootstraps
  <2>2. BeatsOfTheLiving'
    BY <1>5 DEF Bootstraps
  <2>3. HealthyMeansAlive'
    BY <1>5 DEF Bootstraps, HealthyMeansAlive
  <2> QED BY <2>1, <2>2, <2>3
<1>6. ASSUME NEW w \in WorkerIds, TimerFires(w) PROVE HeartbeatInv'
  BY <1>6 DEF TimerFires, HealthyMeansAlive
<1>7. ASSUME NEW w \in WorkerIds, WriteLands(w) PROVE HeartbeatInv'
  <2>1. HeartbeatTypeOK'
    BY <1>7 DEF WriteLands
  <2>2. BeatsOfTheLiving'
    BY <1>7 DEF WriteLands
  <2>3. HealthyMeansAlive'
    BY <1>7 DEF WriteLands, HealthyMeansAlive
  <2> QED BY <2>1, <2>2, <2>3
<1>8. ASSUME NEW w \in WorkerIds, WriteFails(w) PROVE HeartbeatInv'
  BY <1>8, ZenonT(40) DEF WriteFails, HealthyMeansAlive
<1>9. ASSUME NEW w \in WorkerIds, ShutsDown(w) PROVE HeartbeatInv'
  <2>1. HeartbeatTypeOK'
    <3>1. instant + ShutdownWait \in Nat
      OBVIOUS
    <3>2. [worker[w] EXCEPT !.state = "stopping", !.deadline = instant + ShutdownWait]
            \in [state : {"stopped", "running", "stopping"}, writing : BOOLEAN,
                 deadline : Nat \cup {NULL}]
      BY <3>1, ZenonT(40)
    <3> QED BY <1>9, <3>1, <3>2 DEF ShutsDown
  <2>2. BeatsOfTheLiving'
    <3>1. \A x \in WorkerIds : /\ worker'[x].state # "stopped" <=> worker[x].state # "stopped"
                              /\ worker'[x].writing = worker[x].writing
      BY <1>9 DEF ShutsDown
    <3> QED BY <1>9, <3>1 DEF ShutsDown
  <2>3. HealthyMeansAlive'
    BY <1>9 DEF ShutsDown, HealthyMeansAlive
  <2> QED BY <2>1, <2>2, <2>3
<1>10. ASSUME NEW w \in WorkerIds, Disconnects(w) PROVE HeartbeatInv'
  BY <1>10 DEF Disconnects, Stopped, HealthyMeansAlive
<1>11. ASSUME NEW w \in WorkerIds, Crashes(w) PROVE HeartbeatInv'
  BY <1>11 DEF Crashes, Stopped, HealthyMeansAlive
<1>12. ASSUME NEW w \in WorkerIds, ContainerChecks(w) PROVE HeartbeatInv'
  BY <1>12 DEF ContainerChecks, Fresh, HealthyMeansAlive
<1>13. CASE UNCHANGED heartbeatVars
  BY <1>13 DEF heartbeatVars, HealthyMeansAlive
<1> QED
  BY <1>1, <1>2, <1>3, <1>4, <1>5, <1>6, <1>7, <1>8, <1>9, <1>10, <1>11, <1>12, <1>13
  DEF HeartbeatNext

\* A worker that a health check calls well was there less than the stale age before,
\* whatever the writes that are late, hang or outlive a shutdown, and however many
\* workers share the table (HeartbeatService, getWorkerCheck, evaluateWorkerHealth).
THEOREM VerdictsAreOfTheLiving == HeartbeatSpec => []HealthyMeansAlive
<1>1. HeartbeatInv => HealthyMeansAlive
  BY DEF HeartbeatInv
<1> QED
  BY HeartbeatInvInit, HeartbeatInvNext, <1>1, PTL DEF HeartbeatSpec

----------------------------------------------------------------------------
\* The AI reports.

Current(o) == report[o] # NULL /\ report[o].print = "current"

UnderWay(p) == poll[p].phase \notin {"none", "next"}

\* Polls that overlap are at different occurrences, and one that asks a provider found no
\* current report: nobody else can have stored one since.
PollsApart ==
    /\ poll = [p \in Polls |-> poll[p]]
    /\ report = [o \in Occurrences |-> report[o]]
    /\ \A p, q \in Polls :
         p # q /\ UnderWay(p) /\ UnderWay(q) => poll[p].todo[1] # poll[q].todo[1]
    /\ \A p \in Polls :
         poll[p].phase = "asking" /\ poll[p].todo[1] \in Occurrences => ~Current(poll[p].todo[1])

LEMMA PollsApartInit == ReportsInit => PollsApart
  BY DEF ReportsInit, PollsApart, UnderWay, NoPoll

\* A poll that ends a run, or skips one, is no longer under way.
LEMMA GoesOnIdle == ASSUME NEW q PROVE GoesOn(q).phase \in {"none", "next"}
  BY DEF GoesOn, NoPoll

LEMMA PollsApartNext ==
    ASSUME PollsApart, [ReportsNext]_reportsVars
    PROVE  PollsApart' /\ \A o \in Occurrences : Current(o) => report'[o] = report[o]
<1> DEFINE Stands == \A o \in Occurrences : Current(o) => report'[o] = report[o]
\* A step of one poll that leaves the reports, and stays at its occurrence or goes on.
<1>1. ASSUME NEW p \in Polls, NEW q, poll' = [poll EXCEPT ![p] = q], report' = report,
             q.phase \in {"none", "next"} \/ (UnderWay(p) /\ q.todo = poll[p].todo),
             q.phase = "asking" => ~Current(poll[p].todo[1])
      PROVE  PollsApart' /\ Stands
  BY <1>1 DEF PollsApart, UnderWay, Current
<1>2. ASSUME NEW p \in Polls, PollStarts(p) PROVE PollsApart' /\ Stands
  <2> DEFINE q == [phase |-> "next", at |-> time, todo |-> Due(time)]
  <2>1. poll' = [poll EXCEPT ![p] = q] /\ report' = report /\ q.phase = "next"
    BY <1>2 DEF PollStarts, reportTables
  <2> HIDE DEF q
  <2> QED BY <1>1, <2>1
<1>3. ASSUME NEW p \in Polls, PollSkips(p) PROVE PollsApart' /\ Stands
  <2> DEFINE q == GoesOn(poll[p])
  <2>1. poll' = [poll EXCEPT ![p] = q] /\ report' = report
    BY <1>3 DEF PollSkips, PollsApart, reportTables
  <2>2. q.phase \in {"none", "next"}
    BY GoesOnIdle
  <2> HIDE DEF q
  <2> QED BY <1>1, <2>1, <2>2
<1>4. ASSUME NEW p \in Polls, RunStarts(p) PROVE PollsApart' /\ Stands
  <2>1. \A q \in Polls : UnderWay(q) => poll[q].todo[1] # poll[p].todo[1]
    BY <1>4 DEF RunStarts, MayRun, Running, UnderWay
  <2> QED BY <1>4, <2>1 DEF RunStarts, reportTables, PollsApart, UnderWay, Current
<1>5. ASSUME NEW p \in Polls, NEW done \in BOOLEAN, Ends(p, done), report' = report
      PROVE  PollsApart' /\ Stands
  <2> DEFINE q == GoesOn(poll[p])
  <2>1. poll' = [poll EXCEPT ![p] = q]
    BY <1>5 DEF Ends, PollsApart
  <2>2. q.phase \in {"none", "next"}
    BY GoesOnIdle
  <2> HIDE DEF q
  <2> QED BY <1>1, <1>5, <2>1, <2>2
<1>6. ASSUME NEW p \in Polls, Creates(p) PROVE PollsApart' /\ Stands
  BY <1>1, <1>6 DEF Creates, PollsApart, UnderWay
<1>7. ASSUME NEW p \in Polls, Gathers(p) PROVE PollsApart' /\ Stands
  BY <1>1, <1>7 DEF Gathers, PollsApart, UnderWay, reportTables
<1>8. ASSUME NEW p \in Polls, FindsReport(p) PROVE PollsApart' /\ Stands
  BY <1>1, <1>8 DEF FindsReport, Matches, Current, UnderWay, reportTables
<1>9. ASSUME NEW p \in Polls, StoresReport(p) PROVE PollsApart' /\ Stands
  <2>1. \A o \in Occurrences : o # poll[p].todo[1] => report'[o] = report[o]
    BY <1>9 DEF StoresReport, PollsApart
  <2>2. poll[p].todo[1] \in Occurrences => ~Current(poll[p].todo[1])
    BY <1>9 DEF StoresReport, PollsApart
  <2>3. Stands
    BY <2>1, <2>2
  <2>4. report' = [o \in Occurrences |-> report'[o]]
    BY <1>9 DEF StoresReport, PollsApart
  <2>5. /\ poll' = [x \in Polls |-> poll'[x]]
        /\ \A x \in Polls : x # p => poll'[x] = poll[x]
        /\ poll'[p].phase = "ending" /\ poll'[p].todo = poll[p].todo
    BY <1>9 DEF StoresReport, PollsApart
  <2>6. UnderWay(p)
    BY <1>9 DEF StoresReport, UnderWay
  <2> QED BY <2>1, <2>3, <2>4, <2>5, <2>6 DEF PollsApart, UnderWay, Current
<1>10. ASSUME NEW p \in Polls, StoresFailure(p) PROVE PollsApart' /\ Stands
  BY <1>1, <1>10 DEF StoresFailure, UnderWay, reportTables
<1>11. ASSUME NEW p \in Polls, PipelineThrows(p) PROVE PollsApart' /\ Stands
  BY <1>1, <1>11 DEF PipelineThrows, UnderWay, reportTables
<1>12. ASSUME NEW p \in Polls, PollStep(p) PROVE PollsApart' /\ Stands
  <2>1. CASE CreateFails(p)
    BY <1>5, <2>1 DEF CreateFails, reportTables
  <2>2. CASE Completes(p)
    <3>1. Ends(p, TRUE) \/ Ends(p, FALSE)
      BY <2>2 DEF Completes, Ends, Known
    <3> QED BY <1>5, <2>2, <3>1 DEF Completes
  <2>3. CASE CompletesFailed(p)
    BY <1>5, <2>3 DEF CompletesFailed
  <2>4. CASE CompletionFails(p)
    BY <1>5, <2>4 DEF CompletionFails, reportTables
  <2> QED
    BY <1>12, <1>2, <1>3, <1>4, <1>6, <1>7, <1>8, <1>9, <1>10, <1>11, <2>1, <2>2, <2>3, <2>4
    DEF PollStep
<1>13. CASE WorkerRestarts
  BY <1>13 DEF WorkerRestarts, reportTables, PollsApart, UnderWay, NoPoll
<1>14. CASE TimePasses
  BY <1>14 DEF TimePasses, reportTables, PollsApart, UnderWay, Current
<1>15. CASE UNCHANGED reportsVars
  BY <1>15 DEF reportsVars, reportTables, PollsApart, UnderWay, Current
<1> QED BY <1>12, <1>13, <1>14, <1>15 DEF ReportsNext

\* A report made under the current prompts is never made again nor replaced, however many
\* polls overlap, runs fail after storing it, or workers restart (AiReportJob.run's lookup
\* by the fingerprint of the occurrence, runOne's set of occurrences under way).
THEOREM ReportsStand == ReportsSpec => ReportStands
<1>1. PollsApart /\ [ReportsNext]_reportsVars =>
        PollsApart' /\ [\A o \in Occurrences :
           report[o] # NULL /\ report[o].print = "current" => report'[o] = report[o]]_reportsVars
  BY PollsApartNext DEF Current
<1> QED
  BY PollsApartInit, <1>1, PTL DEF ReportsSpec, ReportStands

----------------------------------------------------------------------------
\* What is due is an occurrence.
LEMMA DueType ==
    ASSUME NEW t \in 0..MaxTime
    PROVE  Due(t) \in Seq(Occurrences) /\ Due(t) # <<>>
<1>1. /\ DayLength \in Nat \ {0} /\ WeekLength \in Nat \ {0} /\ MaxTime \in Nat /\ t \in Nat
      /\ t <= MaxTime
  BY ReportsAssumption
<1>2. ASSUME NEW a \in Nat, NEW b \in Nat, a <= b, NEW k \in Nat \ {0}
      PROVE  a \div k <= b \div k /\ a \div k \in Nat /\ b \div k \in Nat
  BY <1>2, SMTT(30)
<1>3. Day(t) \in Nat /\ Day(MaxTime) \in Nat /\ Day(t) <= Day(MaxTime)
  BY <1>1, <1>2 DEF Day
<1>4. Day(t) % WeekLength \in 0..WeekLength - 1
  BY <1>1, <1>3
<1>5. WeeklyDate(t) \in -WeekLength..Day(MaxTime)
  <2>1. Day(t) % WeekLength <= Day(t)
    <3>1. ASSUME NEW a \in Nat, NEW k \in Nat \ {0} PROVE a % k <= a
      BY <3>1, SMTT(30)
    <3> QED BY <1>1, <1>3, <3>1
  <2> DEFINE d == Day(t)
             since == d % WeekLength
  <2>2. WeeklyDate(t) = d - WeekLength \/ WeeklyDate(t) = d - since
    BY DEF WeeklyDate
  <2>3. /\ d \in Nat /\ d <= Day(MaxTime) /\ Day(MaxTime) \in Nat
        /\ since \in 0..WeekLength - 1 /\ since <= d
    BY <1>3, <1>4, <2>1
  <2> HIDE DEF d, since
  <2> QED BY <1>1, <2>2, <2>3
<1>6. /\ Occurrence("DAILY", Day(t)) \in Occurrences
      /\ Occurrence("WEEKLY", WeeklyDate(t)) \in Occurrences
  BY <1>1, <1>3, <1>5 DEF Occurrences, Kinds
<1> QED BY <1>6 DEF Due

LEMMA GoesOnType ==
    ASSUME NEW q, q.todo \in Seq(Occurrences), q.todo # <<>>, GoesOn(q).phase # "none"
    PROVE  GoesOn(q).todo \in Seq(Occurrences) /\ GoesOn(q).todo # <<>>
<1>1. Len(q.todo) # 1 /\ GoesOn(q).todo = Tail(q.todo)
  BY DEF GoesOn, NoPoll
<1>2. ASSUME NEW s \in Seq(Occurrences), s # <<>>, Len(s) # 1
      PROVE  Tail(s) \in Seq(Occurrences) /\ Tail(s) # <<>>
  <2>1. Len(s) \in Nat /\ Len(s) > 0 /\ Tail(s) \in Seq(Occurrences) /\ Len(Tail(s)) = Len(s) - 1
    BY <1>2, EmptySeq, HeadTailProperties
  <2>2. Len(Tail(s)) # 0
    BY <1>2, <2>1
  <2> QED BY <2>1, <2>2, EmptySeq
<1> QED BY <1>1, <1>2

SyncRows == [of : Occurrences, status : {"RUNNING", "SUCCESS", "PARTIAL", "FAILED"}]

Reported == {o \in Occurrences : Current(o)}

\* A poll that is to end well has seen or stored the report, and its row of sync_runs is of
\* its occurrence.
SoundPoll(q, rows, reported) ==
    /\ q.phase # "none" => q.todo \in Seq(Occurrences) /\ q.todo # <<>>
    /\ q.phase \in {"gathering", "finding", "asking", "ending", "failing"} =>
         q.run \in 1..Len(rows) /\ rows[q.run].of = q.todo[1]
    /\ q.phase \in {"finding", "asking"} => q.readAt \in 0..MaxTime
    /\ q.phase = "ending" =>
         /\ q.status \in {"SUCCESS", "PARTIAL"}
         /\ q.done \in BOOLEAN
         /\ q.done \/ q.status = "SUCCESS" => q.todo[1] \in reported

ReportsInv ==
    /\ PollsApart
    /\ time \in 0..MaxTime
    /\ syncRuns \in Seq(SyncRows)
    /\ \A p \in Polls : SoundPoll(poll[p], syncRuns, Reported)
    /\ DoneMeansReported

LEMMA ReportsInvInit == ReportsInit => ReportsInv
<1> SUFFICES ASSUME ReportsInit PROVE ReportsInv
  OBVIOUS
<1>1. \A o \in Occurrences : ~Current(o)
  BY DEF ReportsInit, Current
<1> QED
  BY <1>1, PollsApartInit, ReportsAssumption
  DEF ReportsInit, ReportsInv, SoundPoll, NoPoll, DoneMeansReported, Current

\* A poll stays sound when reports are added, and rows that keep their occurrences.
LEMMA StaysSound ==
    ASSUME NEW q, NEW rows \in Seq(SyncRows), NEW more \in Seq(SyncRows), NEW R, NEW S,
           SoundPoll(q, rows, R), R \subseteq S, Len(rows) <= Len(more),
           \A i \in 1..Len(rows) : more[i].of = rows[i].of
    PROVE  SoundPoll(q, more, S)
  BY DEF SoundPoll

LEMMA IdleSound ==
    ASSUME NEW q, NEW rows, NEW R, SoundPoll(q, rows, R), q.phase # "none"
    PROVE  SoundPoll(GoesOn(q), rows, R)
  BY GoesOnType, GoesOnIdle DEF SoundPoll

\* A step of one poll.
LEMMA PollMoves ==
    ASSUME ReportsInv, [ReportsNext]_reportsVars, time' = time,
           NEW p \in Polls, NEW q, poll' = [poll EXCEPT ![p] = q],
           syncRuns' \in Seq(SyncRows), Len(syncRuns) <= Len(syncRuns'),
           \A i \in 1..Len(syncRuns) : syncRuns'[i].of = syncRuns[i].of,
           SoundPoll(q, syncRuns', Reported'), DoneMeansReported'
    PROVE  ReportsInv'
<1>1. PollsApart' /\ Reported \subseteq Reported'
  BY PollsApartNext DEF ReportsInv, Reported, Current
<1>2. \A x \in Polls : SoundPoll(poll'[x], syncRuns', Reported')
  <2>1. ASSUME NEW x \in Polls PROVE SoundPoll(poll'[x], syncRuns', Reported')
    <3>1. CASE x = p
      BY <3>1 DEF ReportsInv, PollsApart
    <3>2. CASE x # p
      <4>1. SoundPoll(poll[x], syncRuns, Reported) /\ poll'[x] = poll[x]
        BY <3>2 DEF ReportsInv, PollsApart
      <4> QED BY <1>1, <4>1, StaysSound DEF ReportsInv
    <3> QED BY <3>1, <3>2
  <2> QED BY <2>1
<1> QED BY <1>1, <1>2 DEF ReportsInv

\* A step of one poll that leaves the tables.
LEMMA PollMovesAlone ==
    ASSUME ReportsInv, [ReportsNext]_reportsVars, UNCHANGED <<time, reportTables, completed>>,
           NEW p \in Polls, NEW q, poll' = [poll EXCEPT ![p] = q],
           SoundPoll(q, syncRuns, Reported)
    PROVE  ReportsInv'
<1>1. UNCHANGED <<time, report, aiRuns, syncRuns, completed>>
  BY DEF reportTables
<1>2. Reported' = Reported /\ DoneMeansReported'
  BY <1>1 DEF Reported, Current, DoneMeansReported, ReportsInv
<1>3. /\ syncRuns' \in Seq(SyncRows) /\ Len(syncRuns) <= Len(syncRuns')
      /\ \A i \in 1..Len(syncRuns) : syncRuns'[i].of = syncRuns[i].of
      /\ time' = time
  BY <1>1 DEF ReportsInv
<1>4. SoundPoll(q, syncRuns', Reported')
  BY <1>1, <1>2
<1> QED BY <1>2, <1>3, <1>4, PollMoves

\* A run that ends, with its row completed or not.
LEMMA EndsSound ==
    ASSUME ReportsInv, [ReportsNext]_reportsVars, UNCHANGED <<time, report, aiRuns>>,
           NEW p \in Polls, NEW done \in BOOLEAN, Ends(p, done), poll[p].phase # "none",
           done => poll[p].todo[1] \in Reported,
           syncRuns' \in Seq(SyncRows), Len(syncRuns') = Len(syncRuns),
           \A i \in 1..Len(syncRuns) :
             /\ syncRuns'[i].of = syncRuns[i].of
             /\ syncRuns'[i].status = "SUCCESS" => syncRuns'[i].of \in Reported
    PROVE  ReportsInv'
<1> DEFINE q == GoesOn(poll[p])
<1>1. Reported' = Reported
  BY DEF Reported, Current
<1>2. poll' = [poll EXCEPT ![p] = q]
  BY DEF Ends, ReportsInv, PollsApart
<1>3. SoundPoll(q, syncRuns', Reported')
  <2>1. SoundPoll(q, syncRuns, Reported)
    BY IdleSound DEF ReportsInv
  <2> QED BY <1>1, <2>1, StaysSound DEF ReportsInv
<1>4. completed' \subseteq Reported
  BY DEF Ends, Known, ReportsInv, DoneMeansReported, Reported, Current
<1>5. DoneMeansReported'
  <2>1. \A o \in Reported : [of |-> o, provider |-> report[o].provider] \in aiRuns
    BY DEF ReportsInv, DoneMeansReported, Reported, Current
  <2>2. DOMAIN syncRuns' = 1..Len(syncRuns)
    OBVIOUS
  <2> QED BY <1>1, <1>4, <2>1, <2>2 DEF DoneMeansReported, Reported, Current
<1> HIDE DEF q
<1>6. Len(syncRuns) <= Len(syncRuns') /\ time' = time
  BY DEF ReportsInv
<1> QED BY <1>2, <1>3, <1>5, <1>6, PollMoves

LEMMA CompletionSound ==
    ASSUME ReportsInv, NEW i \in 1..Len(syncRuns), NEW status \in {"SUCCESS", "PARTIAL", "FAILED"},
           syncRuns' = [syncRuns EXCEPT ![i].status = status],
           status = "SUCCESS" => syncRuns[i].of \in Reported
    PROVE  /\ syncRuns' \in Seq(SyncRows) /\ Len(syncRuns') = Len(syncRuns)
           /\ \A j \in 1..Len(syncRuns) :
                /\ syncRuns'[j].of = syncRuns[j].of
                /\ syncRuns'[j].status = "SUCCESS" => syncRuns'[j].of \in Reported
<1>1. syncRuns \in Seq(SyncRows) /\ \A j \in 1..Len(syncRuns) : syncRuns[j] \in SyncRows
  BY DEF ReportsInv
<1>2. [syncRuns[i] EXCEPT !.status = status] \in SyncRows
  BY <1>1 DEF SyncRows
<1>3. syncRuns' \in Seq(SyncRows) /\ Len(syncRuns') = Len(syncRuns)
  BY <1>1, <1>2
<1>4. \A j \in 1..Len(syncRuns) : syncRuns[j].status = "SUCCESS" => syncRuns[j].of \in Reported
  BY <1>1 DEF ReportsInv, DoneMeansReported, Reported, Current
<1>5. \A j \in 1..Len(syncRuns) :
        /\ syncRuns'[j].of = syncRuns[j].of
        /\ syncRuns'[j].status = "SUCCESS" => syncRuns'[j].of \in Reported
  <2>1. ASSUME NEW j \in 1..Len(syncRuns)
        PROVE  /\ syncRuns'[j].of = syncRuns[j].of
               /\ syncRuns'[j].status = "SUCCESS" => syncRuns'[j].of \in Reported
    <3>1. CASE j = i
      BY <1>1, <3>1 DEF SyncRows
    <3>2. CASE j # i
      BY <1>1, <1>4, <3>2
    <3> QED BY <3>1, <3>2
  <2> QED BY <2>1
<1> QED BY <1>3, <1>5

LEMMA ReportsInvNext == ReportsInv /\ [ReportsNext]_reportsVars => ReportsInv'
<1> SUFFICES ASSUME ReportsInv, [ReportsNext]_reportsVars PROVE ReportsInv'
  OBVIOUS
<1>1. ASSUME NEW p \in Polls, PollStarts(p) PROVE ReportsInv'
  <2> DEFINE q == [phase |-> "next", at |-> time, todo |-> Due(time)]
  <2>1. poll' = [poll EXCEPT ![p] = q] /\ UNCHANGED <<time, reportTables, completed>>
    BY <1>1 DEF PollStarts, memory
  <2>2. SoundPoll(q, syncRuns, Reported)
    BY DueType DEF ReportsInv, SoundPoll
  <2> HIDE DEF q
  <2> QED BY <2>1, <2>2, PollMovesAlone
<1>2. ASSUME NEW p \in Polls, PollSkips(p) PROVE ReportsInv'
  <2> DEFINE q == GoesOn(poll[p])
  <2>1. poll' = [poll EXCEPT ![p] = q] /\ UNCHANGED <<time, reportTables, completed>>
    BY <1>2 DEF PollSkips, memory, ReportsInv, PollsApart
  <2>2. SoundPoll(q, syncRuns, Reported)
    BY <1>2, IdleSound DEF PollSkips, ReportsInv
  <2> HIDE DEF q
  <2> QED BY <2>1, <2>2, PollMovesAlone
<1>3. ASSUME NEW p \in Polls, RunStarts(p) PROVE ReportsInv'
  <2> DEFINE q == [phase |-> "creating", at |-> poll[p].at, todo |-> poll[p].todo]
  <2>1. SoundPoll(poll[p], syncRuns, Reported)
    BY DEF ReportsInv
  <2>2. poll' = [poll EXCEPT ![p] = q] /\ UNCHANGED <<time, reportTables, completed>>
    BY <1>3 DEF RunStarts, memory
  <2>3. SoundPoll(q, syncRuns, Reported)
    BY <1>3, <2>1 DEF RunStarts, SoundPoll
  <2> HIDE DEF q
  <2> QED BY <2>2, <2>3, PollMovesAlone
<1>4. ASSUME NEW p \in Polls, CreateFails(p) PROVE ReportsInv'
  <2>1. /\ Ends(p, FALSE) /\ UNCHANGED <<time, report, aiRuns, syncRuns>>
        /\ poll[p].phase # "none"
    BY <1>4 DEF CreateFails, reportTables
  <2>2. /\ syncRuns' \in Seq(SyncRows) /\ Len(syncRuns') = Len(syncRuns)
        /\ \A i \in 1..Len(syncRuns) :
             /\ syncRuns'[i].of = syncRuns[i].of
             /\ syncRuns'[i].status = "SUCCESS" => syncRuns'[i].of \in Reported
    BY <2>1 DEF ReportsInv, DoneMeansReported, Reported, Current
  <2> QED BY <2>1, <2>2, EndsSound
<1>5. ASSUME NEW p \in Polls, Creates(p) PROVE ReportsInv'
  <2> DEFINE added == [of |-> poll[p].todo[1], status |-> "RUNNING"]
             q == [phase |-> "gathering", at |-> poll[p].at, todo |-> poll[p].todo,
                   run |-> Len(syncRuns) + 1]
  <2>1. /\ poll[p].phase = "creating" /\ poll' = [poll EXCEPT ![p] = q]
        /\ syncRuns' = Append(syncRuns, added)
        /\ UNCHANGED <<time, report, aiRuns, completed>>
    BY <1>5 DEF Creates, memory, ReportsInv, PollsApart
  <2>2. poll[p].todo \in Seq(Occurrences) /\ poll[p].todo # <<>> /\ poll[p].todo[1] \in Occurrences
    BY <2>1 DEF ReportsInv, SoundPoll
  <2>3. added \in SyncRows
    BY <2>2 DEF SyncRows
  <2>4. added.of = poll[p].todo[1] /\ added.status = "RUNNING"
    OBVIOUS
  <2> HIDE DEF added
  <2>5. /\ syncRuns' \in Seq(SyncRows) /\ Len(syncRuns') = Len(syncRuns) + 1
        /\ Len(syncRuns) \in Nat
        /\ \A i \in 1..Len(syncRuns) : syncRuns'[i] = syncRuns[i]
        /\ syncRuns'[Len(syncRuns) + 1] = added
    BY <2>1, <2>3 DEF ReportsInv
  <2>6. Reported' = Reported
    BY <2>1 DEF Reported, Current
  <2>7. SoundPoll(q, syncRuns', Reported')
    BY <2>2, <2>4, <2>5 DEF SoundPoll
  <2>8. DoneMeansReported'
    <3>1. \A i \in DOMAIN syncRuns' : syncRuns'[i].status = "SUCCESS" => syncRuns'[i].of \in Reported
      BY <2>4, <2>5 DEF ReportsInv, DoneMeansReported, Reported, Current
    <3> QED BY <2>1, <3>1 DEF ReportsInv, DoneMeansReported, Reported, Current
  <2>9. /\ Len(syncRuns) <= Len(syncRuns') /\ time' = time
        /\ \A i \in 1..Len(syncRuns) : syncRuns'[i].of = syncRuns[i].of
    BY <2>1, <2>5
  <2> HIDE DEF q
  <2> QED BY <2>1, <2>5, <2>7, <2>8, <2>9, PollMoves
<1>6. ASSUME NEW p \in Polls, Gathers(p) PROVE ReportsInv'
  <2>1. SoundPoll(poll[p], syncRuns, Reported) /\ poll[p].phase = "gathering"
    BY <1>6 DEF ReportsInv, Gathers
  <2> DEFINE ends == [phase |-> "ending", at |-> poll[p].at, todo |-> poll[p].todo,
                      run |-> poll[p].run, status |-> "PARTIAL", done |-> FALSE]
             finds == [phase |-> "finding", at |-> poll[p].at, todo |-> poll[p].todo,
                       run |-> poll[p].run, readAt |-> time]
  <2>2. /\ poll' = [poll EXCEPT ![p] = ends] \/ poll' = [poll EXCEPT ![p] = finds]
        /\ UNCHANGED <<time, reportTables, completed>>
    BY <1>6 DEF Gathers, memory, ReportsInv, PollsApart
  <2>3. SoundPoll(ends, syncRuns, Reported) /\ SoundPoll(finds, syncRuns, Reported)
    BY <2>1 DEF SoundPoll, ReportsInv
  <2> HIDE DEF ends, finds
  <2> QED BY <2>2, <2>3, PollMovesAlone
<1>7. ASSUME NEW p \in Polls, FindsReport(p) PROVE ReportsInv'
  <2>1. SoundPoll(poll[p], syncRuns, Reported) /\ poll[p].phase = "finding"
    BY <1>7 DEF ReportsInv, FindsReport
  <2> DEFINE found == [phase |-> "ending", at |-> poll[p].at, todo |-> poll[p].todo,
                       run |-> poll[p].run, status |-> "SUCCESS", done |-> TRUE]
             asks == [phase |-> "asking", at |-> poll[p].at, todo |-> poll[p].todo,
                      run |-> poll[p].run, readAt |-> poll[p].readAt]
  <2>2. /\ \/ poll' = [poll EXCEPT ![p] = found] /\ Current(poll[p].todo[1])
           \/ poll' = [poll EXCEPT ![p] = asks]
        /\ UNCHANGED <<time, reportTables, completed>>
    BY <1>7 DEF FindsReport, Matches, Current, memory
  <2>3. Current(poll[p].todo[1]) => SoundPoll(found, syncRuns, Reported)
    BY <2>1 DEF SoundPoll, Reported
  <2>4. SoundPoll(asks, syncRuns, Reported)
    BY <2>1 DEF SoundPoll
  <2> HIDE DEF found, asks
  <2> QED BY <2>2, <2>3, <2>4, PollMovesAlone
<1>8. ASSUME NEW p \in Polls, StoresReport(p) PROVE ReportsInv'
  <2> DEFINE o == poll[p].todo[1]
             q == [phase |-> "ending", at |-> poll[p].at, todo |-> poll[p].todo,
                   run |-> poll[p].run, status |-> "SUCCESS", done |-> TRUE]
  <2>1. PICK provider \in Providers :
          /\ report' = [report EXCEPT ![o] =
               [print |-> "current", provider |-> provider, readAt |-> poll[p].readAt]]
          /\ aiRuns' = aiRuns \cup {[of |-> o, provider |-> provider]}
    BY <1>8 DEF StoresReport
  <2>2. /\ poll[p].phase = "asking" /\ poll' = [poll EXCEPT ![p] = q]
        /\ UNCHANGED <<time, syncRuns, completed>>
    BY <1>8 DEF StoresReport, memory
  <2>3. SoundPoll(poll[p], syncRuns, Reported) /\ o \in Occurrences
    BY <2>2 DEF ReportsInv, SoundPoll
  <2> DEFINE added == [print |-> "current", provider |-> provider, readAt |-> poll[p].readAt]
  <2>4. added \in ReportRows /\ added # NULL /\ added.print = "current" /\ added.provider = provider
    BY <2>2, <2>3, NullIsNoReport DEF ReportRows, SoundPoll
  <2> HIDE DEF added
  <2>5. report'[o] = added /\ \A x \in Occurrences \ {o} : report'[x] = report[x]
    BY <2>1, <2>3 DEF ReportsInv, PollsApart, added
  <2>6. Reported' = Reported \cup {o}
    BY <2>3, <2>4, <2>5 DEF Reported, Current
  <2>7. SoundPoll(q, syncRuns', Reported')
    BY <2>2, <2>3, <2>6 DEF SoundPoll
  <2>8. DoneMeansReported'
    <3>1. completed \subseteq Reported' /\
          \A i \in DOMAIN syncRuns : syncRuns[i].status = "SUCCESS" => syncRuns[i].of \in Reported'
      BY <2>6 DEF ReportsInv, DoneMeansReported, Reported, Current
    <3>2. \A x \in Reported' : [of |-> x, provider |-> report'[x].provider] \in aiRuns'
      <4>1. ASSUME NEW x \in Reported', x # o
            PROVE  [of |-> x, provider |-> report'[x].provider] \in aiRuns'
        BY <2>1, <2>5, <2>6, <4>1 DEF ReportsInv, DoneMeansReported, Reported, Current
      <4>2. [of |-> o, provider |-> report'[o].provider] \in aiRuns'
        BY <2>1, <2>4, <2>5
      <4> QED BY <4>1, <4>2
    <3> QED BY <2>2, <3>1, <3>2 DEF DoneMeansReported, Reported, Current
  <2>9. /\ syncRuns' \in Seq(SyncRows) /\ Len(syncRuns) <= Len(syncRuns') /\ time' = time
        /\ \A i \in 1..Len(syncRuns) : syncRuns'[i].of = syncRuns[i].of
    BY <2>2 DEF ReportsInv
  <2> HIDE DEF q
  <2> QED BY <2>2, <2>7, <2>8, <2>9, PollMoves
<1>9. ASSUME NEW p \in Polls, StoresFailure(p) PROVE ReportsInv'
  <2>1. SoundPoll(poll[p], syncRuns, Reported) /\ poll[p].phase = "asking"
    BY <1>9 DEF ReportsInv, StoresFailure
  <2> DEFINE q == [phase |-> "ending", at |-> poll[p].at, todo |-> poll[p].todo,
                   run |-> poll[p].run, status |-> "PARTIAL", done |-> FALSE]
  <2>2. poll' = [poll EXCEPT ![p] = q] /\ UNCHANGED <<time, reportTables, completed>>
    BY <1>9 DEF StoresFailure, memory
  <2>3. SoundPoll(q, syncRuns, Reported)
    BY <2>1 DEF SoundPoll
  <2> HIDE DEF q
  <2> QED BY <2>2, <2>3, PollMovesAlone
<1>10. ASSUME NEW p \in Polls, PipelineThrows(p) PROVE ReportsInv'
  <2>1. /\ SoundPoll(poll[p], syncRuns, Reported)
        /\ poll[p].phase \in {"gathering", "finding", "asking", "ending"}
    BY <1>10 DEF ReportsInv, PipelineThrows
  <2> DEFINE q == [phase |-> "failing", at |-> poll[p].at, todo |-> poll[p].todo,
                   run |-> poll[p].run]
  <2>2. poll' = [poll EXCEPT ![p] = q] /\ UNCHANGED <<time, reportTables, completed>>
    BY <1>10 DEF PipelineThrows, memory
  <2>3. SoundPoll(q, syncRuns, Reported)
    BY <2>1 DEF SoundPoll
  <2> HIDE DEF q
  <2> QED BY <2>2, <2>3, PollMovesAlone
<1>11. ASSUME NEW p \in Polls, Completes(p) PROVE ReportsInv'
  <2>1. /\ SoundPoll(poll[p], syncRuns, Reported) /\ poll[p].phase = "ending"
        /\ syncRuns' = [syncRuns EXCEPT ![poll[p].run].status = poll[p].status]
        /\ Ends(p, poll[p].done) /\ UNCHANGED <<time, report, aiRuns>>
    BY <1>11 DEF ReportsInv, Completes
  <2>2. /\ poll[p].run \in 1..Len(syncRuns) /\ syncRuns[poll[p].run].of = poll[p].todo[1]
        /\ poll[p].done \in BOOLEAN /\ poll[p].status \in {"SUCCESS", "PARTIAL"}
        /\ poll[p].done \/ poll[p].status = "SUCCESS" => poll[p].todo[1] \in Reported
    BY <2>1 DEF SoundPoll
  <2> QED BY <2>1, <2>2, CompletionSound, EndsSound
<1>12. ASSUME NEW p \in Polls, CompletesFailed(p) PROVE ReportsInv'
  <2>1. /\ SoundPoll(poll[p], syncRuns, Reported) /\ poll[p].phase = "failing"
        /\ syncRuns' = [syncRuns EXCEPT ![poll[p].run].status = "FAILED"]
        /\ Ends(p, FALSE) /\ UNCHANGED <<time, report, aiRuns>>
    BY <1>12 DEF ReportsInv, CompletesFailed
  <2>2. poll[p].run \in 1..Len(syncRuns)
    BY <2>1 DEF SoundPoll
  <2> QED BY <2>1, <2>2, CompletionSound, EndsSound
<1>13. ASSUME NEW p \in Polls, CompletionFails(p) PROVE ReportsInv'
  <2>1. /\ Ends(p, FALSE) /\ UNCHANGED <<time, report, aiRuns, syncRuns>>
        /\ poll[p].phase # "none"
    BY <1>13 DEF CompletionFails, reportTables
  <2>2. /\ syncRuns' \in Seq(SyncRows) /\ Len(syncRuns') = Len(syncRuns)
        /\ \A i \in 1..Len(syncRuns) :
             /\ syncRuns'[i].of = syncRuns[i].of
             /\ syncRuns'[i].status = "SUCCESS" => syncRuns'[i].of \in Reported
    BY <2>1 DEF ReportsInv, DoneMeansReported, Reported, Current
  <2> QED BY <2>1, <2>2, EndsSound
<1>14. CASE WorkerRestarts
  <2>1. Reported' = Reported /\ UNCHANGED <<time, report, aiRuns, syncRuns>>
    BY <1>14 DEF WorkerRestarts, reportTables, Reported, Current
  <2> QED
    BY <1>14, <2>1, PollsApartNext
    DEF WorkerRestarts, ReportsInv, SoundPoll, NoPoll, DoneMeansReported, Reported, Current
<1>15. CASE TimePasses
  <2>1. /\ Reported' = Reported /\ UNCHANGED <<report, aiRuns, syncRuns, completed, poll>>
        /\ time' \in 0..MaxTime
    BY <1>15, ReportsAssumption DEF TimePasses, reportTables, memory, Reported, Current, ReportsInv
  <2> QED BY <2>1, PollsApartNext DEF ReportsInv, DoneMeansReported, Reported, Current
<1>16. CASE UNCHANGED reportsVars
  <2>1. UNCHANGED <<time, report, aiRuns, syncRuns, completed, poll>>
    BY <1>16 DEF reportsVars, reportTables, memory
  <2>2. Reported' = Reported
    BY <2>1 DEF Reported, Current
  <2> QED BY <2>1, <2>2, PollsApartNext DEF ReportsInv, DoneMeansReported, Reported, Current
<1> QED
  BY <1>1, <1>2, <1>3, <1>4, <1>5, <1>6, <1>7, <1>8, <1>9, <1>10, <1>11, <1>12, <1>13, <1>14,
     <1>15, <1>16
  DEF ReportsNext, PollStep

\* An occurrence that is done with, and a run that says it succeeded, have their report,
\* and every report the row of ai_runs of its provider, however runs fail at their last
\* step, memory is cleared or the worker restarts (AiReportScheduler.runOne,
\* AiReportPipeline.run, persistReportResult).
THEOREM DoneIsReported == ReportsSpec => []DoneMeansReported
<1>1. ReportsInv => DoneMeansReported
  BY DEF ReportsInv
<1> QED
  BY ReportsInvInit, ReportsInvNext, <1>1, PTL DEF ReportsSpec

----------------------------------------------------------------------------
\* The runner of yt-dlp.

Stages == {"new", "waiting", "running", "done"}
RunningCalls == {c \in Calls : call[c].stage = "running"}

CallType ==
    [stage : Stages, settled : Outcomes \cup {NULL}, timer : Nat \cup {NULL},
     child : {"none", "alive", "ended"}, killed : BOOLEAN, output : Nat]

\* A call that runs has its child, nobody killed it and the promise is open; one that is
\* done is settled; one that has not begun has neither a child nor a timer.
SoundCall(r) ==
    /\ r.stage = "running" => r.settled = NULL /\ r.child = "alive" /\ ~r.killed
    /\ r.stage = "done" => /\ r.settled # NULL
                           /\ r.timer = NULL
                           /\ r.child = "alive" => r.killed
    /\ r.stage \in {"new", "waiting"} => r.child = "none" /\ r.timer = NULL

\* The line holds the calls that wait, each once.
SoundLine ==
    /\ waiters \in Seq(Calls)
    /\ \A i \in 1..Len(waiters) : call[waiters[i]].stage = "waiting"
    /\ \A i, j \in 1..Len(waiters) : waiters[i] = waiters[j] => i = j

SoundPlaces ==
    /\ IsFiniteSet(RunningCalls)
    /\ active = Cardinality(RunningCalls)
    /\ active <= MaxActive
    /\ waiters # <<>> => active = MaxActive

RunnerInv ==
    /\ call \in [Calls -> CallType]
    /\ \A c \in Calls : SoundCall(call[c])
    /\ SoundLine
    /\ SoundPlaces

LEMMA NewCallSound ==
    /\ NewCall \in CallType /\ SoundCall(NewCall)
    /\ LET begun == [NewCall EXCEPT !.stage = "running", !.timer = 0, !.child = "alive"]
       IN  begun \in CallType /\ SoundCall(begun) /\ begun.stage = "running"
  BY RunnerAssumption DEF NewCall, CallType, SoundCall, Stages

LEMMA RunnerInvInit == RunnerInit => RunnerInv
<1> SUFFICES ASSUME RunnerInit PROVE RunnerInv
  OBVIOUS
<1>1. RunningCalls = {}
  BY DEF RunnerInit, NewCall, RunningCalls
<1>2. SoundPlaces
  BY <1>1, FS_EmptySet, RunnerAssumption DEF SoundPlaces, RunnerInit
<1> QED
  BY <1>2, NewCallSound DEF RunnerInv, RunnerInit, SoundLine

\* What changes neither the line nor who runs keeps both sound.
LEMMA SameStages ==
    ASSUME RunnerInv, UNCHANGED <<active, waiters>>, call' \in [Calls -> CallType],
           \A c \in Calls : SoundCall(call'[c]) /\ call'[c].stage = call[c].stage
    PROVE  RunnerInv'
<1>1. RunningCalls' = RunningCalls
  BY DEF RunningCalls
<1>2. SoundLine'
  <2>1. \A i \in 1..Len(waiters) : waiters[i] \in Calls
    BY DEF RunnerInv, SoundLine
  <2> QED BY <2>1 DEF RunnerInv, SoundLine
<1> QED BY <1>1, <1>2 DEF RunnerInv, SoundPlaces

\* A call that runs and is settled gives its place to the first in line.
LEMMA SettlesSound ==
    ASSUME RunnerInv, NEW c \in Calls, call[c].stage = "running", NEW r \in CallType,
           r.stage = "done", SoundCall(r), Releases([call EXCEPT ![c] = r])
    PROVE  RunnerInv'
<1> DEFINE begun == [NewCall EXCEPT !.stage = "running", !.timer = 0, !.child = "alive"]
<1>0. /\ call \in [Calls -> CallType] /\ \A x \in Calls : SoundCall(call[x])
      /\ SoundLine /\ SoundPlaces
  BY DEF RunnerInv
<1>1. c \in RunningCalls /\ IsFiniteSet(RunningCalls)
  BY <1>0 DEF RunningCalls, SoundPlaces
<1>2. /\ IsFiniteSet(RunningCalls \ {c})
      /\ Cardinality(RunningCalls \ {c}) = Cardinality(RunningCalls) - 1
      /\ Cardinality(RunningCalls) \in Nat /\ Cardinality(RunningCalls \ {c}) \in Nat
  BY <1>1, FS_RemoveElement, FS_CardinalityType
<1>3. CASE waiters = <<>>
  <2>1. active' = active - 1 /\ waiters' = <<>> /\ call' = [call EXCEPT ![c] = r]
    BY <1>3 DEF Releases
  <2>2. RunningCalls' = RunningCalls \ {c}
    BY <1>0, <2>1 DEF RunningCalls
  <2>3. SoundPlaces'
    BY <1>0, <1>2, <2>1, <2>2, RunnerAssumption DEF SoundPlaces
  <2>4. SoundLine'
    BY <2>1 DEF SoundLine
  <2> QED BY <1>0, <2>1, <2>3, <2>4 DEF RunnerInv
<1>4. CASE waiters # <<>>
  <2> DEFINE h == Head(waiters)
  <2>1. /\ waiters \in Seq(Calls) /\ Len(waiters) \in Nat \ {0}
        /\ h = waiters[1] /\ h \in Calls /\ call[h].stage = "waiting" /\ h # c
    <3>1. waiters \in Seq(Calls) /\ Len(waiters) \in Nat \ {0}
      BY <1>0, <1>4, EmptySeq DEF SoundLine
    <3>2. 1 \in 1..Len(waiters)
      BY <3>1
    <3> QED BY <1>0, <3>1, <3>2 DEF SoundLine
  <2>2. active' = active /\ waiters' = Tail(waiters)
        /\ call' = [[call EXCEPT ![c] = r] EXCEPT ![h] = begun]
    BY <1>4 DEF Releases
  <2>3. /\ begun \in CallType /\ SoundCall(begun) /\ begun.stage = "running"
    BY NewCallSound
  <2> HIDE DEF h, begun
  <2>4. /\ call'[h] = begun /\ call'[c] = r
        /\ \A x \in Calls \ {c, h} : call'[x] = call[x]
        /\ call' \in [Calls -> CallType]
    BY <1>0, <2>1, <2>2, <2>3
  <2>5. RunningCalls' = (RunningCalls \ {c}) \cup {h}
    BY <2>1, <2>3, <2>4 DEF RunningCalls
  <2>6. h \notin RunningCalls \ {c}
    BY <2>1 DEF RunningCalls
  <2>7. IsFiniteSet(RunningCalls') /\ Cardinality(RunningCalls') = Cardinality(RunningCalls)
    <3> DEFINE others == RunningCalls \ {c}
    <3>1. IsFiniteSet(others) /\ h \notin others
      BY <1>2, <2>6
    <3>2. /\ IsFiniteSet(others \cup {h})
          /\ Cardinality(others \cup {h}) = Cardinality(others) + 1
      <4> HIDE DEF others
      <4> QED BY <3>1, FS_AddElement
    <3>3. Cardinality(others) + 1 = Cardinality(RunningCalls)
      BY <1>2
    <3> QED BY <2>5, <3>2, <3>3
  <2>8. SoundPlaces'
    BY <1>0, <1>4, <2>2, <2>7 DEF SoundPlaces
  <2>9. SoundLine'
    <3>1. /\ waiters' \in Seq(Calls) /\ Len(waiters') = Len(waiters) - 1
          /\ \A i \in 1..Len(waiters') : waiters'[i] = waiters[i + 1]
      BY <2>1, <2>2, HeadTailProperties, <1>4
    <3>2. \A i \in 1..Len(waiters') :
             /\ i + 1 \in 1..Len(waiters)
             /\ waiters[i + 1] \in Calls /\ waiters[i + 1] # h
             /\ call[waiters[i + 1]].stage = "waiting"
      <4> TAKE i \in 1..Len(waiters')
      <4>1. i + 1 \in 1..Len(waiters) /\ i + 1 # 1 /\ 1 \in 1..Len(waiters)
        BY <2>1, <3>1
      <4> QED BY <1>0, <2>1, <4>1 DEF SoundLine
    <3>3. \A i \in 1..Len(waiters') : call'[waiters'[i]].stage = "waiting"
      <4> TAKE i \in 1..Len(waiters')
      <4>1. waiters'[i] \in Calls \ {c, h} /\ call[waiters'[i]].stage = "waiting"
        BY <3>1, <3>2
      <4> QED BY <2>4, <4>1
    <3>4. ASSUME NEW i \in 1..Len(waiters'), NEW j \in 1..Len(waiters'), waiters'[i] = waiters'[j]
          PROVE  i = j
      <4>1. i + 1 = j + 1
        BY <1>0, <3>1, <3>2, <3>4 DEF SoundLine
      <4> QED BY <2>1, <3>1, <4>1
    <3> QED BY <3>1, <3>3, <3>4 DEF SoundLine
  <2>10. \A x \in Calls : SoundCall(call'[x])
    <3> TAKE x \in Calls
    <3>1. CASE x = c
      BY <2>4, <3>1
    <3>2. CASE x = h
      BY <2>3, <2>4, <3>2
    <3>3. CASE x \notin {c, h}
      BY <1>0, <2>4, <3>3
    <3> QED BY <3>1, <3>2, <3>3
  <2> QED BY <2>4, <2>8, <2>9, <2>10 DEF RunnerInv
<1> QED BY <1>3, <1>4

\* An event of a call, settled before or not.
LEMMA EventSound ==
    ASSUME RunnerInv, NEW c \in Calls, NEW how \in Outcomes, NEW r \in CallType,
           call[c].stage \in {"running", "done"}, r.stage = call[c].stage,
           r.settled = call[c].settled, r.timer = call[c].timer, r.child = "alive" => r.killed,
           Settles(c, how, r)
    PROVE  RunnerInv'
<1>0. call \in [Calls -> CallType] /\ \A x \in Calls : SoundCall(call[x])
  BY DEF RunnerInv
<1>1. CASE call[c].settled # NULL
  <2>1. call[c].stage = "done" /\ call' = [call EXCEPT ![c] = r] /\ UNCHANGED <<active, waiters>>
    BY <1>0, <1>1 DEF Settles, SoundCall
  <2>2. SoundCall(r)
    BY <1>0, <2>1 DEF SoundCall
  <2> QED BY <1>0, <2>1, <2>2, SameStages
<1>2. CASE call[c].settled = NULL
  <2> DEFINE s == [r EXCEPT !.settled = how, !.timer = NULL, !.stage = "done"]
  <2>1. call[c].stage = "running" /\ Releases([call EXCEPT ![c] = s])
    BY <1>0, <1>2 DEF Settles, SoundCall
  <2>2. s \in CallType /\ s.stage = "done" /\ SoundCall(s)
    BY RunnerAssumption DEF CallType, SoundCall, Stages
  <2> QED BY <2>1, <2>2, SettlesSound
<1> QED BY <1>1, <1>2

LEMMA AcquiresSound == ASSUME RunnerInv, NEW c \in Calls, Acquires(c) PROVE RunnerInv'
<1> DEFINE begun == [NewCall EXCEPT !.stage = "running", !.timer = 0, !.child = "alive"]
<1>0. /\ call \in [Calls -> CallType] /\ \A x \in Calls : SoundCall(call[x])
      /\ SoundLine /\ SoundPlaces /\ call[c].stage = "new"
  BY DEF RunnerInv, Acquires
<1>1. begun \in CallType /\ SoundCall(begun) /\ begun.stage = "running"
  BY NewCallSound
<1>2. \A i \in 1..Len(waiters) : waiters[i] \in Calls /\ waiters[i] # c
  BY <1>0 DEF SoundLine
<1>3. Cardinality(RunningCalls) \in Nat
  BY <1>0, FS_CardinalityType DEF SoundPlaces
<1>4. CASE active < MaxActive
  <2>1. active' = active + 1 /\ waiters' = waiters /\ call' = [call EXCEPT ![c] = begun]
    BY <1>4 DEF Acquires, Spawned
  <2> HIDE DEF begun
  <2>2. RunningCalls' = RunningCalls \cup {c} /\ c \notin RunningCalls
    BY <1>0, <1>1, <2>1 DEF RunningCalls
  <2>3. IsFiniteSet(RunningCalls') /\ Cardinality(RunningCalls') = Cardinality(RunningCalls) + 1
    BY <1>0, <2>2, FS_AddElement DEF SoundPlaces
  <2>4. SoundPlaces'
    BY <1>0, <1>3, <1>4, <2>1, <2>3, RunnerAssumption DEF SoundPlaces
  <2>5. SoundLine'
    BY <1>0, <1>2, <2>1 DEF SoundLine
  <2> QED BY <1>0, <1>1, <2>1, <2>4, <2>5 DEF RunnerInv
<1>5. CASE ~(active < MaxActive)
  <2>1. /\ waiters' = Append(waiters, c) /\ active' = active
        /\ call' = [call EXCEPT ![c].stage = "waiting"]
    BY <1>5 DEF Acquires
  <2>2. call' \in [Calls -> CallType] /\ \A x \in Calls : SoundCall(call'[x])
    BY <1>0, <2>1 DEF CallType, SoundCall, Stages
  <2>3. RunningCalls' = RunningCalls
    BY <1>0, <2>1 DEF RunningCalls, CallType
  <2>4. SoundPlaces'
    BY <1>0, <1>3, <1>5, <2>1, <2>3, RunnerAssumption DEF SoundPlaces
  <2>5. /\ waiters' \in Seq(Calls) /\ Len(waiters') = Len(waiters) + 1 /\ Len(waiters) \in Nat
        /\ \A i \in 1..Len(waiters') :
              waiters'[i] = IF i \in 1..Len(waiters) THEN waiters[i] ELSE c
    BY <1>0, <2>1 DEF SoundLine
  <2>6. /\ call'[c].stage = "waiting"
        /\ \A x \in Calls : x # c => call'[x] = call[x]
    BY <1>0, <2>1 DEF CallType
  <2>7. \A i \in 1..Len(waiters') : call'[waiters'[i]].stage = "waiting"
    BY <1>0, <1>2, <2>5, <2>6 DEF SoundLine
  <2>8. ASSUME NEW i \in 1..Len(waiters'), NEW j \in 1..Len(waiters'), waiters'[i] = waiters'[j]
        PROVE  i = j
    BY <1>0, <1>2, <2>5, <2>8 DEF SoundLine
  <2>9. SoundLine'
    BY <2>5, <2>7, <2>8 DEF SoundLine
  <2> QED BY <2>2, <2>4, <2>9 DEF RunnerInv
<1> QED BY <1>4, <1>5

LEMMA RunnerInvNext == RunnerInv /\ [RunnerNext]_runnerVars => RunnerInv'
<1> SUFFICES ASSUME RunnerInv, [RunnerNext]_runnerVars PROVE RunnerInv'
  OBVIOUS
<1>0. call \in [Calls -> CallType] /\ \A x \in Calls : SoundCall(call[x])
  BY DEF RunnerInv
<1>1. ASSUME NEW c \in Calls, Acquires(c) PROVE RunnerInv'
  BY <1>1, AcquiresSound
<1>2. ASSUME NEW c \in Calls, Outputs(c) PROVE RunnerInv'
  <2>1. /\ call' \in [Calls -> CallType]
        /\ \A x \in Calls : SoundCall(call'[x]) /\ call'[x].stage = call[x].stage
    BY <1>0, <1>2 DEF Outputs, CallType, SoundCall
  <2> QED BY <1>2, <2>1, SameStages DEF Outputs
<1>3. ASSUME NEW c \in Calls, OutputOverflows(c) PROVE RunnerInv'
  <2> DEFINE r == [call[c] EXCEPT !.killed = TRUE]
  <2>1. r \in CallType /\ r.stage = call[c].stage /\ r.settled = call[c].settled
        /\ r.timer = call[c].timer /\ r.killed
    BY <1>0 DEF CallType
  <2>2. call[c].stage \in {"running", "done"} /\ Settles(c, "overflow", r)
    BY <1>0, <1>3 DEF OutputOverflows, CallType, Stages, SoundCall
  <2> QED BY <2>1, <2>2, EventSound DEF Outcomes
<1>4. ASSUME NEW c \in Calls, TimerTicks(c) PROVE RunnerInv'
  <2>1. /\ call' \in [Calls -> CallType]
        /\ \A x \in Calls : SoundCall(call'[x]) /\ call'[x].stage = call[x].stage
    BY <1>0, <1>4, RunnerAssumption DEF TimerTicks, CallType, SoundCall, Stages
  <2> QED BY <1>4, <2>1, SameStages DEF TimerTicks
<1>5. ASSUME NEW c \in Calls, TimesOut(c) PROVE RunnerInv'
  <2> DEFINE r == [call[c] EXCEPT !.killed = TRUE]
  <2>1. r \in CallType /\ r.stage = call[c].stage /\ r.settled = call[c].settled
        /\ r.timer = call[c].timer /\ r.killed
    BY <1>0 DEF CallType
  <2>2. call[c].stage \in {"running", "done"} /\ Settles(c, "timeout", r)
    BY <1>0, <1>5, RunnerAssumption DEF TimesOut, CallType, Stages, SoundCall
  <2> QED BY <2>1, <2>2, EventSound DEF Outcomes
<1>6. ASSUME NEW c \in Calls, SpawnFails(c) PROVE RunnerInv'
  <2> DEFINE r == [call[c] EXCEPT !.child = "none"]
  <2>1. r \in CallType /\ r.stage = call[c].stage /\ r.settled = call[c].settled
        /\ r.timer = call[c].timer /\ r.child # "alive"
    BY <1>0 DEF CallType
  <2>2. call[c].stage \in {"running", "done"} /\ Settles(c, "error", r)
    BY <1>0, <1>6 DEF SpawnFails, CallType, Stages, SoundCall
  <2> QED BY <2>1, <2>2, EventSound DEF Outcomes
<1>7. ASSUME NEW c \in Calls, Closes(c) PROVE RunnerInv'
  <2> DEFINE r == [call[c] EXCEPT !.child = "ended"]
  <2>1. r \in CallType /\ r.stage = call[c].stage /\ r.settled = call[c].settled
        /\ r.timer = call[c].timer /\ r.child # "alive"
    BY <1>0 DEF CallType
  <2>2. PICK how \in Outcomes : Settles(c, how, r)
    BY <1>7 DEF Closes, Outcomes
  <2>3. call[c].stage \in {"running", "done"}
    BY <1>0, <1>7 DEF Closes, CallType, Stages, SoundCall
  <2> QED BY <2>1, <2>2, <2>3, EventSound
<1>8. CASE UNCHANGED runnerVars
  BY <1>0, <1>8, SameStages DEF runnerVars
<1> QED
  BY <1>1, <1>2, <1>3, <1>4, <1>5, <1>6, <1>7, <1>8 DEF RunnerNext

\* However many calls there are and whatever their children do, no call waits while there
\* is room, no more than the limit run, a child outlives its call only when it was killed,
\* and no timer is left behind (runProcess and ConcurrencyLimiter of process-runner.ts).
THEOREM RunnerLeavesNothing == RunnerSpec => []NothingLeaks
<1>1. RunnerInv => NothingLeaks
  BY DEF RunnerInv, SoundPlaces, SoundCall, RunningCalls, NothingLeaks
<1> QED
  BY RunnerInvInit, RunnerInvNext, <1>1, PTL DEF RunnerSpec

----------------------------------------------------------------------------
\* The video monitor.

\* A finite set of numbers has a greatest one.
LEMMA GreatestMember ==
    ASSUME NEW S, S \subseteq Int, IsFiniteSet(S), S # {}
    PROVE  \E x \in S : \A y \in S : y <= x
<1> DEFINE above(x) == {y \in S : x <= y}
           F == {above(x) : x \in S}
<1>1. F \subseteq FiniteSubsetsOf(S)
  <2>1. ASSUME NEW x \in S PROVE above(x) \in SUBSET S /\ IsFiniteSet(above(x))
    <3>1. above(x) \in SUBSET S
      OBVIOUS
    <3> QED BY <3>1, FS_Subset
  <2> QED BY <2>1 DEF FiniteSubsetsOf
<1>2. F # {}
  OBVIOUS
<1>3. PICK U \in F : \A V \in F : ~(<<V, U>> \in StrictSubsetOrdering(S))
  BY <1>1, <1>2, FS_StrictSubsetOrderingWellFounded, WFMin
<1>4. PICK x \in S : U = above(x)
  BY <1>3
<1>5. ASSUME NEW y \in S PROVE y <= x
  <2>1. SUFFICES ASSUME x < y PROVE FALSE
    OBVIOUS
  <2>2. above(y) \subseteq above(x) /\ x \in above(x) /\ x \notin above(y)
    <3>1. x \in Int /\ y \in Int /\ \A z \in S : z \in Int
      OBVIOUS
    <3>2. ASSUME NEW z \in above(y) PROVE z \in above(x)
      BY <2>1, <3>1
    <3>3. x <= x /\ ~(y <= x)
      BY <2>1, <3>1
    <3> QED BY <3>2, <3>3, Zenon
  <2>3. <<above(y), above(x)>> \in StrictSubsetOrdering(S)
    BY <2>2 DEF StrictSubsetOrdering
  <2> QED BY <1>3, <1>4, <2>3
<1> QED BY <1>5

\* Buckets follow the clock, and instants an hour apart have buckets of their own.
LEMMA BucketOrder ==
    ASSUME NEW t \in Nat, NEW u \in Nat, t <= u
    PROVE  /\ Bucket(t) \in Nat /\ Bucket(u) \in Nat /\ Bucket(t) <= Bucket(u)
           /\ u - t >= Hour => Bucket(t) < Bucket(u)
<1>1. Hour \in Nat \ {0}
  BY MonitorAssumption
<1>2. ASSUME NEW a \in Nat, NEW b \in Nat, a <= b, NEW k \in Nat \ {0}
      PROVE  a \div k <= b \div k /\ a \div k \in Nat /\ b \div k \in Nat
  BY <1>2, SMTT(30)
<1>3. ASSUME NEW a \in Nat, NEW b \in Nat, NEW k \in Nat \ {0}, b - a >= k
      PROVE  a \div k < b \div k
  BY <1>3, SMTT(30)
<1> QED BY <1>1, <1>2, <1>3 DEF Bucket

MonitorTables ==
    /\ clock \in Nat /\ clock <= MaxClock
    /\ row \in [VideoIds -> VideoRows \cup {NULL}]
    /\ snaps \in [VideoIds -> [0..Bucket(MaxClock) -> SnapshotRows \cup {NULL}]]
    /\ cataloged \in [VideoIds -> Nat \cup {NULL}]
    /\ \A v \in VideoIds : cataloged[v] # NULL => cataloged[v] <= clock

\* A snapshot is in the bucket of its instant, and of a video that has a row.
SoundSnaps ==
    \A v \in VideoIds : \A b \in Taken(v) :
        /\ row[v] # NULL
        /\ snaps[v][b].at <= clock
        /\ Bucket(snaps[v][b].at) = b

\* What a listing under way still has to write.
SoundListing(l) ==
    /\ l.phase \in {"idle", "writing"}
    /\ l.phase = "writing" =>
         /\ \/ l = [phase |-> "writing", items |-> l.items]
            \/ l = [phase |-> "writing", try |-> l.try, items |-> l.items]
         /\ \A v \in DOMAIN l.items : l.items[v] \in Dates \cup {NULL}

\* Nobody else writes tiers, so the one a pass carries is the stored one; and a video
\* that is viewed was due at the instant the pass goes by.
SoundCapture ==
    /\ capturing.phase \in {"idle", "next", "checking", "viewing"}
    /\ capturing.phase = "idle" => capturing = Idle
    /\ capturing.phase = "next" =>
         capturing = [phase |-> "next", at |-> capturing.at, todo |-> capturing.todo]
    /\ capturing.phase = "viewing" =>
         capturing = [phase |-> "viewing", at |-> capturing.at, video |-> capturing.video,
                      todo |-> capturing.todo, try |-> capturing.try,
                      captured |-> capturing.captured]
    /\ capturing.phase # "idle" =>
         /\ capturing.at \in Nat /\ capturing.at <= clock
         /\ \A v \in DOMAIN capturing.todo :
              v \in VideoIds /\ row[v] # NULL /\ capturing.todo[v].tier = row[v].tier
    /\ capturing.phase \in {"checking", "viewing"} =>
         /\ capturing.video \in VideoIds \ DOMAIN capturing.todo
         /\ row[capturing.video] # NULL
    /\ capturing.phase = "checking" => capturing.tier = row[capturing.video].tier
    /\ capturing.phase = "viewing" =>
         /\ capturing.captured \in Nat
         /\ capturing.at <= capturing.captured /\ capturing.captured <= clock
         /\ row[capturing.video].tier # "ARCHIVED"
         /\ \A b \in Taken(capturing.video) :
              capturing.at - snaps[capturing.video][b].at >= Interval[row[capturing.video].tier]

MonitorInv ==
    /\ MonitorTables
    /\ SoundSnaps
    /\ SoundListing(discovering) /\ SoundListing(reconciling)
    /\ SoundCapture
    /\ CurrentFigures

LEMMA MonitorInvInit == MonitorInit => MonitorInv
<1> SUFFICES ASSUME MonitorInit PROVE MonitorInv
  OBVIOUS
<1>1. MonitorTables
  BY MonitorAssumption DEF MonitorInit, MonitorTables
<1>2. \A v \in VideoIds : Taken(v) = {} /\ row[v] = NULL
  BY DEF MonitorInit, Taken
<1>3. SoundSnaps /\ CurrentFigures
  BY <1>2 DEF SoundSnaps, CurrentFigures, ShownFigures
<1>4. SoundListing(discovering) /\ SoundListing(reconciling) /\ SoundCapture
  BY DEF MonitorInit, SoundListing, SoundCapture, Idle
<1> QED BY <1>1, <1>3, <1>4 DEF MonitorInv

\* The newest bucket is one, so what it shows is what any row of that bucket shows.
LEMMA NewestBucket ==
    ASSUME NEW T, NEW b \in T, T \subseteq Int, \A c \in T : c <= b
    PROVE  (CHOOSE x \in T : \A c \in T : c <= x) = b
<1>1. \A x \in T : (\A c \in T : c <= x) => x = b
  OBVIOUS
<1> QED BY <1>1

\* The newest snapshot of any source is no older than any of the monitor's.
LEMMA LatestIsNewest ==
    ASSUME MonitorTables, SoundSnaps, NEW v \in VideoIds, NEW b \in Taken(v)
    PROVE  Latest(v) # NULL /\ Latest(v) \in Nat /\ snaps[v][b].at <= Latest(v)
<1>1. CapturedAt(v) \subseteq 0..clock /\ clock \in Nat
  <2>1. ASSUME NEW c \in Taken(v) PROVE snaps[v][c].at \in 0..clock
    <3>1. c \in 0..Bucket(MaxClock) /\ snaps[v][c] # NULL
      BY DEF MonitorTables, Taken
    <3>2. snaps[v][c] \in SnapshotRows
      BY <3>1 DEF MonitorTables
    <3>3. snaps[v][c].at \in Nat /\ snaps[v][c].at <= clock
      BY <3>2 DEF SoundSnaps, SnapshotRows
    <3> QED BY <3>3 DEF MonitorTables
  <2>2. cataloged[v] # NULL => cataloged[v] \in 0..clock
    BY DEF MonitorTables
  <2> QED BY <2>1, <2>2 DEF CapturedAt, Taken, MonitorTables
<1>2. IsFiniteSet(CapturedAt(v))
  <2>1. IsFiniteSet(0..clock)
    BY <1>1, FS_Interval
  <2> QED BY <1>1, <2>1, FS_Subset
<1>3. snaps[v][b].at \in CapturedAt(v)
  BY DEF CapturedAt, Taken
<1>4. CapturedAt(v) \subseteq Int /\ CapturedAt(v) # {}
  BY <1>1, <1>3
<1>5. \E x \in CapturedAt(v) : \A y \in CapturedAt(v) : y <= x
  BY <1>2, <1>4, GreatestMember
<1>6. Latest(v) \in CapturedAt(v) /\ \A y \in CapturedAt(v) : y <= Latest(v)
  BY <1>4, <1>5 DEF Latest
<1> QED BY <1>1, <1>3, <1>6, NullIsNoRow

\* Rows that keep their figures, or begin with none, keep the tables sound.
LEMMA FiguresKept ==
    ASSUME MonitorInv, UNCHANGED <<clock, snaps, cataloged>>,
           row' \in [VideoIds -> VideoRows \cup {NULL}],
           \A v \in VideoIds :
               IF row[v] # NULL THEN row'[v] # NULL /\ row'[v].views = row[v].views
               ELSE row'[v] = NULL \/ row'[v].views = NULL
    PROVE  MonitorTables' /\ SoundSnaps' /\ CurrentFigures'
<1>1. \A v \in VideoIds : Taken(v)' = Taken(v)
  BY DEF Taken
<1>2. MonitorTables'
  BY DEF MonitorInv, MonitorTables
<1>3. SoundSnaps'
  BY <1>1 DEF MonitorInv, SoundSnaps
<1>4. \A v \in VideoIds : row[v] = NULL => Taken(v) = {}
  BY DEF MonitorInv, SoundSnaps
<1>5. CurrentFigures'
  <2>a. UNCHANGED snaps
    OBVIOUS
  <2>0. \A v \in VideoIds : ShownFigures(v)' = ShownFigures(v)
    BY <2>a DEF ShownFigures, Taken
  <2> SUFFICES ASSUME NEW v \in VideoIds, row'[v] # NULL
               PROVE  row'[v].views = ShownFigures(v)
    BY <2>0 DEF CurrentFigures
  <2>1. CASE row[v] = NULL
    BY <1>4, <2>1 DEF ShownFigures
  <2>2. CASE row[v] # NULL
    BY <2>2 DEF MonitorInv, CurrentFigures
  <2> QED BY <2>1, <2>2
<1> QED BY <1>2, <1>3, <1>5

\* A pass under way is not disturbed by rows that keep their tiers, nor by the clock.
LEMMA CaptureKept ==
    ASSUME MonitorInv, UNCHANGED <<capturing, snaps>>, clock' \in Nat, clock <= clock',
           \A v \in VideoIds : row[v] # NULL => row'[v] # NULL /\ row'[v].tier = row[v].tier
    PROVE  SoundCapture'
<1>1. \A v : Taken(v)' = Taken(v)
  BY DEF Taken
<1>2. SoundCapture /\ clock \in Nat
  BY DEF MonitorInv, MonitorTables
<1> QED BY <1>1, <1>2 DEF SoundCapture

LEMMA UpsertSound ==
    ASSUME MonitorInv, NEW v, NEW d \in Dates \cup {NULL}, row' = Upserted(v, d),
           UNCHANGED <<clock, snaps, cataloged, capturing>>
    PROVE  MonitorTables' /\ SoundSnaps' /\ CurrentFigures' /\ SoundCapture'
<1>1. row \in [VideoIds -> VideoRows \cup {NULL}] /\ clock \in Nat
  BY DEF MonitorInv, MonitorTables
<1>2. row' \in [VideoIds -> VideoRows \cup {NULL}]
  BY <1>1 DEF Upserted, VideoRows, Tiers
<1>3. \A u \in VideoIds :
         IF row[u] # NULL
         THEN row'[u] # NULL /\ row'[u].views = row[u].views /\ row'[u].tier = row[u].tier
         ELSE row'[u] = NULL \/ row'[u].views = NULL
  <2> TAKE u \in VideoIds
  <2>1. CASE u # v
    BY <1>1, <2>1 DEF Upserted
  <2>2. CASE u = v /\ row[u] = NULL
    BY <1>1, <2>2 DEF Upserted
  <2>3. CASE u = v /\ row[u] # NULL
    <3>1. row[u] \in VideoRows /\ row'[u] = [row[u] EXCEPT !.published = d]
      BY <1>1, <2>3 DEF Upserted
    <3>2. row'[u] \in VideoRows /\ row'[u].views = row[u].views /\ row'[u].tier = row[u].tier
      BY <3>1 DEF VideoRows
    <3> QED BY <2>3, <3>2, NullIsNoRow
  <2> QED BY <2>1, <2>2, <2>3
<1> QED BY <1>1, <1>2, <1>3, FiguresKept, CaptureKept

\* What is left of a listing is still to be written.
LEMMA LeftSound ==
    ASSUME NEW l, SoundListing(l), l.phase = "writing", NEW v \in DOMAIN l.items
    PROVE  SoundListing(Left(l, v))
  BY DEF SoundListing, Left, Without, Idle

LEMMA ListedSound ==
    ASSUME NEW D, D \subseteq Dates \cup {NULL}, NEW items \in Listings(D), NEW n
    PROVE  /\ SoundListing([phase |-> "writing", items |-> items])
           /\ SoundListing([phase |-> "writing", try |-> n, items |-> items])
<1>1. \A v \in DOMAIN items : items[v] \in D
  BY DEF Listings
<1> QED BY <1>1 DEF SoundListing

\* The listings: what they write keeps the tables and the pass sound.
LEMMA ListingSteps ==
    ASSUME MonitorInv,
           \/ FeedListed \/ DiscoveryWrites \/ DiscoveryWriteFails
           \/ ReconcileLists \/ ReconcileWrites \/ ReconcileFails
    PROVE  MonitorInv'
<1>0. SoundListing(discovering) /\ SoundListing(reconciling) /\ clock \in Nat
  BY DEF MonitorInv, MonitorTables
<1>i. SoundListing(Idle)
  BY DEF SoundListing, Idle
<1>a. ASSUME UNCHANGED <<clock, row, snaps, cataloged, capturing>>
      PROVE  MonitorTables' /\ SoundSnaps' /\ CurrentFigures' /\ SoundCapture'
  <2>1. row' \in [VideoIds -> VideoRows \cup {NULL}]
    BY <1>a DEF MonitorInv, MonitorTables
  <2> QED BY <1>0, <1>a, <2>1, FiguresKept, CaptureKept
<1>1. CASE FeedListed
  <2>1. SoundListing(discovering')
    BY <1>1, ListedSound DEF FeedListed
  <2> QED BY <1>0, <1>1, <1>a, <2>1 DEF FeedListed, tables, MonitorInv, SoundListing
<1>2. CASE DiscoveryWrites
  <2> PICK v \in DOMAIN discovering.items :
           row' = Upserted(v, discovering.items[v]) /\ discovering' = Left(discovering, v)
    BY <1>2 DEF DiscoveryWrites
  <2>1. discovering.phase = "writing" /\ discovering.items[v] \in Dates \cup {NULL}
    BY <1>0, <1>2 DEF DiscoveryWrites, SoundListing
  <2>2. SoundListing(discovering')
    BY <1>0, <2>1, LeftSound
  <2> QED BY <1>0, <1>2, <2>1, <2>2, UpsertSound DEF DiscoveryWrites, MonitorInv, SoundListing
<1>3. CASE DiscoveryWriteFails
  <2>1. SoundListing(discovering')
    BY <1>3, <1>i, ListedSound DEF DiscoveryWriteFails
  <2> QED BY <1>0, <1>3, <1>a, <2>1 DEF DiscoveryWriteFails, tables, MonitorInv, SoundListing
<1>4. CASE ReconcileLists
  <2>1. SoundListing(reconciling')
    BY <1>4, ListedSound DEF ReconcileLists
  <2> QED BY <1>0, <1>4, <1>a, <2>1 DEF ReconcileLists, tables, MonitorInv, SoundListing
<1>5. CASE ReconcileWrites
  <2> PICK v \in DOMAIN reconciling.items :
           row' = Upserted(v, reconciling.items[v]) /\ reconciling' = Left(reconciling, v)
    BY <1>5 DEF ReconcileWrites
  <2>1. reconciling.phase = "writing" /\ reconciling.items[v] \in Dates \cup {NULL}
    BY <1>0, <1>5 DEF ReconcileWrites, SoundListing
  <2>2. SoundListing(reconciling')
    BY <1>0, <2>1, LeftSound
  <2> QED BY <1>0, <1>5, <2>1, <2>2, UpsertSound DEF ReconcileWrites, MonitorInv, SoundListing
<1>6. CASE ReconcileFails
  <2>1. SoundListing(reconciling')
    BY <1>6, <1>i DEF ReconcileFails
  <2> QED BY <1>0, <1>6, <1>a, <2>1 DEF ReconcileFails, tables, MonitorInv, SoundListing
<1> QED BY <1>1, <1>2, <1>3, <1>4, <1>5, <1>6

\* The steps of a pass that write no snapshot.
LEMMA PassSteps ==
    ASSUME MonitorInv,
           \/ SnapshotsStart \/ TierUpdates \/ TierUpdateFails \/ LatestAnswers \/ SnapshotFails
    PROVE  MonitorInv'
<1>0. /\ MonitorTables /\ SoundSnaps /\ SoundCapture /\ clock \in Nat
      /\ SoundListing(discovering) /\ SoundListing(reconciling)
  BY DEF MonitorInv, MonitorTables
<1>a. ASSUME UNCHANGED <<clock, row, snaps, cataloged, discovering, reconciling>>, SoundCapture'
      PROVE  MonitorInv'
  <2>1. row' \in [VideoIds -> VideoRows \cup {NULL}]
    BY <1>0, <1>a DEF MonitorTables
  <2> QED BY <1>0, <1>a, <2>1, FiguresKept DEF MonitorInv, SoundListing
<1>1. CASE SnapshotsStart
  <2>1. PICK S \in Candidates :
           capturing' = NextVideo([at |-> clock,
             todo |-> [v \in S |-> [published |-> row[v].published, tier |-> row[v].tier]]])
    BY <1>1 DEF SnapshotsStart
  <2>2. \A v \in S : v \in VideoIds /\ row[v] # NULL
    BY DEF Candidates
  <2>3. SoundCapture'
    BY <1>0, <1>1, <2>1, <2>2 DEF SnapshotsStart, tables, SoundCapture, NextVideo, Idle
  <2> QED BY <1>1, <1>a, <2>3 DEF SnapshotsStart, tables
<1>2. CASE TierUpdates
  <2>1. PICK v \in DOMAIN capturing.todo :
          LET tier == Tier(v, capturing.todo[v], capturing.at)
          IN  /\ row' = IF tier = capturing.todo[v].tier THEN row ELSE [row EXCEPT ![v].tier = tier]
              /\ capturing' = [phase |-> "checking", at |-> capturing.at, video |-> v,
                               tier |-> tier, todo |-> Without(capturing.todo, v)]
    BY <1>2 DEF TierUpdates
  <2> DEFINE tier == Tier(v, capturing.todo[v], capturing.at)
  <2>2. /\ v \in VideoIds /\ row[v] # NULL /\ capturing.todo[v].tier = row[v].tier
        /\ row[v] \in VideoRows
    BY <1>0, <1>2 DEF TierUpdates, SoundCapture, MonitorTables
  <2>3. tier \in Tiers
    BY DEF Tier, Tiers
  <2> HIDE DEF tier
  <2>4. /\ row' \in [VideoIds -> VideoRows \cup {NULL}]
        /\ row'[v] \in VideoRows /\ row'[v].tier = tier /\ row'[v].views = row[v].views
        /\ \A u \in VideoIds \ {v} : row'[u] = row[u]
    <3>1. CASE tier = row[v].tier
      BY <1>0, <2>1, <2>2, <3>1 DEF MonitorTables, tier
    <3>2. CASE tier # row[v].tier
      <4>1. row' = [row EXCEPT ![v].tier = tier]
        BY <2>1, <2>2, <3>2 DEF tier
      <4>2. [row[v] EXCEPT !.tier = tier] \in VideoRows
        BY <2>2, <2>3 DEF VideoRows
      <4> QED BY <1>0, <2>2, <2>3, <4>1, <4>2 DEF MonitorTables, VideoRows
    <3> QED BY <3>1, <3>2
  <2>5. row'[v] # NULL
    BY <2>4, NullIsNoRow
  <2>6. MonitorTables' /\ SoundSnaps' /\ CurrentFigures'
    BY <1>2, <2>2, <2>4, <2>5, FiguresKept DEF TierUpdates
  <2>7. capturing' = [phase |-> "checking", at |-> capturing.at, video |-> v,
                      tier |-> tier, todo |-> Without(capturing.todo, v)]
    BY <2>1 DEF tier
  <2>8. SoundCapture'
    BY <1>0, <1>2, <2>2, <2>4, <2>5, <2>7 DEF TierUpdates, SoundCapture, Without, Idle
  <2> QED BY <1>0, <1>2, <2>6, <2>8 DEF TierUpdates, MonitorInv, SoundListing
<1>3. CASE TierUpdateFails
  <2>1. PICK v \in DOMAIN capturing.todo :
           capturing' = NextVideo([capturing EXCEPT !.todo = Without(@, v)])
    BY <1>3 DEF TierUpdateFails
  <2>2. LET q == [capturing EXCEPT !.todo = Without(@, v)]
        IN  /\ q.at = capturing.at /\ DOMAIN q.todo \subseteq DOMAIN capturing.todo
            /\ \A u \in DOMAIN q.todo : q.todo[u] = capturing.todo[u]
    BY <1>0, <1>3 DEF TierUpdateFails, SoundCapture, Without
  <2>3. SoundCapture'
    BY <1>0, <1>3, <2>1, <2>2 DEF TierUpdateFails, tables, SoundCapture, NextVideo, Idle
  <2> QED BY <1>3, <1>a, <2>3 DEF TierUpdateFails, tables
<1>4. CASE LatestAnswers
  <2>0. /\ capturing.phase = "checking" /\ UNCHANGED <<clock, row, snaps, cataloged>>
        /\ capturing.at \in Nat
    BY <1>0, <1>4 DEF LatestAnswers, tables, SoundCapture
  <2> PICK v \in VideoIds : v = capturing.video
    BY <1>0, <2>0 DEF SoundCapture
  <2>1. row[v] # NULL /\ row[v] \in VideoRows /\ capturing.tier = row[v].tier
    BY <1>0, <2>0 DEF SoundCapture, MonitorTables
  <2>2. CASE ShouldCapture(capturing.tier, capturing.at, Latest(v))
    <3>1. capturing' = [phase |-> "viewing", at |-> capturing.at, video |-> v,
                        todo |-> capturing.todo, try |-> 1, captured |-> clock]
      BY <1>4, <2>2 DEF LatestAnswers
    <3>2. row[v].tier # "ARCHIVED" /\ Interval[row[v].tier] \in Nat
      BY <2>1, <2>2, MonitorAssumption DEF ShouldCapture, VideoRows, Tiers, Interval
    <3>3. ASSUME NEW b \in Taken(v)
          PROVE  capturing.at - snaps[v][b].at >= Interval[row[v].tier]
      <4>1. Latest(v) # NULL /\ Latest(v) \in Nat /\ snaps[v][b].at <= Latest(v)
        BY <1>0, <2>1, LatestIsNewest
      <4>2. capturing.at - Latest(v) >= Interval[row[v].tier]
        BY <2>1, <2>2, <4>1 DEF ShouldCapture
      <4>5. snaps[v] \in [0..Bucket(MaxClock) -> SnapshotRows \cup {NULL}]
        BY <1>0 DEF MonitorTables
      <4>3. snaps[v][b] \in SnapshotRows
        BY <4>5 DEF Taken
      <4>4. snaps[v][b].at \in Nat
        BY <4>3 DEF SnapshotRows
      <4> QED BY <2>0, <3>2, <4>1, <4>2, <4>4
    <3>4. Taken(v)' = Taken(v)
      BY <2>0 DEF Taken
    <3>5. SoundCapture'
      BY <1>0, <2>0, <2>1, <3>1, <3>2, <3>3, <3>4 DEF SoundCapture
    <3> QED BY <1>4, <1>a, <3>5 DEF LatestAnswers, tables
  <2>3. CASE ~ShouldCapture(capturing.tier, capturing.at, Latest(v))
    <3>1. capturing' = NextVideo(capturing)
      BY <1>4, <2>3 DEF LatestAnswers
    <3>2. SoundCapture'
      BY <1>0, <2>0, <3>1 DEF SoundCapture, NextVideo, Idle
    <3> QED BY <1>4, <1>a, <3>2 DEF LatestAnswers, tables
  <2> QED BY <2>2, <2>3
<1>5. CASE SnapshotFails
  <2>0. capturing.phase = "viewing" /\ UNCHANGED <<clock, row, snaps, cataloged>>
    BY <1>5 DEF SnapshotFails, tables
  <2>1. CASE capturing.try = 1
    <3>1. capturing' = [capturing EXCEPT !.try = 2, !.captured = clock]
      BY <1>5, <2>1 DEF SnapshotFails
    <3>2. capturing' = [phase |-> "viewing", at |-> capturing.at, video |-> capturing.video,
                        todo |-> capturing.todo, try |-> 2, captured |-> clock]
      BY <1>0, <2>0, <3>1 DEF SoundCapture
    <3>3. SoundCapture'
      BY <1>0, <2>0, <3>2 DEF SoundCapture, Taken
    <3> QED BY <1>5, <1>a, <3>3 DEF SnapshotFails, tables
  <2>2. CASE capturing.try # 1
    <3>1. capturing' = NextVideo(capturing)
      BY <1>5, <2>2 DEF SnapshotFails
    <3>2. SoundCapture'
      BY <1>0, <2>0, <3>1 DEF SoundCapture, NextVideo, Idle
    <3> QED BY <1>5, <1>a, <3>2 DEF SnapshotFails, tables
  <2> QED BY <2>1, <2>2
<1> QED BY <1>1, <1>2, <1>3, <1>4, <1>5

\* The snapshot of a pass is written: it is the newest, in a bucket that was empty.
LEMMA SnapshotSteps ==
    ASSUME MonitorInv, SnapshotSucceeds
    PROVE  /\ MonitorInv'
           /\ \A v \in VideoIds : snaps'[v] # snaps[v] =>
                /\ row[v].tier # "ARCHIVED"
                /\ \A b \in DOMAIN snaps[v] : snaps[v][b] # NULL =>
                     /\ snaps'[v][b] = snaps[v][b]
                     /\ clock - snaps[v][b].at >= Interval[row[v].tier]
<1>0. /\ MonitorTables /\ SoundSnaps /\ SoundCapture /\ clock \in Nat /\ CurrentFigures
      /\ SoundListing(discovering) /\ SoundListing(reconciling)
      /\ capturing.phase = "viewing"
  BY DEF MonitorInv, MonitorTables, SnapshotSucceeds
<1> PICK v \in VideoIds, t \in Nat : v = capturing.video /\ t = capturing.captured
  BY <1>0 DEF SoundCapture
<1> DEFINE e == Bucket(t)
<1>1. PICK n \in Counts \cup {NULL} :
         /\ snaps' = [snaps EXCEPT ![v][e] = [at |-> t, views |-> n]]
         /\ row' = [row EXCEPT ![v].views = n]
  BY DEF SnapshotSucceeds, UpdatesFigures
<1>2. UNCHANGED <<clock, cataloged, discovering, reconciling>> /\ capturing' = NextVideo(capturing)
  BY DEF SnapshotSucceeds
<1>3. /\ row[v] # NULL /\ row[v] \in VideoRows /\ row[v].tier # "ARCHIVED"
      /\ t <= clock /\ capturing.at \in Nat /\ capturing.at <= t
      /\ MaxClock \in Nat /\ clock <= MaxClock
  BY <1>0, MonitorAssumption DEF SoundCapture, MonitorTables
<1>4. e \in 0..Bucket(MaxClock) /\ e \in Nat
  <2>1. t <= MaxClock
    BY <1>0, <1>3
  <2>2. e \in Nat /\ Bucket(MaxClock) \in Nat /\ e <= Bucket(MaxClock)
    BY <1>3, <2>1, BucketOrder
  <2> HIDE DEF e
  <2> QED BY <2>2
<1>5. Interval[row[v].tier] \in Nat /\ Hour <= Interval[row[v].tier] /\ Hour \in Nat
  BY <1>3, MonitorAssumption DEF Interval, VideoRows, Tiers
<1>6. ASSUME NEW b \in Taken(v)
      PROVE  /\ b \in Nat /\ b < e
             /\ clock - snaps[v][b].at >= Interval[row[v].tier]
  <2>0. b \in 0..Bucket(MaxClock) /\ snaps[v][b] \in SnapshotRows
    BY <1>0 DEF Taken, MonitorTables
  <2>1. /\ b \in Nat /\ snaps[v][b].at \in Nat
        /\ Bucket(snaps[v][b].at) = b
    BY <1>0, <2>0 DEF SnapshotRows, SoundSnaps
  <2>2. capturing.at - snaps[v][b].at >= Interval[row[v].tier]
    BY <1>0 DEF SoundCapture
  <2>3. t - snaps[v][b].at >= Hour /\ snaps[v][b].at <= t
        /\ clock - snaps[v][b].at >= Interval[row[v].tier]
    BY <1>0, <1>3, <1>5, <2>1, <2>2
  <2>4. Bucket(snaps[v][b].at) < e
    BY <1>3, <2>1, <2>3, BucketOrder
  <2> QED BY <2>1, <2>3, <2>4
<1> HIDE DEF e
<1>7. /\ snaps' \in [VideoIds -> [0..Bucket(MaxClock) -> SnapshotRows \cup {NULL}]]
      /\ \A u \in VideoIds \ {v} : snaps'[u] = snaps[u]
      /\ snaps'[v][e] = [at |-> t, views |-> n] /\ DOMAIN snaps'[v] = DOMAIN snaps[v]
      /\ \A b \in DOMAIN snaps[v] : b # e => snaps'[v][b] = snaps[v][b]
  BY <1>0, <1>1, <1>3, <1>4 DEF MonitorTables, SnapshotRows
<1>8. /\ row' \in [VideoIds -> VideoRows \cup {NULL}]
      /\ \A u \in VideoIds \ {v} : row'[u] = row[u]
      /\ row'[v] \in VideoRows /\ row'[v].views = n /\ row'[v].tier = row[v].tier
  <2>1. [row[v] EXCEPT !.views = n] \in VideoRows
    BY <1>3 DEF VideoRows
  <2> QED BY <1>0, <1>1, <1>3, <2>1 DEF MonitorTables, VideoRows
<1>9. row'[v] # NULL /\ snaps'[v][e] # NULL
  <2>1. [at |-> t, views |-> n] \in SnapshotRows
    BY <1>3 DEF SnapshotRows
  <2> QED BY <1>7, <1>8, <2>1, NullIsNoRow
<1>10. /\ Taken(v)' = Taken(v) \cup {e}
       /\ \A u \in VideoIds \ {v} : Taken(u)' = Taken(u)
  <2>1. e \in DOMAIN snaps[v]
    BY <1>0, <1>4 DEF MonitorTables
  <2> QED BY <1>7, <1>9, <2>1 DEF Taken
<1>11. MonitorTables'
  BY <1>0, <1>2, <1>7, <1>8 DEF MonitorTables
<1>12. SoundSnaps'
  <2> SUFFICES ASSUME NEW u \in VideoIds, NEW b \in Taken(u)'
               PROVE  row'[u] # NULL /\ snaps'[u][b].at <= clock /\ Bucket(snaps'[u][b].at) = b
    BY <1>2 DEF SoundSnaps, Bucket
  <2>1. CASE u # v
    BY <1>0, <1>7, <1>8, <1>10, <2>1 DEF SoundSnaps
  <2>2. CASE u = v /\ b = e
    BY <1>3, <1>7, <1>9, <2>2 DEF e
  <2>3. CASE u = v /\ b # e
    <3>1. b \in Taken(v) /\ snaps'[v][b] = snaps[v][b]
      BY <1>7, <1>10, <2>3 DEF Taken
    <3> QED BY <1>0, <1>3, <1>9, <2>3, <3>1 DEF SoundSnaps
  <2> QED BY <2>1, <2>2, <2>3
<1>13. CurrentFigures'
  <2> SUFFICES ASSUME NEW u \in VideoIds, row'[u] # NULL
               PROVE  row'[u].views = ShownFigures(u)'
    BY DEF CurrentFigures
  <2>1. CASE u # v
    BY <1>0, <1>7, <1>8, <1>10, <2>1 DEF CurrentFigures, ShownFigures
  <2>2. CASE u = v
    <3> DEFINE T == Taken(v) \cup {e}
    <3>1. e \in T /\ T \subseteq Int /\ \A c \in T : c <= e
      BY <1>4, <1>6
    <3>2. (CHOOSE x \in T : \A c \in T : c <= x) = e
      <4> HIDE DEF T
      <4> QED BY <3>1, NewestBucket
    <3>3. ShownFigures(v)' = snaps'[v][e].views
      BY <1>10, <3>1, <3>2 DEF ShownFigures
    <3> QED BY <1>7, <1>8, <2>2, <3>3
  <2> QED BY <2>1, <2>2
<1>14. SoundCapture'
  <2>1. \A u \in DOMAIN capturing.todo : u \in VideoIds /\ u # v
    BY <1>0 DEF SoundCapture
  <2> QED BY <1>0, <1>2, <1>3, <1>8, <2>1 DEF SoundCapture, NextVideo, Idle
<1>15. MonitorInv'
  BY <1>0, <1>2, <1>11, <1>12, <1>13, <1>14 DEF MonitorInv, SoundListing
<1>16. ASSUME NEW u \in VideoIds, snaps'[u] # snaps[u]
       PROVE  /\ row[u].tier # "ARCHIVED"
              /\ \A b \in DOMAIN snaps[u] : snaps[u][b] # NULL =>
                   /\ snaps'[u][b] = snaps[u][b]
                   /\ clock - snaps[u][b].at >= Interval[row[u].tier]
  <2>1. u = v
    BY <1>7, <1>16
  <2>2. ASSUME NEW b \in DOMAIN snaps[v], snaps[v][b] # NULL
        PROVE  snaps'[v][b] = snaps[v][b] /\ clock - snaps[v][b].at >= Interval[row[v].tier]
    <3>1. b \in Taken(v)
      BY <2>2 DEF Taken
    <3>2. b # e
      BY <1>4, <1>6, <3>1
    <3> QED BY <1>6, <1>7, <3>1, <3>2
  <2> QED BY <1>3, <2>1, <2>2
<1> QED BY <1>15, <1>16

LEMMA MonitorInvNext == MonitorInv /\ [MonitorNext]_monitorVars => MonitorInv'
<1> SUFFICES ASSUME MonitorInv, [MonitorNext]_monitorVars PROVE MonitorInv'
  OBVIOUS
<1>0. clock \in Nat /\ MaxClock \in Nat /\ clock <= MaxClock /\ SoundCapture
      /\ row \in [VideoIds -> VideoRows \cup {NULL}]
  BY MonitorAssumption DEF MonitorInv, MonitorTables
<1>i. SoundListing(Idle)
  BY DEF SoundListing, Idle
<1>1. CASE CatalogSnapshot
  <2>1. \A v \in VideoIds : cataloged'[v] # NULL => cataloged'[v] \in Nat /\ cataloged'[v] <= clock
    BY <1>0, <1>1 DEF CatalogSnapshot, MonitorInv, MonitorTables
  <2>2. MonitorTables'
    BY <1>0, <1>1, <2>1 DEF CatalogSnapshot, MonitorInv, MonitorTables
  <2>3. SoundCapture'
    BY <1>0, <1>1, CaptureKept DEF CatalogSnapshot
  <2>4. UNCHANGED <<clock, row, snaps>> /\ SoundSnaps /\ CurrentFigures
    BY <1>1 DEF CatalogSnapshot, MonitorInv
  <2>5. \A v : Taken(v)' = Taken(v) /\ ShownFigures(v)' = ShownFigures(v)
    BY <2>4 DEF Taken, ShownFigures
  <2>6. SoundSnaps' /\ CurrentFigures'
    BY <2>4, <2>5 DEF SoundSnaps, CurrentFigures, Bucket
  <2> QED BY <1>1, <2>2, <2>3, <2>6 DEF CatalogSnapshot, MonitorInv, SoundListing
<1>2. CASE MonitorCrash
  <2>1. UNCHANGED <<clock, row, snaps, cataloged>>
    BY <1>2 DEF MonitorCrash, tables
  <2>2. MonitorTables' /\ SoundSnaps' /\ CurrentFigures'
    BY <1>0, <2>1, FiguresKept
  <2>3. SoundCapture'
    BY <1>2 DEF MonitorCrash, SoundCapture, Idle
  <2>4. SoundListing(discovering') /\ SoundListing(reconciling')
    BY <1>2, <1>i DEF MonitorCrash
  <2> QED BY <2>2, <2>3, <2>4 DEF MonitorInv, SoundListing
<1>3. CASE ClockTicks
  <2>1. /\ UNCHANGED <<row, snaps, cataloged, discovering, reconciling, capturing>>
        /\ clock' = clock + 1 /\ clock' <= MaxClock
    BY <1>0, <1>3 DEF ClockTicks, tables
  <2>2. SoundCapture'
    BY <1>0, <2>1, CaptureKept
  <2>3. MonitorTables'
    BY <1>0, <2>1 DEF MonitorInv, MonitorTables
  <2>4. ASSUME NEW v \in VideoIds, NEW b \in Taken(v)
        PROVE  row[v] # NULL /\ snaps[v][b].at <= clock + 1 /\ Bucket(snaps[v][b].at) = b
    <3>1. snaps[v][b] \in SnapshotRows /\ snaps[v][b].at \in Nat
      BY DEF Taken, MonitorInv, MonitorTables, SnapshotRows
    <3> QED BY <1>0, <3>1 DEF MonitorInv, SoundSnaps
  <2>6. \A v : Taken(v)' = Taken(v) /\ ShownFigures(v)' = ShownFigures(v)
    BY <2>1 DEF Taken, ShownFigures
  <2>5. SoundSnaps' /\ CurrentFigures'
    BY <2>1, <2>4, <2>6 DEF MonitorInv, SoundSnaps, CurrentFigures, Bucket
  <2> QED BY <2>1, <2>2, <2>3, <2>5 DEF MonitorInv, SoundListing
<1>4. CASE UNCHANGED monitorVars
  <2>1. UNCHANGED <<clock, row, snaps, cataloged, discovering, reconciling, capturing>>
    BY <1>4 DEF monitorVars, tables
  <2>2. MonitorTables' /\ SoundSnaps' /\ CurrentFigures' /\ SoundCapture'
    BY <1>0, <2>1, FiguresKept, CaptureKept
  <2> QED BY <2>1, <2>2 DEF MonitorInv, SoundListing
<1> QED
  BY <1>1, <1>2, <1>3, <1>4, ListingSteps, PassSteps, SnapshotSteps DEF MonitorNext

LEMMA MonitorInvariant == MonitorSpec => []MonitorInv
  BY MonitorInvInit, MonitorInvNext, PTL DEF MonitorSpec

\* The current figures of a video are those of the monitor's newest snapshot of it, for
\* any number of videos: the listings that rewrite the row while yt-dlp is awaited, the
\* retries and the restarts change nothing of it (updateCurrentStats beside
\* upsertDiscovered).
THEOREM FiguresAreCurrent == MonitorSpec => []CurrentFigures
<1>1. MonitorInv => CurrentFigures
  BY DEF MonitorInv
<1> QED BY MonitorInvariant, <1>1, PTL

\* No snapshot is taken of an archived video, nor before the interval of its tier, and
\* none replaces another: not by a pass that goes by an old instant, a retry at a later
\* one, or a restart (runSnapshots, shouldCaptureSnapshot, VideoSnapshotJob.run).
THEOREM SnapshotsAreSpaced == MonitorSpec => SnapshotsSpaced
<1>1. ASSUME MonitorInv, [MonitorNext]_monitorVars, ~SnapshotSucceeds
      PROVE  UNCHANGED snaps
  BY <1>1 DEF MonitorNext, monitorVars, tables, FeedListed, DiscoveryWrites,
     DiscoveryWriteFails, ReconcileLists, ReconcileWrites, ReconcileFails, SnapshotsStart,
     TierUpdates, TierUpdateFails, LatestAnswers, SnapshotFails, CatalogSnapshot,
     MonitorCrash, ClockTicks
<1>2. MonitorInv /\ [MonitorNext]_monitorVars =>
        [\A v \in VideoIds : snaps'[v] # snaps[v] =>
           /\ row[v].tier # "ARCHIVED"
           /\ \A b \in DOMAIN snaps[v] : snaps[v][b] # NULL =>
                /\ snaps'[v][b] = snaps[v][b]
                /\ clock - snaps[v][b].at >= Interval[row[v].tier]]_monitorVars
  BY <1>1, SnapshotSteps
<1> QED BY MonitorInvariant, <1>2, PTL DEF MonitorSpec, SnapshotsSpaced
=============================================================================
