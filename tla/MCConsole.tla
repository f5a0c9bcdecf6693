----------------------------- MODULE MCConsole ------------------------------
(***************************************************************************)
(* What the API answers and the console shows, side by side for TLC: the     *)
(* initial state chooses one part, a figure computed or an operation of the  *)
(* API or of a screen, and the others stay as they begin, so that their      *)
(* states add and do not multiply.                                          *)
(*                                                                         *)
(* A figure is computed in one step, from one of the small tables the rest   *)
(* of the system can leave; or an AI proposes a report of it.               *)
(***************************************************************************)
EXTENDS Intelligence, Rankings, ReportEvidence, AiRouter, Charts, AccessScope, SeedAdmin, AiService,
        DashboardScreen, BrowserAuth, UsersScreen, GroupsScreen, ChannelsScreen, AiSettingsScreen,
        ChannelListing

VARIABLES part, input, answer

figureVars == <<part, input, answer>>

Optional(S) == S \cup {NULL}

----------------------------------------------------------------------------
\* Days 0 (the baseline) to 2 (today). NoRow is no row, NULL a row without figures. A
\* row knows its change when it knows its figure and that of the row before, unless that
\* one was written after it; the row of one day may not know the number of the videos.
NoRow == -1

RowsOf(counts, lost, partial) ==
    [d \in DOMAIN counts |->
       IF counts[d] = NoRow THEN NULL
       ELSE LET known == /\ d > 0 /\ d # lost
                         /\ {counts[d], counts[d - 1]} \cap {NULL, NoRow} = {}
            IN  [count |-> counts[d],
                 delta |-> IF known THEN counts[d] - counts[d - 1] ELSE NULL,
                 whole |-> counts[d] # NULL /\ d # partial]]

Never == [figure |-> NULL, whole |-> FALSE, day |-> NULL]

Collected(figures, days) ==
    {s \in [figure : figures, whole : BOOLEAN, day : days] : s.whole => s.figure # NULL}

\* The counters were last scanned on the last day frozen with figures, or later, or the day
\* before when the pass that froze them crossed midnight.
ScannedAfter(s, counts) ==
    \A d \in DOMAIN counts : counts[d] \notin {NULL, NoRow} => s.day # NULL /\ s.day + 1 >= d

Kept ==
    {k \in [0..2 -> {NoRow, NULL, 1, 3}] \X (Collected({NULL, 1, 4}, 0..2) \cup {Never}) :
       ScannedAfter(k[2], k[1])}

Histories ==
    {[rows |-> RowsOf(k[1], lost, partial), current |-> k[2]] :
       k \in Kept, lost \in {0, 1, 2}, partial \in {0, 2, 3}}

\* The other channel's: whole, new, and not scanned since yesterday.
OtherHistories ==
    {[rows |-> RowsOf([d \in 0..2 |-> 2], 0, 3), current |-> [figure |-> 5, whole |-> TRUE, day |-> 2]],
     [rows |-> [d \in 0..2 |-> NULL], current |-> [figure |-> 2, whole |-> TRUE, day |-> 2]],
     [rows |-> RowsOf([d \in 0..2 |-> IF d = 2 THEN NULL ELSE 3], 0, 3),
      current |-> [figure |-> 3, whole |-> TRUE, day |-> 1]]}

Tables(h, g, chosen) ==
    [shown |-> chosen, today |-> 2, row |-> <<h.rows, g.rows>>, current |-> <<h.current, g.current>>]

TrendInputs ==
    {Tables(h, g, chosen) : h \in Histories, g \in OtherHistories, chosen \in {{1}, {1, 2}}}
    \cup {Tables(h, g, {}) : h \in OtherHistories, g \in OtherHistories}

Catalogs ==
    {[observed |-> TRUE, published |-> 1, known |-> 2, timed |-> 1],
     [observed |-> FALSE, published |-> 0, known |-> 0, timed |-> 0]}

\* The latest snapshot is of the collection in the channel's row, or of one that began after
\* it and was committed before it.
Latest(s, after) ==
    IF after # NULL /\ s.day # NULL
    THEN IF after.day >= s.day THEN after ELSE s
    ELSE s

PageTables(h, after) ==
    [shown |-> {1}, today |-> 2, row |-> <<h.rows>>, current |-> <<h.current>>,
     latest |-> <<Latest(h.current, after)>>]

IntelligenceInputs ==
    {[tables |-> PageTables(h, after), old |-> flag, catalog |-> catalog,
      exact |-> [latest |-> TRUE, baseline |-> flag]] :
        h \in Histories, after \in Optional(Collected({NULL, 3}, 0..2)), flag \in BOOLEAN,
        catalog \in Catalogs}

----------------------------------------------------------------------------
Settings ==
    Optional({[monetized |-> FALSE, rpm |-> NULL], [monetized |-> TRUE, rpm |-> 1],
              [monetized |-> TRUE, rpm |-> 3]})

DeltaRow(n) == [count |-> NULL, delta |-> n]

RevenueInputs ==
    {[shown |-> chosen, today |-> 2,
      row |-> <<[d \in 0..2 |-> DeltaRow(gains[d])], [d \in 0..2 |-> IF d = 1 THEN NULL ELSE DeltaRow(3)]>>,
      setting |-> <<settings, other>>] :
        gains \in [0..2 -> {NULL, -3, 2}], settings \in [0..2 -> Settings],
        other \in {[d \in {0} |-> NULL], [d \in {0} |-> [monetized |-> TRUE, rpm |-> 1]]},
        chosen \in {{}, {1}, {1, 2}}}

----------------------------------------------------------------------------
\* A catalogue that is whole may be told partial for an entry it skipped.
ScanOfViews(views, whole) ==
    LET viewed == {v \in DOMAIN views : views[v] # NULL}
    IN  [views |-> views, withViews |-> Cardinality(viewed),
         complete |-> whole /\ viewed = DOMAIN views,
         total |-> Cardinality(DOMAIN views) + IF whole THEN 0 ELSE 1]

ScansOn(videos, counts) ==
    {ScanOfViews(views, whole) : whole \in BOOLEAN,
                                 views \in UNION {[S -> counts] : S \in SUBSET videos}}

OtherScans ==
    {<<NULL, NULL>>,
     <<ScanOfViews([v \in {3} |-> 1], TRUE), ScanOfViews([v \in {3} |-> 2], TRUE)>>}

LeaderTables(pair, other, gain, chosen) ==
    [shown |-> chosen, today |-> 2,
     row |-> <<[d \in 0..2 |-> DeltaRow(gain)], [d \in 0..2 |-> DeltaRow(0)]>>,
     scan |-> <<[d \in 1..2 |-> pair[d]], [d \in 1..2 |-> other[d]]>>]

LeaderInputs ==
    {LeaderTables(pair, other, gain, chosen) :
        pair \in Optional(ScansOn({1, 2}, {1, 2, 3})) \X Optional(ScansOn({1, 2}, {NULL, 2, 3})),
        other \in OtherScans, gain \in {NULL, 0, 3}, chosen \in {{}, {1}, {1, 2}}}

----------------------------------------------------------------------------
\* The instant is 10, a week 4 long; videos 1 and 2 are of one channel, 3 and 4 of the
\* other. Three videos are read.
Now == 10

HourWindows == <<1, 3>>

SeenInputs ==
    {[i \in {} |-> 0], [i \in {9} |-> 5], [i \in {4, 6, 9} |-> i],
     [i \in {3, 5, 8} |-> 9 - i], [i \in {5, 6, 7, 10} |-> IF i = 6 THEN NULL ELSE i],
     [i \in {1, 2} |-> 3]}

RankingInputs ==
    {[videos |-> <<[chan |-> 1, published |-> p, seen |-> s],
                   [chan |-> 1, published |-> q, seen |-> t],
                   [chan |-> 2, published |-> 3, seen |-> u],
                   [chan |-> 2, published |-> 4, seen |-> [i \in {4, 6, 9} |-> i]]>>,
      kind |-> k, size |-> size] :
        p \in {NULL, 2, 5}, q \in {2, 5}, s \in SeenInputs, t \in SeenInputs, u \in SeenInputs,
        k \in Kinds, size \in {2}}

----------------------------------------------------------------------------
\* Days are two instants long; day 0 is before the period, of day 1 or days 1 and 2.
Periods ==
    {[kind |-> "DAILY", first |-> 1, last |-> 1, cutoff |-> 3],
     [kind |-> "WEEKLY", first |-> 1, last |-> 2, cutoff |-> 7]}

ReportRows ==
    {RowsOf([d \in 0..2 |-> 5], 0, 1), RowsOf([d \in 0..2 |-> 5 + d], 0, 3),
     RowsOf([d \in 0..2 |-> IF d = 2 THEN NoRow ELSE 5 + d], 0, 3),
     RowsOf([d \in 0..2 |-> IF d = 1 THEN NULL ELSE 5], 0, 3),
     [d \in 0..2 |-> NULL]}

OtherReportRows == {RowsOf([d \in 0..2 |-> 7 + 2 * d], 0, 3)}

ReportVideos ==
    {<<>>,
     <<[chan |-> 1, seen |-> [i \in {1, 3, 5} |-> 20 + i]],
       [chan |-> 2, seen |-> [i \in {2, 5, 6} |-> 30 + i]]>>,
     <<[chan |-> 2, seen |-> [i \in {5} |-> NULL]],
       [chan |-> 1, seen |-> [i \in {1, 2, 3} |-> 40 + 2 * i]]>>,
     <<[chan |-> 1, seen |-> [i \in {0, 5} |-> 10 + i]]>>}

ReportInputs ==
    {[tables |-> [channels |-> channels, row |-> <<rows, others>>, video |-> videos],
      period |-> period] :
        channels \in {{}, {1}, {1, 2}}, rows \in ReportRows, others \in OtherReportRows,
        videos \in ReportVideos, period \in Periods}

\* A summary that cites nothing but the coverage; one target, one limitation or neither;
\* a reason that cites an item, alone, with the coverage or with an item there is not, and
\* quotes at most one number.
Unknown == Fact(<<"CHANNEL", 3>>, "count", 1, {9}, TRUE)

Proposals(aggregate) ==
    LET cited == aggregate.evidence \cup {Unknown}
        coverage == {item \in aggregate.evidence : item.metric = "coverage"}
        numbers == {{}} \cup {{n} : n \in Quotable(cited)}
        reasons == {[numbers |-> n, cites |-> {x} \cup y] :
                      n \in numbers, x \in cited, y \in {{}, {Unknown}, coverage}}
        targets == {{}} \cup {{[of |-> x.about, reason |-> r]} :
                                x \in aggregate.evidence \cup {Unknown}, r \in reasons}
        summary == [numbers |-> {}, cites |-> coverage]
    IN  {[claims |-> {summary}, limitations |-> {}, targets |-> x] : x \in targets}
        \cup {[claims |-> {summary}, limitations |-> {summary}, targets |-> {}]}

----------------------------------------------------------------------------
Models(own) == [r \in Roles |-> IF r = "ANALYSIS" THEN own ELSE NULL]

StoredSettings(priorities, own) ==
    Optional({[key |-> key, enabled |-> enabled, priority |-> priority, models |-> Models(model)] :
                key \in BOOLEAN, enabled \in BOOLEAN, priority \in priorities, model \in own})

Environments ==
    {[p \in AiProviders |-> [key |-> p = named, models |-> Models("given")]] :
        named \in {"GEMINI", "NVIDIA"}}

StoredRoles ==
    {[r \in Roles |-> NULL],
     [r \in Roles |-> IF r = "FAST" THEN [provider |-> "NVIDIA", model |-> "fast"]
                      ELSE IF r = "FALLBACK" THEN [provider |-> "GEMINI", model |-> "last"]
                      ELSE NULL]}

WirePairs ==
    {<<"valid", "valid">>, <<"invalid", "valid">>, <<"invalid", "invalid">>,
     <<"unreachable", "valid">>, <<"refused", "valid">>}

ByProvider(g, n) == [p \in AiProviders |-> IF p = "GEMINI" THEN g ELSE n]

\* The worker's router, whose primary is chosen, or the API's, whose primary is GEMINI
\* and whose roles start from the environment.
RouterInputs ==
    {[settings |-> ByProvider(g, n), environment |-> e, roles |-> roles, task |-> task,
      worker |-> worker, wires |-> ByProvider(w, x)] :
        g \in StoredSettings({0, 1}, {NULL, "own"}), n \in StoredSettings({0}, {"own"}),
        e \in Environments, roles \in StoredRoles, worker \in BOOLEAN,
        task \in {"CHANNEL_CLASSIFICATION", "DAILY_REPORT"}, w \in WirePairs, x \in WirePairs}

\* A model that is recommended is one.
ASSUME RecommendedAssumption == NULL # "best"

ClientsOf(i) == Clients(i.settings, i.environment, [p \in AiProviders |-> "best"])

RouteOf(i) ==
    IF i.worker
    THEN Route(ClientsOf(i), WorkerPrimary(i.settings, ClientsOf(i)), i.roles, i.task, i.wires)
    ELSE Route(ClientsOf(i), "GEMINI", ApiRoles(i.roles, i.environment, ClientsOf(i)), i.task, i.wires)

----------------------------------------------------------------------------
Parts == {"trends", "intelligence", "revenue", "leaders", "rankings", "report", "router"}

FiguresInit == part \in Parts /\ input = NULL /\ answer = NULL

Computes(p, inputs, Answer(_)) ==
    /\ part = p /\ answer = NULL
    /\ \E i \in inputs : input' = i /\ answer' = Answer(i)
    /\ UNCHANGED part

AskTrends == Computes("trends", TrendInputs, LAMBDA i : Trends(i, 0))
AskIntelligence ==
    Computes("intelligence", IntelligenceInputs,
         LAMBDA i : IntelligenceOf(i.tables, 1, 0, i.old, i.exact, i.catalog))
AskRevenue == Computes("revenue", RevenueInputs, LAMBDA i : Revenue(i, 1))
AskLeaders == Computes("leaders", LeaderInputs, Leaders)
AskRanking ==
    Computes("rankings", RankingInputs, LAMBDA i : RankingPage(i.videos, Now, i.kind, 1, i.size))
AskAi == Computes("router", RouterInputs, RouteOf)

ReportProposed ==
    /\ part = "report" /\ answer = NULL
    /\ \E i \in ReportInputs :
          input' = i /\ answer' \in Proposals(Aggregate(i.tables, i.period))
    /\ UNCHANGED part

FiguresNext ==
    \/ AskTrends \/ AskIntelligence \/ AskRevenue \/ AskLeaders \/ AskRanking \/ AskAi
    \/ ReportProposed

Answered(p) == part = p /\ answer # NULL

----------------------------------------------------------------------------
VARIABLE console    \* "figures", or the part of the console that moves

vars == <<console, figureVars, scopeVars, seedVars, aiVars, screenVars, authVars, usersVars,
          groupsVars, channelsVars, aiTabVars, inquiryVars>>

Consoles == {"scope", "seed", "settings", "classify", "dashboard", "auth", "users", "groups", "channels",
             "providers", "listing"}

Init ==
    /\ \/ console = "figures" /\ FiguresInit
       \/ console \in Consoles /\ part = "none" /\ input = NULL /\ answer = NULL
    /\ ScopeInit /\ SeedInit /\ AiInit /\ ScreenInit /\ AuthInit /\ UsersInit /\ GroupsInit
    /\ ChannelsInit /\ AiTabInit /\ ListingInit
    /\ console # "auth" => cookie = NULL
    /\ console # "groups" => used = {}
    /\ console # "listing" => InSelection = {}

\* The part that was chosen takes its steps; the others stay.
Next ==
    /\ UNCHANGED console
    /\ \/ console = "figures" /\ FiguresNext
       \/ console = "scope" /\ ScopeNext
       \/ console = "seed" /\ SeedNext
       \/ console = "settings" /\ SettingsNext
       \/ console = "classify" /\ ClassifyNext
       \/ console = "dashboard" /\ ScreenNext
       \/ console = "auth" /\ AuthNext
       \/ console = "users" /\ UsersNext
       \/ console = "groups" /\ GroupsNext
       \/ console = "channels" /\ ChannelsNext
       \/ console = "providers" /\ AiTabNext
       \/ console = "listing" /\ ListingNext
    /\ console # "figures" => UNCHANGED figureVars
    /\ console # "scope" => UNCHANGED scopeVars
    /\ console # "seed" => UNCHANGED seedVars
    /\ console \notin {"settings", "classify"} => UNCHANGED aiVars
    /\ console # "dashboard" => UNCHANGED screenVars
    /\ console # "auth" => UNCHANGED authVars
    /\ console # "users" => UNCHANGED usersVars
    /\ console # "groups" => UNCHANGED groupsVars
    /\ console # "channels" => UNCHANGED channelsVars
    /\ console # "providers" => UNCHANGED aiTabVars
    /\ console # "listing" => UNCHANGED inquiryVars

Spec == Init /\ [][Next]_vars

----------------------------------------------------------------------------
\* The dashboard's totals are those of its days and of its channels, and what a report says
\* of a period is the difference between its ends.
FiguresAddUp ==
    /\ Answered("trends") => TrendsAddUp(input, 0, answer)
    /\ Answered("revenue") => RevenueAddsUp(input, answer)
    /\ Answered("report") => PeriodsAddUp(input.tables, input.period)

\* No state of the tables makes the dashboard compute an answer that its own contract
\* refuses.
AnswersParse ==
    /\ Answered("trends") => TrendsParse(answer)
    /\ Answered("revenue") => RevenueParses(answer)
    /\ Answered("leaders") => LeadersParse(answer)

\* The leading videos are the ones that gained most between two whole catalogues.
LeadersHold == Answered("leaders") => LeadersTellTheTruth(input, answer)

\* The panels of the dashboard draw what its answers tell.
PanelsTell ==
    /\ Answered("trends") => TrendPanelTells(answer)
    /\ Answered("revenue") => RevenuePanelTells(answer)

\* The page of a channel and the dashboard agree, the panels draw what the dashboard's
\* answers tell, the rankings say of a channel's videos what the channel's own ranking
\* says, page by page, from gains of their own windows, and the cards say the sum of all the
\* channels of the selection, listed page by page.
PagesHold ==
    /\ Answered("intelligence") => PagesAgree(input.tables, 1, 0, input.old, answer)
    /\ PanelsTell
    /\ Answered("rankings") => /\ RankingsAreLocal(input.videos, Now, input.kind, input.size)
                              /\ GainsAreOfTheirWindow(input.videos, Now)
    /\ ListsTheSelection

\* A stored report tells the data, and what of it is missing.
ReportsHold == Answered("report") => ReportsTellTheData(input.tables, input.period, answer)

\* An answer routed is that of the provider it is attributed to, which is enabled and has
\* a key; and no provider that is only out of reach hides another that would answer.
RoutesHold ==
    Answered("router") =>
        AnswerAttributed(ClientsOf(input), input.settings, input.wires, answer)

\* An answer of AI is that of the provider it is attributed to (AiRouter), of the data as
\* they were when it was asked (AiService).
AiAnswersHold == RoutesHold /\ AnswersOfTheSource

\* What is written is what was asked, and of nothing else: a monetization setting of a past
\* day (Monetization), the settings of an AI provider (AiService), and the end of a session
\* in a tab (BrowserAuth).
NothingUnasked == [][HistoryStands /\ SavesWhatIsAsked /\ LeavesOnlyWhenTold]_vars

\* Every screen shows what it names: the dashboard its selection, a tab its user, the
\* administrator's screens the grants, the groups and the settings that the server holds,
\* a provider's tab its own.
ScreensShowTheirOwn ==
    /\ ShowsTheSelection /\ ShowsTheUser /\ ShowsTheGrants /\ ShowsTheGroups
    /\ ShowsTheSettings /\ OffersItsOwn
=============================================================================
