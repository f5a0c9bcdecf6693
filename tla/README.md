# A formal model of YouTube Home Monitor

TLA+ models of the parts of this repository whose correctness depends on the order in which
things happen: checks and collections of a worker that await the network, requests and
administrators that race on one account, passes that fail half-way, restart or cross midnight,
answers that reach a screen late or in another order. TLC checks the models on small instances,
and TLAPS proves their main properties for every value of the constants.

    tlc -config health.cfg MCChannelHealthScenarios   # model-check one run
    tlapm ChannelHealthProofs.tla                     # check the proofs of one module

`PROJECT.json` lists the components, the runs with the properties they check, one mutant per
property (a plausible bug of the code that the property catches), the source lines every
definition models, the hazards of the code, and the theorems.

## 1. Inventory

The system is a dashboard over one PostgreSQL database (Prisma). An **API** (NestJS) serves
a React web client; a **worker** runs timers that collect public data of YouTube channels.
API and worker share nothing but the tables. Every write goes through a unit of work
(`packages/db/src/*-unit-of-work.ts`), a *Serializable* transaction, so a transaction is one
step of a model, and the interesting interleavings are between an `await` and the next.

| component | state | operations | hard behaviour | what makes it correct |
|---|---|---|---|---|
| Channel health (worker) | health fields of `channels`, `channel_health_checks`, queued `sync_runs`; in memory: the circuit window | `ChannelHealthScheduler.runOnce`, `ChannelHealthJob.run`, `transitionChannelHealth`, circuit | rows are listed once per pass and written back after three probes; passes may overlap; window lost on restart | no false delete, row coherent with its evidence, circuit blocks deletions, queued checks served as far as their order allows |
| Channels API | `channels`, `sync_runs`, `channel_monetization_settings` | create, archive, requestHealthCheck, updateMonetization, reads | writes the rows the worker has listed; the day of an update is taken before its transaction | an archived channel stays archived; an update changes its day's setting and no other |
| Channel data and daily stats (worker) | current figures of `channels`, `channel_daily_stats`; in memory: lock, last day done, attempts | initial, scheduled and daily passes, `ChannelStatsJob.run`, `DailyFinalizeJob` | the clock is read again at every await; rows of a half-done day stay; the day done is known in memory only | first row of a day stands, deltas never bridge a gap, only fresh figures are frozen, a day is done only when complete |
| Daily video catalogue (worker) | `video_catalog_scans`, `video_snapshots`, `sync_runs` | `DailyVideoCatalogScheduler.runIfDue`, `DailyVideoCatalogJob.run` | claim of a day by several workers; crossing midnight; failure after the claim | one immutable scan a day with exactly its snapshots |
| Video monitor (worker) | `videos`, `video_snapshots` | discovery, reconciliation, tiers, snapshot buckets | tiers and spacing from stale rows, captures of half a minute, an uncaught rejection that ends the process | no bucket is written twice, snapshots spaced by the tier, current figures those of the newest snapshot |
| AI reports (worker) | reports, `sync_runs`; in memory: what was tried and done | schedule, retry, pipeline, evidence and its check | polls overlap a generation of minutes; a restart forgets what was done | a report stored is never replaced, what is done has its report, a report says what the tables say |
| Accounts, logins, sessions (API) | `users`, `sessions`, `login_throttles` | login, logout, changePassword, authentication of requests | the password is verified outside the transaction that acts on it | sessions current, revocation final, locks hold |
| Administration of viewers (API) | the same tables | create, updateEmail, resetPassword, revokeSessions, disable, enable | races with logins and changes under way | no session survives a reset or a disable |
| Bootstrap of the administrator | `users` | `seedAdmin` | two bootstraps at once, the hash outside the lock | at most one seeded administrator |
| Groups and access scope (API) | groups, memberships, assignments | CRUD, scope of a viewer's queries | the scope is resolved in one transaction and used in another | an answer is within what its asker was entitled to while it asked |
| Rankings, dashboard, analytics | read-only over snapshots | trends, revenue, leaders, rankings, intelligence of a channel | missing rows and snapshots, window edges, two computations of one figure | totals are those of their parts, answers keep their contracts, gains only between whole catalogues or existing snapshots, pages agree |
| Revenue and monetization | effective-dated history | upsert of a day's setting, estimate | midnight and archiving between request and transaction | each day is paid by the setting in force on it |
| AI service and router | settings, roles, classifications | updateSettings, classifyChannel, fall back to the other provider | saves that overlap, data that change while a provider thinks | an answer is that of the provider and of the data it is attributed to |
| Collectors | none | pages, feeds, child process | timer, overflow and close of one child in any order | no child, timer or place in the queue is left behind |
| Heartbeat, aggregated health | heartbeat rows | beat, shutdown, staleness | a write that outlives its worker's shutdown | healthy means a live worker |
| Web client | what each screen loaded, forms and dialogs; who is signed in | loads, saves, archives, login, logout | answers late, lost or out of order; another administrator | a screen shows the selection, the user and the server's state it names |
| Configuration, logging, crypto, deployment | none | — | — | — |

The interactions: the API's `create` and `archive` write rows the worker's passes have listed;
`requestHealthCheck` queues a run that a health pass takes over; the stats job writes the health
fields of a row that a health pass is probing; the daily catalogue and the video monitor write
the same snapshot table under different buckets; administrators commit between the verification
of a login and the transaction that opens its session, and change groups between the two
transactions of a viewer's read. The dashboard and the reports read what finalization and the
catalogue wrote; the screens hold answers of the API over each other's saves.

## 2. Modules

| module | models | form |
|---|---|---|
| `HealthSignals` | signals, circuit breaker, state machine, activity (`packages/shared/src/channel-health/*`, `channel-history.ts`) | operators |
| `ChannelHealth` | scheduler, job, circuit window, the API's writes, the stats loop's writes of the health fields | state machine |
| `ChannelHealthProofs` | — | theorems, over `MCChannelHealthScenarios` for the passes that do not overlap |
| `LoginThrottle` | the sliding bucket of `packages/auth/src/rate-limit.ts` | operators |
| `Identity` | login, sessions, password change, administration | state machine |
| `IdentityProofs`, `IdentityClaims` | — | theorems; one refuted claim |
| `LocalDays` | the worker's local calendar and the daily boundary | operators; the lemmas of the calendar |
| `DailyStats`, `DailyStatsProofs` | `ChannelDataScheduler`, `ChannelStatsJob`, `DailyFinalizeJob`; refines `CanonicalRows` | state machine; theorems |
| `CatalogAnswer` | `parseFullCatalogJson` and when a catalogue is complete | operators |
| `CanonicalRows` | what the daily stats and the daily evidence promise their readers: rows written once, whole and sound | abstract specification |
| `DailyCatalog` | `DailyVideoCatalogScheduler`, `DailyVideoCatalogJob` and their unit of work; refines `CanonicalRows` | state machine |
| `DailyCatalogProofs` | — | theorems |
| `VideoMonitor` | discovery, reconciliation and snapshot passes of `video-monitor/` | state machine |
| `AiReports` | `AiReportScheduler`, `AiReportPipeline`, `AiReportJob` | state machine |
| `ReportEvidence` | `ai-report.aggregate.ts` and the grounding check | operators |
| `AiRouter` | the providers' clients, the two runtimes and `AIProviderRouter` | operators |
| `Heartbeat` | `HeartbeatService`, `HealthService`, the container's check | state machine |
| `YtdlpRunner` | `runProcess` and `ConcurrencyLimiter` | state machine |
| `Dashboard` | trends, revenue, leaders and the contracts they are parsed with | operators |
| `Intelligence` | `publicIntelligence` of a channel | operators |
| `Rankings` | the four rankings, their scores and their pages | operators |
| `Charts` | what the panels of the dashboard draw and say | operators |
| `AccessScope` | groups, grants and the two transactions of a read | state machine |
| `SeedAdmin` | `seedAdmin` | state machine |
| `Monetization` | `updateMonetization` over days | state machine |
| `AiService` | `updateSettings`, `classifyChannel` | state machine |
| `ProtocolProofs` | — | theorems about `SeedAdmin`, `AccessScope`, `Heartbeat`, `AiReports`, `YtdlpRunner`, `VideoMonitor` |
| `DashboardScreen`, `ChannelListing` | batches of a selection; a listing asked for page by page | state machines |
| `BrowserAuth` | the authentication of a tab | state machine |
| `UsersScreen`, `GroupsScreen`, `ChannelsScreen`, `AiSettingsScreen` | the administrator's screens against the server | state machines; one refuted claim in `ChannelsScreen` |
| `FiguresProofs` | — | sums and orders of finite sets; theorems about `Dashboard`, `Intelligence`, `Charts`, `Rankings` and `ReportEvidence`, for every table |
| `ConsoleProofs` | — | theorems about the screens, `ChannelListing`, `Monetization`, `AiService`, `AiRouter`, `ReportEvidence`, and about `MCConsole` |
| `Basics` | the value `NULL`; a finite set listed in an order | constant operators |
| `MCChannelHealth`, `MCChannelHealthScenarios`, `MCIdentity`, `MCDailyStats`, `MCDailyCatalog` | — | instances for TLC; a refuted claim in the first |
| `MCWorkerLoops`, `MCConsole` | several parts side by side | instances for TLC |

Each state machine takes in its module of operators. Instants are integers (ticks); an absent
value is the model value `NULL`. Definitions marked *Slip* in a module are the mutated forms
used by the mutants, next to the definition they break; nothing in `Next` uses them.

### ChannelHealth

`row[c]` is the row of `channels` (lifecycle, health state, last upload and scan), `queued[c]` the
ids of the QUEUED runs in the order the database sorts them, `healthChecks[c]` what the rows of
`channel_health_checks` add up to: the instants of the failing checks, the last strong one,
whether one had two independent strong signals, the newest verdict. `pass[p]` is one `runOnce`:
the rows it listed, the channel it is at and the answer of its probes. `window` is
`HealthCircuitWindow`. `strongSinceAlive` is history.

`StartPass` is `listEnabled`; `Advance` records the previous answer in the window and goes to the
next channel; `ProbesAnswer` evaluates the circuit when the three probes have answered; `Commit`
is the transaction of `ChannelHealthJob.run` (the row written back from the *listed* one, the
check recorded, the queued run whose id sorts first taken over), `CommitFails` its failure.
`StatsList`, `StatsNext`, `StatsCommit` and `StatsPartial` are the stats loop's writes of the same
row; `CreateChannel`, `ArchiveChannel` and `RequestHealthCheck` the API's; `WorkerRestart` loses
everything in memory. A request draws any id that is not in use, since ids are random: nothing
orders queued runs by age (`startedAt` is null for all of them).

### Identity

`user`, `session` and `bucket` are tables; `login[l]` is one `AuthService.login` between two
awaits, `request[r]` one authenticated request, which may be a logout or a password change. A
login captures its instant once (`LoginBegins`), is refused or let through by the bucket
(`Preflight`), reads the account and verifies the password (`Lookup`), then re-checks both in
one transaction: `AdmitLocked`, `AdmitStale` (start over once) or `AdmitSession`; `Fail`
counts a failure. `FindSession` and `Touch` are the two statements of the authenticator.
`ChangeBegins` to `ChangeCommits` are `changePassword`. The administrator's operations are one
transaction each. A hash is its password, a generation (two hashes of one password differ)
and whether it still is a legacy one that a login rehashes.

### DailyStats

`channel[c]` has what the jobs read of a row, `daily[c][d]` is `channel_daily_stats`,
`pass[w]` the pass that holds worker `w`'s lock: the await it is at, since when, and what it
has still to do; `memory[w]` the scheduler's other fields. `RunInitialStatsOnce`,
`RunScheduledStatsOnce` and `RunDailyIfDue` are the timers (dropped when the lock is held).
`List*`, `Check`, `Collect*`, `Relist`, `WriteRow` and `WriteFails` are the stretches of a pass
between two awaits: list the channels; for each, ask whether today's row is missing; collect
those; list again; freeze one row each. The day is taken from the clock exactly where the
code takes it: at the start of the pass for the day it will call done, when `needsFinalization`
is called, and again when `run` is called. The three counters of a channel are one figure.

### DailyCatalog

`scan[c][d]` is `video_catalog_scans`, `snapshot[c][d][v]` the catalogue's rows of
`video_snapshots` (bucketed at local 00:20 of the day, which no hourly bucket of the monitor
equals in a zone of whole hours), `run` its rows of `sync_runs` in order of creation, each with
the worker that made it (memory of the model). `pass[w]` is worker `w`'s pass of the scheduler:
the call it awaits, the channel, the instant taken last, its run and the catalogue it holds.

`RunIfDue` is the poll; `ListEnabled` takes whichever channels are enabled when the list
answers. `FindsScan`, `FindsNoScan` and `QueryFails` end the search for the day's scan;
`RunStarts` inserts the run. yt-dlp then answers for minutes: `CollectSucceeds`,
`CollectCrossesMidnight` (the day is compared with the start's) or `CollectFails`. The
transaction is one step: `ClaimWon` when `createIfAbsent` inserts the scan, and everything else
with it; `ClaimLost` when a scan is there, whose coverage the run then tells; `PersistFails`
when it throws. `FailRun` records a failure and `FailRunFails` fails to. `Restart` loses the
pass of a worker and nothing else. The day is taken from the clock where the code takes it:
when the loop comes to a channel, when the search has answered, when the collection has.
The job's filter by channel is left out, since the parser has skipped foreign entries already.

### The worker's other loops

`VideoMonitor`: `row[v]` is what the loops read of `videos`, `snaps[v][b]` the monitor's rows of
`video_snapshots` by hour bucket, `cataloged[v]` the catalogue's last. `FeedListed`,
`DiscoveryWrites` and `DiscoveryWriteFails` are `VideoDiscoveryJob` (a failed write repeats the
run once, feed included); `ReconcileLists` to `ReconcileFails` are `VideoReconcileJob`.
`SnapshotsStart` lists the candidates and takes the instant that tiers and spacing go by;
`TierUpdates`, `LatestAnswers` and `SnapshotSucceeds` are the awaits of each; `MonitorCrash` is a
restart, or the end of the process when the query of the latest snapshot rejects.

`AiReports`: `report[o]` is the stored report of an occurrence with the prompts and data it was
made from, `syncRuns` and `aiRuns` the accounts, `poll[p]` one poll of the scheduler (several
overlap) with the run it is in, `completed` and the tries the scheduler's memory. `Heartbeat`:
`heartbeat[w]` is the row, `worker[w]` the service and its write under way, `alive[w]` (history)
when the process was last there, `check` the API's read, `verdict` the last answer.
`YtdlpRunner`: `call[c]` is the promise, the timer and the child of one call, `waiters` the
limiter's queue. The repository exports the limiter and nothing outside its tests constructs one.

### Figures

`Dashboard`, `Intelligence`, `Rankings`, `ReportEvidence`, `AiRouter` and `Charts` have no state:
an operator for each stage of a computation, from a record of tables to the answer, and beside
it what the answer has to satisfy, stated from the tables alone. The views and the subscribers of
a channel are one figure, and a snapshot or a row says of itself whether it is *whole*: whether
the number of videos, which nothing shown is computed from, is known beside that figure. A score
that is a quotient is compared exactly.

The dashboard reads the current figures in the row of the channel, `t.current[c]`; the page of a
channel reads them in the newest of its snapshots, `t.latest[c]` (`latestSnapshot`). One
collection writes both, but the row is that of whichever collection was committed last and the
newest snapshot that of the one that began last, so that with two collections under way they
differ. `PagesAgree` says how far the two answers may then differ, and that they agree when both
are of one collection. `ListForRanking` is what a ranking reads: the first `MaxRead` videos of
the selection (5000 in the code) in the order of `Precedes`, videos without a date before all
others, and the newest `MaxSnapshots` snapshots of each (300). `RankingsAreLocal` compares the
ranking of a channel with that of all only where the second reads all the videos of the channel
that the first does. `NumbersOf` states the windows of a report from the tables: a video's
views are those of the newest snapshot within the tolerance before the end of the period, and its
gain the change since the one so found at its start.

### The API's protocols

`SeedAdmin` has a run of the script between its lock, hash and second inspection. `AccessScope`
has the groups as the administrator rearranges them, and one read: `Asks`, `Resolves` (the
scope's transaction), `ReadsData` (the data's). `everSeen` and `alwaysSeen` are history: what the
asker was entitled to at some, and at every, moment of the read. `Monetization` has one update
between the request, which takes the day, and its transaction; midnight and an archive come
between. `AiService` has saves and classifications between their transactions.

### Screens

Each screen's module has the server's side as far as the screen shows it, the requests under way
with what the server read for them, and the React state; an action is a click, an answer that
arrives, a failure, or the server's step. What another administrator does, and a reply that is
lost after the server acted, leave a screen that cannot know: each module remembers it (`unknown`,
`old`, `oldItems`) and promises nothing until the next load. The dialog of a group has two halves,
saved one by one (`saveMetadata`, `saveChannels`): a save of one leaves the other as it was read
or typed, and `manage.old` remembers by half what another administrator changed. `ChannelListing`
asks for pages while channels come and go, `moved` is its memory of that.

## 3. Runs

A run that passes explores every reachable state of its instance.

| run | instance | shows |
|---|---|---|
| `health` | 1 channel, 2 passes; either overlapping each other and the stats loop (clock 0..1), or one at a time with the circuit and a restart (clock 0..3) | no false delete; row coherent; outage on record; lone passes delete only on evidence since the last sign of life and show the newest check; an open circuit blocks deletions |
| `health_liveness` | 2 channels, 1 pass, 1 restart, no clock (a retry is always due), fairness | a queued check is served once none that sorts before it keeps coming, the circuit recovers, a restart of the worker included |
| `identity_sessions` | 1 account, 1 login, 2 requests, an administrator | sessions are current and stay revoked; a change needs the current password |
| `identity_answers` | an account that is renamed and one created under the email it gave up, fairness | what is admitted is current; everyone is answered |
| `identity_clock` | logins of different instants on one bucket, clock 0..4 | locks hold and are reached exactly at the limit; nobody enters while locked; sessions expire when they should |
| `daily_stats` | 2 workers, 1 channel, days of 2 ticks, clock 1..3, 1 restart | the abstract specification is implemented, so the first row stands; deltas; fresh figures; a day done is complete |
| `daily_catalog` | 2 workers, 1 channel, 2 videos, 6 answers, 3 runs, days of 2 ticks, clock 1..3, 1 restart each | the abstract specification is implemented; a settled run tells the scan that stands; scans are of their day; no worker collects a day twice |
| `worker_loops` | one loop at a time: a video over 5 instants with a crash; 2 polls, 2 runs and a restart; 2 workers over 4 instants; 3 calls for 1 place | snapshots spaced, figures current; reports stand and done means reported; healthy means alive; nothing leaks |
| `console` | one part at a time: every small table of the figures; a read, 2 bootstraps, 2 saves, 2 classifications; each screen | see below |
| `claim_archived`, `claim_revoke`, `claim_review` | the smallest instances | violated: see section 6 |

The parts of `worker_loops` and `console` share no variable: the initial state chooses the one
that moves, and their states add up instead of multiplying. Some properties of `console` are
conjunctions of what the modules state:

| property | is |
|---|---|
| `FiguresAddUp` | `TrendsAddUp`, `RevenueAddsUp`, `PeriodsAddUp`: totals are those of their days and channels |
| `AnswersParse` | `TrendsParse`, `RevenueParses`, `LeadersParse`: no table makes an answer its contract refuses |
| `LeadersHold` | the leaders gained most between two whole catalogues of consecutive days |
| `PagesHold` | `PagesAgree` (a channel's page and the dashboard, as far as they read the same), `PanelsTell` (its charts), `RankingsAreLocal`, `GainsAreOfTheirWindow`, `ListsTheSelection` (the cards) |
| `ReportsHold` | a report that passes the check tells the data of its period and what is missing of them |
| `AiAnswersHold` | `RoutesHold` (who answered) and `AnswersOfTheSource` (of which data) |
| `AnswersWithinScope`, `OneAdministrator` | of `AccessScope` and `SeedAdmin`, also proved |
| `NothingUnasked` | `HistoryStands` (monetization), `SavesWhatIsAsked` (AI settings), `LeavesOnlyWhenTold` (a tab) |
| `ScreensShowTheirOwn` | `ShowsTheSelection`, `ShowsTheUser`, `ShowsTheGrants`, `ShowsTheGroups`, `ShowsTheSettings`, `OffersItsOwn` |

**Bounds.** `MaxTime`, `MaxQueued`, `MaxRestarts`, `MaxSessions`, `MaxGen` and `MaxRuns` bound
counters in guards; `FailureCap` saturates the failure counter, which the code only compares with
zero. Every delay is 1 or 2 ticks and the clock runs past all of them, so before, at and after
each boundary all occur. Days of two ticks with the boundary in the middle give both an early and
a due half; the clock starts in the due half of a day, crosses midnight and ends in the due half
of the next, which is what a pass that crosses midnight, a delta and a new row each need. Two
ids of queued runs (`MaxQueued`) let a later run sort before or after the one that waits; the
liveness run queues them for the channel a pass comes to last. One
channel suffices where the properties are about one row (channels only meet in the loops of a
pass); liveness takes two, so that a pass has something to walk past. In `daily_stats` the second
worker runs only its daily pass, and only it restarts: the initial and scheduled passes write
current figures, which the first worker's already do at every moment. In `daily_catalog` three
runs let two workers race on one day and one of them come back on the next; the six answers are a
complete catalogue, one without a declared size, and one of each way of being partial (views
missing, a video repeated, an entry malformed, an entry declared and absent).

In `worker_loops` the ages and intervals (1 to 5 instants) let a video go through every tier and
be captured at the start, a whole interval later and too early; reports take two runs of one day
and the next, so that one poll finds what another made; three calls for one place let two wait.
In `console` the tables of a figure are all the combinations of rows, missing rows and rows
without figures over three days for one channel beside a few of another, all pairs of small
catalogues, and videos whose snapshots lie at, within and beyond every tolerance; `RpmUnit`,
`Week`, `Hours`, and the tolerances are 1 to 4 so that each is met exactly and missed by one. The
newest snapshot of a page is that of the row or any other of a collection no older, fresh or stale.
A ranking has four videos and reads three (`MaxRead`), so that one without a date crowds another
channel's out; a video has up to four snapshots and three are read (`MaxSnapshots`), so that the
baseline of a week may be the one that is not. Reports are of one day and of two, cut inside and
after their last day, over videos with snapshots before, at and after both tolerances. A
screen has two of what it distinguishes (users, groups, contents, tabs) and as many loads as let
one come late behind another (`MaxBatches`, `MaxAnswers`, `MaxVersions`, `MaxLoads`, `MaxPages`,
`MaxReads`). In `GroupsScreen` a group is there when the screen opens or is created, with the
content `NoChannels`, and two changes follow (`MaxChanges`): a save or an archive against another
administrator's, or a creation and what is done to its group. A proposal of a report has one
reason, which cites an item of the evidence alone, with the coverage or with an item that is not
there.

**Deadlock** is checked except in `daily_stats`, where with the clock at its bound,
the day done and every channel archived nothing may be left to do, in `daily_catalog`,
where the runs may be used up, and in `worker_loops`, `console` and the claim of a screen, where
an answer computed or the bound on requests is the end.

**Fairness.** `ChannelHealth`: the timer keeps firing and every probe has a timeout of its own
(weak fairness of the steps of a pass); the transaction of a channel that is tried pass after
pass does not fail for ever (strong fairness of `Commit`). `Identity`: every await of a login
or request ends, in an answer or an error; nothing is assumed of clients, administrators or
the clock. No liveness is claimed of `DailyCatalog`, whose collections may fail for as long as
yt-dlp does, nor of `DailyStats`: a timer that finds the lock held is dropped, and the initial
and daily polls have the same 30 s period, so nothing in the code guarantees that the daily
poll ever finds the lock free. It does in practice because passes are short.

## 4. Proofs

The theorems hold for every value of the constants under the named assumptions of the modules
(`HealthAssumption`, `ChannelHealthAssumption`, `ThrottleAssumption`, `IdentityAssumption`,
`DaysAssumption`, `DailyStatsAssumption`, `DailyNullAssumption`, `DailyCatalogAssumption`,
`CatalogNullAssumption`, `AdminIsNoViewer`, `NullIsNoScope`, `HeartbeatAssumption`,
`ReportsAssumption`, `NullIsNoReport`, `RunnerAssumption`, `MonitorAssumption`, `NullIsNoRow`,
`RpmUnitAssumption`, `FigureAssumption`, `ReportAssumption`, `ScreenAssumption`, `AuthAssumption`,
`UsersAssumption`, `GroupsAssumption`, `MoneyAssumption`, `ChannelsAssumption`, `TabAssumption`,
`ServiceAssumption`, `RecommendedAssumption`, `RankingsAssumption`, `ReasonAssumption`,
`MetricAssumption`, `ListingAssumption`): numbers are natural, delays positive where the code
requires it, `NULL` is no number, no name of a metric and no record, a catalogue has finitely many
videos (its scan counts them). Sets of workers, passes, users and logins may be infinite.

*Channel health.* `TypeCorrect`; `NoFalseDelete`, `RowsCoherent` and `OutagesOnRecord`. The three
are not inductive: a pass writes back a row it listed long ago. `SoundRows` says of every
*listed* row what they say of the rows themselves, relative to the checks on record, which only
grow; a stale row written back is therefore still covered by evidence (`RowsSound`).
`IncidentsDeleteNothing` is about passes that do not overlap, so about one pass: `LonePass` says
that what it listed as deleted still is, or was archived since, and that the circuit it read when
the probes answered is still the circuit when it writes. With two passes neither holds.
`LonePassesTell` is about the scenarios of `MCChannelHealthScenarios` whose passes do not overlap:
any number of passes, one at a time. `LoneRows` says of each row, and of each row the pass under
way has listed, that it is told by the checks on record: two strong signals since the last sign of
life where it says deleted, one where it counts a failure, the verdict of the newest check; and
that no check on record is newer than the one under way. A row archived meanwhile is the only
exception.

*Identity.* `TypeCorrect`, then `SessionsAreCurrent` (a session's generation is the account's:
inductive with type correctness because every operation that moves the hash or the enabled flag
revokes in the same transaction, and the admission re-checks the account it read),
`RevocationIsFinal`, `SessionsExpire`, `LockedOutStaysOut`, `LocksHold`, `LimitsLock` (that
instants captured earlier never exceed the clock is part of `TypeOK`, and is what these need),
`AdmissionIsCurrent` and `ChangesAreCurrent`.

*Daily figures.* `TypeCorrect`; `RowsStand` and `DeltasRight` from the lemma that the only
write of a row fills an absent one (`DailySteps`). `RowsCanonical` is the refinement of
`CanonicalRows`: that write publishes one row (`WritePublishes`), and the row is sound, with the
instant its figure was captured at beside it and no delta without a figure (`FrozenRow`); the
first takes that the collection stores a channel's figure and its instant together, which is part
of `TypeOK`. `FirstRowStands` is the part of it that `RowsStand` states alone.
`RowsFeedTrends` closes a gap between two components: `TrendTables` are the tables
`DashboardService.trends` reads of the worker's state, and in every state, for every selection of
channels and every period, they satisfy `TrendData`, the hypothesis of `TrendsAlwaysAddUp` (below);
it follows from `DeltasRight` and type correctness. The worker's one figure does not tell the
number of a channel's videos, without which no row is whole: any rows and current figures may have
it (`counted`, `countedNow`). No row of these tables is mistaken for a missing one
(`FigureAssumption` of `Dashboard`, a hypothesis here).
`OnlyFreshFigures` needs `FreshInv`: a
channel a pass has collected has figures stored since the pass began, and so do the figures
the pass has listed for it. `DoneIsFrozen` needs `DoneInv`: while the day a pass began on lasts,
every channel it owes a row is in what it has still to do, pending, or has its row; the lemma
`DoneLater` (rows stand, channels do not come back into use, days do not return) carries it over
the steps of everyone else, and `DayMonotone` shows that all the clock readings of such a pass
fall on one day.

*Daily catalogue.* `TypeCorrect` needs `OwnRuns` beside it: a pass settles its run blindly, so
that the run it settles is RUNNING takes that no two passes share one. `EvidenceCanonical` is
the refinement: every step publishes one sound row or stutters. Its invariant is
`EvidenceSound` (what is stored is sound, and snapshots exist only with a scan: the claim
finds no row *and* no snapshot) with `CatalogsSound` (so is what a pass holds, whatever yt-dlp
answered). `SettledRunsTell` and `ScansOfTheirDay` come from one invariant, `RunsSound`;
`CollectedOnceByEach` rests on it too: a worker that has collected a day with success leaves a scan
there (its own or another's), so that none of its later searches starts a run of that day, and
`Collected` says that none under way may: only a search of an earlier day starts a run without
having looked, and a worker that is still at that search has not yet collected the new day.

*The smaller protocols* (`ProtocolProofs`). `BootstrapCreatesOne`: the lock makes each inspection
and insert one step, and `SeedInv` adds that viewers exist only beside an administrator, without
which an empty table of administrators would not mean an empty table. `ReadsStayInScope`:
`ScopeHolds` says of the resolved scope, between the two transactions, what the property says of
the answer. `VerdictsAreOfTheLiving`: `BeatsOfTheLiving` relates a row's instant to the last
moment of its process, though a write may land after a shutdown gave up waiting for it.
`ReportsStand`: `PollsApart` (no two polls are in one occurrence, and one that asks found no
current report), which the scheduler's set of occurrences under way gives. `DoneIsReported`:
`ReportsInv` carries what every phase of a poll knows of its run (`SoundPoll`), over restarts
that leave runs behind. `RunnerLeavesNothing`: `RunnerInv` counts the calls that run, and says
of each stage which of promise, timer and child are still open, so that whichever event settles
a call first finds a place to give up, and every later one nothing. `SnapshotsAreSpaced` and
`FiguresAreCurrent`: `SoundCapture` carries what was checked of the newest snapshot of *any*
source to the moment the monitor's own is written, an await later: the tier a pass carries is
the stored one, and the intervals are measured from the instant the pass goes by, which is never
later than the instant of the try. The bucket written is then later than every bucket there is.

*The screens* (`ConsoleProofs`). `ScreensShow`: each screen has its own invariant, which says of
every answer under way what the property says of what is shown, with what dates it. `ScreenInv`:
the batches of the newest effect are of the scope shown. `AuthInv`: no two bootstraps share a
number, a tab that loads waits for the current one, and what that one or a login will answer is
whom the cookie names. `UsersInv` and `GroupsInv`: unless the screen cannot know (`unknown`,
`old`), a load under way, the list and an open dialog hold what the server holds, but for the
write under way. `ChannelsInv` (over `MoneyInv`: no setting is of a day to come, and what an
update answers is in force) relates the items that were listed to the settings of the server, and
`TabInv` an answer to the tab that asked for it. `NothingIsUnasked` uses that no setting is
written after the day an update under way was asked on, and that a save which no other disturbed
still knows the setting of its provider (`SettingsInv`). Each of these components moves alone in
`MCConsole`; `PartsStep` says so once, and the theorem about all of them follows. The proofs
sharpened three definitions: when a provider's tab is `crossed` by a reread of another,
`LeavesOnlyWhenTold`, and `ShowsTheUser`, which had excused every open form.

*Providers and reports* (`ConsoleProofs`). `RouteAttributes` is by the cases of the two clients
and what the wires answer; `AiAnswers` adds, by `CallsInv`, that the source a classification was
asked of is the one it is stored with. `ReportsTell` holds of every table and of every period
whose first day is not after its last (`ReportData`): `UsableIs` says which snapshot stands for a
boundary, `BoundariesAre` that the boundaries are those `NumbersOf` names, `EvidenceTells` what
each item of the evidence is, and `CompleteIsWhole` that a coverage said complete leaves no day
and no gain out.

*The figures* (`FiguresProofs`). Seven theorems hold of every table of any size of the dashboard
and of the reports: `TrendsAlwaysAddUp`, `TrendsAlwaysParse`, `RevenueAlwaysAddsUp`,
`RevenueAlwaysParses`, `PeriodsAlwaysAddUp`, `LeadersAlwaysTell`, `LeadersAlwaysParse`. Their
hypotheses are the types of the tables and, for `TrendsAlwaysAddUp` and `PeriodsAlwaysAddUp`, that
a stored change is the difference of the figures of its day and of the day before (`TrendData`,
`PeriodRows`), which is what `DailyStats` promises as `DeltasRight` and, of the trends' tables,
`RowsFeedTrends` concludes. They rest on what a sum over a finite set is (`MapThenSumSet`, a
fold). Induction is taken without an operator as a parameter: what is proved of a finite set is
put as membership in a set `G` of subsets, and `SubsetInduction` gets that all are in `G` from the
well-foundedness of strict inclusion. From it come `SumAdds` (one element more), `SumOfUnion`,
`SumOfParts` (the sum of the sums of the parts of a partition, which makes days and channels
agree), `SumOfSteps` (changes from day to day telescope to the difference of the ends). What a
sorted list is comes from `OrderedIs`: numbering the members of a finite set by how many are
before them is one to one onto `1..n` whenever the order is strict and total, so that the list
`Ordered` has every member in one place, in that order. `FiguresAlwaysAddUp`, `AnswersAlwaysParse`
and `LeadersAlwaysHold` (`ConsoleProofs`) are the invariants of the run: `AskedOf` keeps the
tables an answer was computed from, and `TrendInputsAre`, `RevenueInputsAre`, `LeaderInputsAre`
and `ReportInputsAre` show that those tables satisfy the hypotheses, so that these are not empty.

*The pages* (`PagesAlwaysHold`, in five parts). `PagesAlwaysAgree`: of every table, where both a
channel's page and the dashboard of that channel tell a gain, the two differ by exactly what the
snapshot and the row they read differ; when these are of one collection, both tell of the same
days, and of as many whole ones while the snapshot is fresh, unless today's row was frozen from a
collection of the day before (section 6). The two count days by different code: the proof shows
that they agree on every day but today (`PageData` has the types of the tables only).
`TrendPanelAlwaysTells` and `RevenuePanelAlwaysTells`: of every answer of trends and of revenue,
the runs of known days that are joined leave none out and cross no day without a figure
(`SegmentsAre`), a greater value is never drawn lower and the grid's labels bound what is drawn
between them (`ScaleIs`, `HeightIs`; integer division is bounded by `QuotientIs`), and a total is
said whole only when every day is. `RankingsAlwaysLocal`: the score of a video depends on the
videos read of its channel alone (`ScoresAreLocal`), which are the same in both rankings wherever
the ranking of all reads the channel's as far as its own does (`ListIsLocal`), the comparison is a
strict total order (`BeatsOrders`), and ranks and pages follow from `OrderedIs` (`PageRowsAre`).
`GainsAlwaysOfTheirWindow`: which snapshots a gain is the difference of, and that none of those
left out of the reading would have been taken instead (`NewerIsRead`). `ListsTheSelection`:
`ListingInv` says that what an inquiry has listed, if nothing came between, is a beginning of the
selection, newest first, as long as the pages asked for; a page carries on from there
(`PageListed`), so that at the end it is all of it, each channel once, and `SumRenamed` gives the
sum the card says. `IntelligenceInputsAre`, `RankingInputsAre` and those of trends and revenue
show that what the run asks satisfies the hypotheses.

Only model-checked: the liveness properties (`QueuedServed`, `CircuitRecovers`, `Answered`), which
are out of this prover's reach.

## 5. Not modelled

Network throttle buckets (the same functions as the identifier's, keyed by address), audit rows,
cookies, CSRF and role guards; parsing of pages and feeds; formatting, logging and layout. In
`DailyStats`: the `channel_snapshots` table and the sync runs of the stats job (append-only
evidence nothing in the model reads), the precision and source labels of a row. In
`ChannelHealth`: the text of errors. In `DailyCatalog`: titles, durations, likes and comments
(more figures of a snapshot), and the rows of `videos` it upserts: `VideoDiscoveryJob` and
`VideoReconcileJob` write the same rows through the same `upsertDiscovered`
(`video.repository.ts:82`), `VideoMonitor` has what its loops read of them, and no module has
`firstSeenAt` and `lastSeenAt`. Transactions are taken as rolled back when they throw; the unit of
work repeats one that lost a serialization conflict (`P2034`) once, which a failing transaction
and another try of the caller stand for. In the figures: floating-point rounding. In the AI
service: `status`, `getReport`, `testProvider` and `discoverModels`, which write nothing. In the
web client: the screens that load once and show, and the confirmation texts. The components with
status `not_modelled` in `PROJECT.json` carry the reason.

No property is claimed of what the code does not promise: a timer of the daily loops that fires
while another pass holds the lock is dropped (`channel-data.scheduler.ts:204`); a run of the
catalogue whose worker stops stays RUNNING (`daily-catalog.ts:179`); a snapshot pass sees the
newest 500 candidates, and a ranking reads 5000 videos of its selection, so a busy channel may
crowd others out (`video.repository.ts:223`, `video.repository.ts:187`; what is ranked is then
still told as its own ranking tells it, or missing, but a breakout is taken against the peers that
were read); a daily report that failed is not retried after midnight
(`ai-report.scheduler.ts:158`); channels that come or go between two pages of a listing may be
told twice or not at all; two saves of one provider's settings that overlap may lose one.

## 6. Where the code and what is said of it differ

* **An archived channel can leave ARCHIVED** (`claim_archived`): a health pass that listed the
  row before the archive writes its own availability over it. The state machine's test says
  "never changes archived channels"; it does not, of the row it is given.
* **A login overtaken by "revoke sessions" opens a session after it** (`claim_revoke`): the
  re-check compares email, hash and enabled flag, and a revoke changes none.
* **A review can rewrite the one before** (`claim_review`): after a save the form proposes the
  date of the setting answered, so the next review of another week, submitted as proposed,
  overwrites it; the comment beside it and the repository's README say each review makes a row of
  its own.

Behaviours met while modelling that no run is about: a channel's page reads its newest snapshot
and the dashboard its row, so that after two collections that overlapped the two tell different
gains (`PagesAgree` says by how much), and a row of today that was frozen after midnight from a
collection of the day before makes today a whole day on the page and not on the dashboard; a
reread of the models of one provider's tab that answers on another's replaces what is shown there
(`crossed` in `AiSettingsScreen` excuses that tab until it is opened again); two strong signals in
one check confirm a deletion at once, while the plan of the health phase asks for a confirmation
in the next check; a daily pass that crosses midnight while collecting freezes what it has into
the row of the new day, before that day's boundary, and the new day's own pass then leaves it
alone; the card of a figure that is unavailable tells 0 of N channels with a baseline
(`dashboard-trend-panel.tsx:183`) while the foot of the panel counts those that have one; a
pending `NOT_FOUND` is kept by transient answers for as long as they last; a queued check of an
archived channel stays queued, and any queued check may wait for as long as later requests draw
ids that sort before its own (`QueuedServed` says under what condition it is served, and TLC
refutes it without); a request's touch with an older instant moves the idle expiry back
(`SessionExpiry` says to which value). In the catalogue: a search for a scan that answers after
midnight starts a collection before the new day's 00:20, which the comment at
`daily-catalog.scheduler.ts:66` means to prevent; a run whose failure cannot be recorded, or whose
worker stops, stays RUNNING for good; of the three loops that set `lastSeenAt` to an instant they
took before they awaited, the one that commits last moves it, back too, and even before
`firstSeenAt`.

## 7. Plan

Every component whose state can be checked has its module. What would add to it:

1. `VideoMonitor` and `DailyCatalog` over one snapshot table. 2. The
network's throttle bucket beside the identifier's in `Identity`.

Small modules whose questions can be asked of one instance share a run, so that the number of
runs stays that of the distinct questions.
