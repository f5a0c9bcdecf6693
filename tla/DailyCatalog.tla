---------------------------- MODULE DailyCatalog ----------------------------
(***************************************************************************)
(* The daily video catalogue (apps/worker/src/video-monitor): once a day,  *)
(* past 00:20, DailyVideoCatalogScheduler walks the enabled channels, and  *)
(* for each one not scanned yet that day DailyVideoCatalogJob lists all its *)
(* videos with yt-dlp, which takes minutes, and writes the scan and their   *)
(* snapshots in one transaction.  The rows of videos it upserts with them   *)
(* are not modelled: the discovery loops write those too.                   *)
(*                                                                         *)
(* What is hard: the day is read from the clock before the search for a    *)
(* scan, at the start of a run and after the collection; two workers may   *)
(* collect one channel's day; a run that crosses midnight, fails or dies   *)
(* with its worker must leave no evidence; readers compare the scans of    *)
(* two days, so a scan and its snapshots must never change.                *)
(*                                                                         *)
(* One action is one await-to-await stretch; a transaction is Serializable *)
(* and one step, which is repeated by its caller's next poll when it fails. *)
(***************************************************************************)
EXTENDS LocalDays, Sequences, FiniteSets

CONSTANTS
    Workers,
    Videos,
    Views,          \* the view counts yt-dlp may report
    ChannelCount,   \* channels are numbered in the order listEnabled gives
    Answers,        \* what yt-dlp may answer
    MaxRuns,        \* bound on the runs of the job
    MaxRestarts     \* bound on the restarts of one worker

INSTANCE CatalogAnswer

Channels == 1..ChannelCount

ASSUME DailyCatalogAssumption ==
    /\ ChannelCount \in Nat
    /\ IsFiniteSet(Videos)
    /\ NULL \notin Videos \cup Views
    /\ Answers \subseteq Answer
    /\ MaxRuns \in Nat
    /\ MaxRestarts \in Nat

VARIABLES
    now,        \* the clock
    scan,       \* scan[c][d]: the video_catalog_scans table
    snapshot,   \* snapshot[c][d][v]: video_snapshots, in the bucket of day d
    run,        \* run[i]: the job's rows of sync_runs, in order of creation; the
                \* worker that made each is memory of the model
    pass,       \* pass[w]: the pass of worker w's scheduler
    restarts    \* restarts[w]: restarts of w so far

evidence == <<scan, snapshot>>
vars == <<now, evidence, run, pass, restarts>>

Scan ==
    [capturedAt : Times, total : Nat, withViews : Nat, status : {"COMPLETE", "PARTIAL"}]
Snapshot == [capturedAt : Times, views : Figure]
Run == [worker : Workers, chan : Channels, startedAt : Times,
        status : {"RUNNING", "SUCCESS", "PARTIAL", "FAILED"}]

\* What the job keeps of an answer.
Catalog ==
    [listed : SUBSET Videos, views : [Videos -> Figure], total : Nat,
     status : {"COMPLETE", "PARTIAL"}]

\* The evidence of a channel's day: its scan and its snapshots.
Evidence == [scan : Scan, snapshots : [Videos -> Snapshot \cup {NULL}]]

\* No record is mistaken for an absent one.
ASSUME CatalogNullAssumption ==
    NULL \notin Scan \cup Snapshot \cup Catalog \cup Evidence

\* A pass: the call it awaits, for which channel, since when or captured when,
\* its row of sync_runs, and the channels it still has to visit.
IdlePass ==
    [phase |-> "idle", todo |-> {}, chan |-> NULL, at |-> NULL, run |-> NULL,
     catalog |-> NULL]

Init ==
    /\ now = StartTime
    /\ scan = [c \in Channels |-> [d \in Days |-> NULL]]
    /\ snapshot = [c \in Channels |-> [d \in Days |-> [v \in Videos |-> NULL]]]
    /\ run = <<>>
    /\ pass = [w \in Workers |-> IdlePass]
    /\ restarts = [w \in Workers |-> 0]

Tick ==
    /\ now < MaxTime
    /\ now' = now + 1
    /\ UNCHANGED <<evidence, run, pass, restarts>>

----------------------------------------------------------------------------
\* DailyVideoCatalogScheduler.runIfDue.

First(S) == CHOOSE c \in S : \A b \in S : c <= b

\* The loop goes on to its next channel, for the day it is now, unless a new day
\* has begun and its boundary is still to come.
NextChannel(q) ==
    IF q.todo # {} /\ IsPastBoundary(now)
    THEN [IdlePass EXCEPT !.phase = "finding", !.chan = First(q.todo),
                          !.todo = q.todo \ {First(q.todo)}, !.at = now]
    ELSE IdlePass

GoOn(w) == pass' = [pass EXCEPT ![w] = NextChannel(@)]

\* A poll starts a pass unless one is running.
RunIfDue(w) ==
    /\ pass[w].phase = "idle"
    /\ IsPastBoundary(now)
    /\ pass' = [pass EXCEPT ![w] = [IdlePass EXCEPT !.phase = "listing"]]
    /\ UNCHANGED <<now, evidence, run, restarts>>

\* Whichever channels are enabled by then.
ListEnabled(w) ==
    /\ pass[w].phase = "listing"
    /\ \E S \in SUBSET Channels : pass' = [pass EXCEPT ![w] = NextChannel([@ EXCEPT !.todo = S])]
    /\ UNCHANGED <<now, evidence, run, restarts>>

ListFails(w) ==
    /\ pass[w].phase = "listing"
    /\ pass' = [pass EXCEPT ![w] = IdlePass]
    /\ UNCHANGED <<now, evidence, run, restarts>>

\* Slip: a day whose scan is partial is collected again.
ScannedWhole(q) ==
    scan[q.chan][Day(q.at)] # NULL /\ scan[q.chan][Day(q.at)].status = "COMPLETE"

\* findByChannelAndDate: any scan of the day will do, a partial one included.
Scanned(q) == scan[q.chan][Day(q.at)] # NULL

FindsScan(w) ==
    /\ pass[w].phase = "finding"
    /\ Scanned(pass[w])
    /\ GoOn(w)
    /\ UNCHANGED <<now, evidence, run, restarts>>

\* The job starts at once, on the day it is by now.
FindsNoScan(w) ==
    /\ pass[w].phase = "finding"
    /\ ~Scanned(pass[w])
    /\ pass' = [pass EXCEPT ![w].phase = "starting", ![w].at = now]
    /\ UNCHANGED <<now, evidence, run, restarts>>

\* The search, or the insertion of a run, throws: caught for this channel.
QueryFails(w) ==
    /\ pass[w].phase \in {"finding", "starting"}
    /\ GoOn(w)
    /\ UNCHANGED <<now, evidence, run, restarts>>

----------------------------------------------------------------------------
\* DailyVideoCatalogJob.run.

RunStarts(w) ==
    /\ pass[w].phase = "starting"
    /\ Len(run) < MaxRuns
    /\ run' = Append(run, [worker |-> w, chan |-> pass[w].chan, startedAt |-> pass[w].at,
                           status |-> "RUNNING"])
    /\ pass' = [pass EXCEPT ![w].phase = "collecting", ![w].run = Len(run) + 1]
    /\ UNCHANGED <<now, evidence, restarts>>

CatalogOf(a) ==
    [listed |-> Listed(a),
     views |-> [v \in Videos |-> IF v \in Listed(a) THEN ViewsOf(a, v) ELSE NULL],
     total |-> SourceEntryCount(a),
     status |-> IF Complete(a) THEN "COMPLETE" ELSE "PARTIAL"]

\* Slip: the day of the capture is not compared with that of the start.
AnyDay(q) == TRUE

SameDay(q) == Day(now) = Day(q.at)

CollectSucceeds(w) ==
    /\ pass[w].phase = "collecting"
    /\ SameDay(pass[w])
    /\ \E a \in Answers :
         pass' = [pass EXCEPT ![w].phase = "persisting", ![w].at = now,
                              ![w].catalog = CatalogOf(a)]
    /\ UNCHANGED <<now, evidence, run, restarts>>

CollectCrossesMidnight(w) ==
    /\ pass[w].phase = "collecting"
    /\ ~SameDay(pass[w])
    /\ pass' = [pass EXCEPT ![w].phase = "failing"]
    /\ UNCHANGED <<now, evidence, run, restarts>>

CollectFails(w) ==
    /\ pass[w].phase = "collecting"
    /\ pass' = [pass EXCEPT ![w].phase = "failing"]
    /\ UNCHANGED <<now, evidence, run, restarts>>

\* syncRuns.complete.
Settled(q, status) == [run EXCEPT ![q.run].status = status]

RunStatus(coverage) == IF coverage = "COMPLETE" THEN "SUCCESS" ELSE "PARTIAL"

ScanOf(q) ==
    [capturedAt |-> q.at, total |-> q.catalog.total,
     withViews |-> Cardinality({v \in q.catalog.listed : q.catalog.views[v] # NULL}),
     status |-> q.catalog.status]

SnapshotsOf(q) ==
    [v \in Videos |->
       IF v \notin q.catalog.listed THEN snapshot[q.chan][Day(q.at)][v]
       ELSE [capturedAt |-> q.at, views |-> q.catalog.views[v]]]

\* Slip: a scan that is there is replaced.
ClaimsAnyway(q) == TRUE

\* createIfAbsent claims the channel's day.
Claims(q) == scan[q.chan][Day(q.at)] = NULL

\* Everything is written with the claim.
ClaimWon(w) ==
    LET q == pass[w]
        d == Day(q.at)
    IN  /\ q.phase = "persisting"
        /\ Claims(q)
        /\ scan' = [scan EXCEPT ![q.chan][d] = ScanOf(q)]
        /\ snapshot' = [snapshot EXCEPT ![q.chan][d] = SnapshotsOf(q)]
        /\ run' = Settled(q, RunStatus(q.catalog.status))
        /\ GoOn(w)
        /\ UNCHANGED <<now, restarts>>

\* Slip: the run that lost the claim tells its own coverage.
OwnCoverage(q) == q.catalog.status

\* The scan that stands tells the status of the run that lost the claim.
CanonicalCoverage(q) == scan[q.chan][Day(q.at)].status

ClaimLost(w) ==
    LET q == pass[w]
    IN  /\ q.phase = "persisting"
        /\ ~Claims(q)
        /\ run' = Settled(q, RunStatus(CanonicalCoverage(q)))
        /\ GoOn(w)
        /\ UNCHANGED <<now, evidence, restarts>>

\* The transaction throws: nothing is written.
PersistFails(w) ==
    /\ pass[w].phase = "persisting"
    /\ pass' = [pass EXCEPT ![w].phase = "failing"]
    /\ UNCHANGED <<now, evidence, run, restarts>>

FailRun(w) ==
    /\ pass[w].phase = "failing"
    /\ run' = Settled(pass[w], "FAILED")
    /\ GoOn(w)
    /\ UNCHANGED <<now, evidence, restarts>>

\* The failure cannot be recorded: the run stays RUNNING for good.
FailRunFails(w) ==
    /\ pass[w].phase = "failing"
    /\ GoOn(w)
    /\ UNCHANGED <<now, evidence, run, restarts>>

----------------------------------------------------------------------------
\* A worker stops and starts: its pass is lost, the tables stay.
Restart(w) ==
    /\ restarts[w] < MaxRestarts
    /\ restarts' = [restarts EXCEPT ![w] = @ + 1]
    /\ pass' = [pass EXCEPT ![w] = IdlePass]
    /\ UNCHANGED <<now, evidence, run>>

PassStep(w) ==
    \/ ListEnabled(w) \/ ListFails(w)
    \/ FindsScan(w) \/ FindsNoScan(w) \/ QueryFails(w)
    \/ RunStarts(w) \/ CollectSucceeds(w) \/ CollectCrossesMidnight(w) \/ CollectFails(w)
    \/ ClaimWon(w) \/ ClaimLost(w) \/ PersistFails(w)
    \/ FailRun(w) \/ FailRunFails(w)

Next == Tick \/ \E w \in Workers : RunIfDue(w) \/ PassStep(w) \/ Restart(w)

Spec == Init /\ [][Next]_vars

----------------------------------------------------------------------------
Phases == {"idle", "listing", "finding", "starting", "collecting", "persisting", "failing"}

PassState ==
    [phase : Phases, todo : SUBSET Channels, chan : Channels \cup {NULL},
     at : Times \cup {NULL}, run : Nat \cup {NULL}, catalog : Catalog \cup {NULL}]

\* What the next step of a pass reads is there at instant t: the channel, its own
\* unsettled run, and a catalogue collected on the day the run began.
PassUnderWay(q, t, runs) ==
    /\ q.phase \notin {"idle", "listing"} => q.chan \in Channels /\ q.at \in StartTime..t
    /\ q.phase \in {"collecting", "persisting", "failing"} =>
         /\ q.run \in 1..Len(runs)
         /\ runs[q.run].chan = q.chan
         /\ runs[q.run].status = "RUNNING"
         /\ runs[q.run].startedAt <= q.at
    /\ q.phase = "collecting" => runs[q.run].startedAt = q.at
    /\ q.phase = "persisting" =>
         q.catalog \in Catalog /\ Day(runs[q.run].startedAt) = Day(q.at)

\* Type correctness: tables and passes stay well formed, and no pass lacks what
\* its next step reads.
TypeOK ==
    /\ now \in Times
    /\ scan \in [Channels -> [Days -> Scan \cup {NULL}]]
    /\ snapshot \in [Channels -> [Days -> [Videos -> Snapshot \cup {NULL}]]]
    /\ run \in Seq(Run)
    /\ pass \in [Workers -> PassState]
    /\ \A w \in Workers : PassUnderWay(pass[w], now, run)
    /\ restarts \in [Workers -> 0..MaxRestarts]

\* A run that ended SUCCESS or PARTIAL tells the coverage of the scan that stands
\* for its channel and day, whichever worker wrote it.
RunsTellTheTruth ==
    \A i \in 1..Len(run) :
        run[i].status \in {"SUCCESS", "PARTIAL"} =>
            LET row == scan[run[i].chan][Day(run[i].startedAt)]
            IN  row # NULL /\ run[i].status = RunStatus(row.status)

\* A scan was captured on its own day, by a run of that day that did not fail: no
\* collection that crossed midnight leaves a scan.
CollectedWithinTheDay ==
    \A c \in Channels, d \in Days :
        scan[c][d] # NULL =>
            /\ Day(scan[c][d].capturedAt) = d
            /\ \E i \in 1..Len(run) :
                 /\ run[i].chan = c
                 /\ run[i].status \in {"SUCCESS", "PARTIAL"}
                 /\ Day(run[i].startedAt) = d
                 /\ run[i].startedAt <= scan[c][d].capturedAt

Succeeded(i) == run[i].status \in {"SUCCESS", "PARTIAL"}

\* A worker has a channel's day collected with success once at most, complete or
\* not: no later poll collects it again, whichever worker's scan stands, nor does a
\* search for the scan of the day before that is answered after midnight, which
\* starts a run of a day it has not looked at.
CollectedOnce ==
    \A i, j \in 1..Len(run) :
        /\ Succeeded(i) /\ Succeeded(j)
        /\ run[i].worker = run[j].worker /\ run[i].chan = run[j].chan
        /\ Day(run[i].startedAt) = Day(run[j].startedAt)
        => i = j

----------------------------------------------------------------------------
\* The day's evidence of a channel as one row: its scan and its snapshots.
EvidenceOf(c, d) ==
    IF scan[c][d] = NULL /\ \A v \in Videos : snapshot[c][d][v] = NULL THEN NULL
    ELSE [scan |-> scan[c][d], snapshots |-> snapshot[c][d]]

ListedIn(r) == {v \in Videos : r.snapshots[v] # NULL}
ViewedIn(r) == {v \in ListedIn(r) : r.snapshots[v].views # NULL}

\* Snapshots are of the scan's instant, and it counts them; only when it has every
\* video with its views is it complete.
SoundEvidence ==
    {r \in Evidence :
        /\ \A v \in ListedIn(r) : r.snapshots[v].capturedAt = r.scan.capturedAt
        /\ Cardinality(ViewedIn(r)) = r.scan.withViews
        /\ r.scan.status = "COMPLETE" =>
             ViewedIn(r) = ListedIn(r) /\ Cardinality(ListedIn(r)) = r.scan.total}

Canonical == INSTANCE CanonicalRows WITH
    Keys <- Channels \X Days,
    Rows <- SoundEvidence,
    rows <- [k \in Channels \X Days |-> EvidenceOf(k[1], k[2])]

\* The evidence of a channel's day appears whole, once, sound, and never changes:
\* no second worker, retry, restart or later pass touches it.
EvidenceIsCanonical == Canonical!Spec
=============================================================================
