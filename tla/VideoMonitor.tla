---------------------------- MODULE VideoMonitor ----------------------------
(***************************************************************************)
(* The video monitor (apps/worker/src/video-monitor): three loops of one    *)
(* worker. Discovery reads a channel's RSS feed, reconciliation its latest  *)
(* videos by yt-dlp, and both upsert what they list; the snapshot pass      *)
(* tiers the listed candidates by age and captures the views of those whose *)
(* tier is due, an hour bucket a row. The daily catalogue writes snapshots  *)
(* of its own beside them.                                                  *)
(*                                                                         *)
(* What is hard: a pass works on the rows it listed and on the instant it   *)
(* began, while the other loops rewrite dates; a capture awaits yt-dlp for  *)
(* half a minute; any await may fail, and a failure of one of them ends the *)
(* process.                                                                *)
(*                                                                         *)
(* One action is one await-to-await stretch.                                *)
(***************************************************************************)
EXTENDS Basics, Integers, FiniteSets

CONSTANTS
    VideoIds,
    Pinned,         \* videos pinned by hand: no code writes isPinned
    Dates,          \* instants videos may be published at
    Counts,         \* view counts yt-dlp may report
    Hour,           \* instants in an hour
    WarmInterval,   \* 3 hours
    OldInterval,    \* 6 hours
    HotAge,         \* 7 days
    WarmAge,        \* 30 days
    Limit,          \* listCandidates' limit, 500
    MaxClock,       \* bound on the clock
    MaxCrashes      \* bound on the restarts of the worker

Instants == 0..MaxClock
Tiers == {"HOT", "WARM", "OLD_HOT", "PINNED", "ARCHIVED"}

ASSUME MonitorAssumption ==
    /\ Pinned \subseteq VideoIds
    /\ Dates \subseteq Int
    /\ NULL \notin Dates \cup Counts \cup VideoIds
    /\ Hour \in Nat \ {0}
    /\ WarmInterval \in Nat /\ OldInterval \in Nat
    /\ Hour <= WarmInterval /\ Hour <= OldInterval
    /\ HotAge \in Nat /\ WarmAge \in Nat /\ HotAge <= WarmAge
    /\ Limit \in Nat /\ MaxClock \in Nat /\ MaxCrashes \in Nat

\* A row of videos, and one of video_snapshots.
VideoRows == [published : Dates \cup {NULL}, tier : Tiers, views : Counts \cup {NULL}]
SnapshotRows == [at : Nat, views : Counts \cup {NULL}]

ASSUME NullIsNoRow == NULL \notin Nat \cup VideoRows \cup SnapshotRows

VARIABLES
    clock,
    row,            \* row[v]: the videos table
    snaps,          \* snaps[v][b]: the monitor's video_snapshots, by hour bucket
    cataloged,      \* cataloged[v]: instant of the daily catalogue's last snapshot
    discovering,    \* the discovery of a channel under way
    reconciling,    \* the reconciliation of a channel under way
    capturing,      \* the snapshot pass under way
    crashes

tables == <<row, snaps, cataloged>>
monitorVars == <<clock, tables, discovering, reconciling, capturing, crashes>>

Bucket(t) == t \div Hour

Idle == [phase |-> "idle"]

MonitorInit ==
    /\ clock = 0
    /\ row = [v \in VideoIds |-> NULL]
    /\ snaps = [v \in VideoIds |-> [b \in 0..Bucket(MaxClock) |-> NULL]]
    /\ cataloged = [v \in VideoIds |-> NULL]
    /\ discovering = Idle /\ reconciling = Idle /\ capturing = Idle
    /\ crashes = 0

----------------------------------------------------------------------------
\* VideoRepository.upsertDiscovered: a new video begins WARM; a known one takes the
\* listing's date, and loses its own when the listing has none.
Upserted(v, date) ==
    [row EXCEPT ![v] = IF @ = NULL THEN [published |-> date, tier |-> "WARM", views |-> NULL]
                       ELSE [@ EXCEPT !.published = date]]

\* What a listing may hold: some videos, each with a date.
Listings(dates) == UNION {[S -> dates] : S \in SUBSET VideoIds}

Without(f, v) == [u \in DOMAIN f \ {v} |-> f[u]]

\* One item of a listing is written; the order is the listing's, so any.
Left(loop, v) ==
    IF DOMAIN loop.items = {v} THEN Idle ELSE [loop EXCEPT !.items = Without(@, v)]

\* VideoDiscoveryJob.run: a feed that fails counts as an empty one.
FeedListed ==
    /\ discovering = Idle
    /\ \E items \in Listings(Dates) :
         /\ DOMAIN items # {}
         /\ discovering' = [phase |-> "writing", try |-> 1, items |-> items]
    /\ UNCHANGED <<clock, tables, reconciling, capturing, crashes>>

DiscoveryWrites ==
    /\ discovering.phase = "writing"
    /\ \E v \in DOMAIN discovering.items :
         /\ row' = Upserted(v, discovering.items[v])
         /\ discovering' = Left(discovering, v)
    /\ UNCHANGED <<clock, snaps, cataloged, reconciling, capturing, crashes>>

\* A write that fails has the whole run, feed included, repeated once.
DiscoveryWriteFails ==
    /\ discovering.phase = "writing"
    /\ discovering' \in {Idle} \cup
         {[phase |-> "writing", try |-> 2, items |-> items] :
             items \in {f \in Listings(Dates) : discovering.try = 1 /\ DOMAIN f # {}}}
    /\ UNCHANGED <<clock, tables, reconciling, capturing, crashes>>

\* VideoReconcileJob.run: yt-dlp's flat listing often has no date.
ReconcileLists ==
    /\ reconciling = Idle
    /\ \E items \in Listings(Dates \cup {NULL}) :
         /\ DOMAIN items # {}
         /\ reconciling' = [phase |-> "writing", items |-> items]
    /\ UNCHANGED <<clock, tables, discovering, capturing, crashes>>

ReconcileWrites ==
    /\ reconciling.phase = "writing"
    /\ \E v \in DOMAIN reconciling.items :
         /\ row' = Upserted(v, reconciling.items[v])
         /\ reconciling' = Left(reconciling, v)
    /\ UNCHANGED <<clock, snaps, cataloged, discovering, capturing, crashes>>

\* A failure keeps what was written and is not repeated: run answers it.
ReconcileFails ==
    /\ reconciling.phase = "writing"
    /\ reconciling' = Idle
    /\ UNCHANGED <<clock, tables, discovering, capturing, crashes>>

----------------------------------------------------------------------------
\* tierVideo: vph1h is never written and recentlyReactivated never passed, so
\* neither branch on them is ever taken.
Tier(v, listed, at) ==
    IF v \in Pinned THEN "PINNED"
    ELSE IF listed.published = NULL \/ at - listed.published <= HotAge THEN "HOT"
    ELSE IF at - listed.published <= WarmAge THEN "WARM"
    ELSE IF listed.tier \in {"HOT", "OLD_HOT"} THEN "OLD_HOT"
    ELSE "ARCHIVED"

\* snapshotIntervalMs.
Interval ==
    [HOT |-> Hour, WARM |-> WarmInterval, OLD_HOT |-> OldInterval, PINNED |-> OldInterval]

\* Slip: the rows of the bucket before are not looked at.
CapturesAnyway(tier, at, latest) == tier # "ARCHIVED"

\* shouldCaptureSnapshot.
ShouldCapture(tier, at, latest) ==
    /\ tier # "ARCHIVED"
    /\ latest = NULL \/ at - latest >= Interval[tier]

\* VideoSnapshotRepository.latest: of any source.
CapturedAt(v) ==
    {snaps[v][b].at : b \in {b \in DOMAIN snaps[v] : snaps[v][b] # NULL}}
        \cup ({cataloged[v]} \ {NULL})

Latest(v) ==
    IF CapturedAt(v) = {} THEN NULL
    ELSE CHOOSE t \in CapturedAt(v) : \A s \in CapturedAt(v) : s <= t

\* Undated rows come first, then the newest, at most Limit of them.
NewerFirst(u, v) ==
    \/ row[u].published = NULL
    \/ row[v].published # NULL /\ row[u].published >= row[v].published

Candidates ==
    {S \in SUBSET {v \in VideoIds : row[v] # NULL} :
        LET all == {v \in VideoIds : row[v] # NULL}
        IN  /\ Cardinality(S) = IF Cardinality(all) < Limit THEN Cardinality(all) ELSE Limit
            /\ \A u \in S, v \in all \ S : NewerFirst(u, v)}

\* The pass goes on to the next video it listed.
NextVideo(p) ==
    IF DOMAIN p.todo = {} THEN Idle ELSE [phase |-> "next", at |-> p.at, todo |-> p.todo]

\* runSnapshots: the rows and the instant the whole pass goes by.
SnapshotsStart ==
    /\ capturing = Idle
    /\ \E S \in Candidates :
         capturing' = NextVideo([at |-> clock,
             todo |-> [v \in S |-> [published |-> row[v].published, tier |-> row[v].tier]]])
    /\ UNCHANGED <<clock, tables, discovering, reconciling, crashes>>

\* A listed video is tiered, its new tier stored and its latest snapshot read.
TierUpdates ==
    /\ capturing.phase = "next"
    /\ \E v \in DOMAIN capturing.todo :
         LET tier == Tier(v, capturing.todo[v], capturing.at)
         IN  /\ row' = IF tier = capturing.todo[v].tier THEN row ELSE [row EXCEPT ![v].tier = tier]
             /\ capturing' = [phase |-> "checking", at |-> capturing.at, video |-> v,
                              tier |-> tier, todo |-> Without(capturing.todo, v)]
    /\ UNCHANGED <<clock, snaps, cataloged, discovering, reconciling, crashes>>

\* updateTier fails: on to the next video.
TierUpdateFails ==
    /\ capturing.phase = "next"
    /\ \E v \in DOMAIN capturing.todo :
         /\ Tier(v, capturing.todo[v], capturing.at) # capturing.todo[v].tier
         /\ capturing' = NextVideo([capturing EXCEPT !.todo = Without(@, v)])
    /\ UNCHANGED <<clock, tables, discovering, reconciling, crashes>>

\* The latest snapshot decides; VideoSnapshotJob.run takes its own instant.
LatestAnswers ==
    /\ capturing.phase = "checking"
    /\ capturing' =
         IF ShouldCapture(capturing.tier, capturing.at, Latest(capturing.video))
         THEN [phase |-> "viewing", at |-> capturing.at, video |-> capturing.video,
               todo |-> capturing.todo, try |-> 1, captured |-> clock]
         ELSE NextVideo(capturing)
    /\ UNCHANGED <<clock, tables, discovering, reconciling, crashes>>

\* Slip: figures that are not there leave the current ones.
KeepsFigures(v, n) == IF n = NULL THEN row ELSE [row EXCEPT ![v].views = n]

\* updateCurrentStats: figures that are not there are forgotten.
UpdatesFigures(v, n) == [row EXCEPT ![v].views = n]

\* The bucket's row and the current figures, in one transaction; an answer that is
\* not an object has no figures.
SnapshotSucceeds ==
    LET v == capturing.video
        t == capturing.captured
    IN  /\ capturing.phase = "viewing"
        /\ \E n \in Counts \cup {NULL} :
             /\ snaps' = [snaps EXCEPT ![v][Bucket(t)] = [at |-> t, views |-> n]]
             /\ row' = UpdatesFigures(v, n)
        /\ capturing' = NextVideo(capturing)
        /\ UNCHANGED <<clock, cataloged, discovering, reconciling, crashes>>

\* yt-dlp or the transaction fails: the run is repeated once, at a later instant.
SnapshotFails ==
    /\ capturing.phase = "viewing"
    /\ capturing' = IF capturing.try = 1
                    THEN [capturing EXCEPT !.try = 2, !.captured = clock]
                    ELSE NextVideo(capturing)
    /\ UNCHANGED <<clock, tables, discovering, reconciling, crashes>>

----------------------------------------------------------------------------
\* DailyVideoCatalogJob writes a snapshot of its own, in a bucket no hour has, once a
\* day: the clock covers less than one.
CatalogSnapshot ==
    /\ \E v \in {v \in VideoIds : row[v] # NULL /\ cataloged[v] = NULL} :
         cataloged' = [cataloged EXCEPT ![v] = clock]
    /\ UNCHANGED <<clock, row, snaps, discovering, reconciling, capturing, crashes>>

\* The process stops, or ends by the rejection nobody catches when the query of the
\* latest snapshot fails, and is started again: its loops begin anew.
MonitorCrash ==
    /\ crashes < MaxCrashes
    /\ crashes' = crashes + 1
    /\ discovering' = Idle /\ reconciling' = Idle /\ capturing' = Idle
    /\ UNCHANGED <<clock, tables>>

ClockTicks ==
    /\ clock < MaxClock
    /\ clock' = clock + 1
    /\ UNCHANGED <<tables, discovering, reconciling, capturing, crashes>>

MonitorNext ==
    \/ FeedListed \/ DiscoveryWrites \/ DiscoveryWriteFails
    \/ ReconcileLists \/ ReconcileWrites \/ ReconcileFails
    \/ SnapshotsStart \/ TierUpdates \/ TierUpdateFails \/ LatestAnswers
    \/ SnapshotSucceeds \/ SnapshotFails
    \/ CatalogSnapshot \/ MonitorCrash \/ ClockTicks

MonitorSpec == MonitorInit /\ [][MonitorNext]_monitorVars
----------------------------------------------------------------------------
\* A snapshot of the monitor is taken of a video whose stored tier is due: not of an
\* archived one, and a whole interval of that tier after each one before it, so that
\* no bucket's row is ever written twice, whatever fails, is retried or restarts.
SnapshotsSpaced ==
    [][\A v \in VideoIds : snaps'[v] # snaps[v] =>
         /\ row[v].tier # "ARCHIVED"
         /\ \A b \in DOMAIN snaps[v] : snaps[v][b] # NULL =>
              /\ snaps'[v][b] = snaps[v][b]
              /\ clock - snaps[v][b].at >= Interval[row[v].tier]]_monitorVars

\* The buckets a video has a snapshot of the monitor in, and the views of the newest.
Taken(v) == {b \in DOMAIN snaps[v] : snaps[v][b] # NULL}

ShownFigures(v) ==
    IF Taken(v) = {} THEN NULL
    ELSE snaps[v][CHOOSE b \in Taken(v) : \A c \in Taken(v) : c <= b].views

\* The current figures of a video are those of its newest snapshot: the listings
\* that rewrite its row while it is viewed do not disturb them.
CurrentFigures ==
    \A v \in VideoIds : row[v] # NULL => row[v].views = ShownFigures(v)
=============================================================================
