--------------------------- MODULE ChannelHealth ---------------------------
(***************************************************************************)
(* The life of the channel rows and of the worker's health check:          *)
(*   - the API creates and archives channels and queues health checks      *)
(*     (apps/api/src/channels/channels.service.ts);                        *)
(*   - the health scheduler walks the enabled channels, probes each one    *)
(*     and writes its row (apps/worker/src/jobs/channel-health.*.ts);      *)
(*   - the stats job writes the same row from its own loop                 *)
(*     (channel-stats.job.ts, under ChannelDataScheduler's lock).          *)
(*                                                                         *)
(* What is hard: a pass works from the rows listEnabled returned when it   *)
(* began, awaits three probes, and writes the row back without reading it  *)
(* again; setInterval starts a new pass whether or not the last one ended. *)
(*                                                                         *)
(* One action is one await-to-await stretch of the code; a transaction is  *)
(* Serializable, hence one step.                                           *)
(***************************************************************************)
EXTENDS HealthSignals

CONSTANTS
    ChannelCount,    \* channels are numbered in (createdAt, id) order
    Passes,          \* the passes of the health scheduler that may overlap
    Answers,         \* the probe answers explored, a subset of Signals
    Uploads,         \* the last-upload instants the stats provider may report
    WindowSize,      \* the 100 of HealthCircuitWindow.record
    MaxTime,         \* bound on the clock
    MaxQueued,       \* bound on the checks of one channel queued at once
    MaxRestarts      \* bound on worker restarts

Channels == 1..ChannelCount

\* The ids of the queued runs of a channel, in the order the database sorts them.
\* An id is drawn at random: it says nothing of when the run was queued, and one
\* that was freed may stand for a later run.
RunIds == 1..MaxQueued

ASSUME ChannelHealthAssumption ==
    /\ ChannelCount \in Nat
    /\ Answers \subseteq Signals
    /\ Uploads \subseteq Int \cup {NULL}
    /\ WindowSize \in Nat \ {0}
    /\ MaxTime \in Nat
    /\ MaxQueued \in Nat
    /\ MaxRestarts \in Nat

VARIABLES
    now,            \* the clock
    row,            \* row[c]: the channels table
    queued,         \* queued[c]: ids of the QUEUED sync runs of type CHANNEL_HEALTH
    healthChecks,   \* healthChecks[c]: what c's rows of channel_health_checks add up to
    pass,           \* pass[p]: the local state of one runOnce of the scheduler
    window,         \* HealthCircuitWindow.recentSignals, as failure flags
    stats,          \* the local state of the stats loop
    restarts,       \* worker restarts so far
    strongSinceAlive \* history: strong signals of c since it was last seen, up to 2

table == <<row, queued, healthChecks, strongSinceAlive>>
vars == <<now, row, queued, healthChecks, pass, window, stats, restarts, strongSinceAlive>>

Times == 0..MaxTime
MaybeTime == Times \cup {NULL}

\* ChannelHealthState: the part of a row the health job carries.
HealthState ==
    [availability : Availabilities, activity : Activities, failures : 0..FailureCap,
     firstUnavailableAt : MaybeTime, lastSeenAliveAt : MaybeTime]

\* A row: absent until created, enabled, and archived for good.
Row ==
    [lifecycle : {"absent", "enabled", "archived"},
     health : HealthState,
     lastHealthCheckAt : MaybeTime,
     lastUploadAt : Uploads \cup {NULL},
     lastChannelScanAt : MaybeTime]

\* The append-only table of checks of one channel, reduced to what the
\* properties tell apart: when failing checks were made, the last of them with
\* a strong signal, whether one had two, and the newest verdict.
\* A failing check is one with no positive signal, made outside an incident.
HealthChecks ==
    [failing : SUBSET Times, lastStrong : MaybeTime,
     independent : BOOLEAN, newestAt : MaybeTime, newest : Availabilities]

NoHealthChecks ==
    [failing |-> {}, lastStrong |-> NULL, independent |-> FALSE,
     newestAt |-> NULL, newest |-> "ACTIVE"]

\* Channel defaults of prisma/schema.prisma.
NewRow ==
    [lifecycle |-> "absent",
     health |-> [availability |-> "ACTIVE", activity |-> "UNKNOWN", failures |-> 0,
                 firstUnavailableAt |-> NULL, lastSeenAliveAt |-> NULL],
     lastHealthCheckAt |-> NULL,
     lastUploadAt |-> NULL,
     lastChannelScanAt |-> NULL]

\* A signal record that stands for no answer yet.
NoAnswer == [publicPage |-> "TIMEOUT", ytdlp |-> "TIMEOUT", rss |-> "TIMEOUT"]

IdlePass ==
    [phase |-> "idle", listed |-> [c \in Channels |-> NULL], chan |-> NULL,
     at |-> NULL, sig |-> NoAnswer, incident |-> FALSE]

IdleStats == [phase |-> "idle", todo |-> {}, chan |-> NULL, at |-> NULL]

\* ChannelRepository.listEnabled.
Enabled == {c \in Channels : row[c].lifecycle = "enabled"}

CircuitOpen == EvaluateHealthCircuit(window)

Init ==
    /\ now = 0
    /\ row = [c \in Channels |-> NewRow]
    /\ queued = [c \in Channels |-> {}]
    /\ healthChecks = [c \in Channels |-> NoHealthChecks]
    /\ pass = [p \in Passes |-> IdlePass]
    /\ window = <<>>
    /\ stats = IdleStats
    /\ restarts = 0
    /\ strongSinceAlive = [c \in Channels |-> 0]

Tick ==
    /\ now < MaxTime
    /\ now' = now + 1
    /\ UNCHANGED <<table, pass, window, stats, restarts>>

----------------------------------------------------------------------------
\* The API.

\* create: the unique YouTube id refuses a channel that has a row, archived or not.
CreateChannel(c) ==
    /\ row[c].lifecycle = "absent"
    /\ \A d \in Channels : d < c => row[d].lifecycle # "absent"
    /\ row' = [row EXCEPT ![c].lifecycle = "enabled"]
    /\ UNCHANGED <<now, queued, healthChecks, pass, window, stats, restarts, strongSinceAlive>>

\* archive: archivedAt, isEnabled and availabilityStatus in one update.
ArchiveChannel(c) ==
    /\ row[c].lifecycle # "absent"
    /\ row' = [row EXCEPT ![c].lifecycle = "archived",
                          ![c].health.availability = "ARCHIVED"]
    /\ UNCHANGED <<now, queued, healthChecks, pass, window, stats, restarts, strongSinceAlive>>

\* requestHealthCheck: only a missing row is refused; the new run may sort before
\* or after those that wait.
RequestHealthCheck(c) ==
    /\ row[c].lifecycle # "absent"
    /\ \E r \in RunIds \ queued[c] : queued' = [queued EXCEPT ![c] = @ \cup {r}]
    /\ UNCHANGED <<now, row, healthChecks, pass, window, stats, restarts, strongSinceAlive>>

----------------------------------------------------------------------------
\* The health scheduler.

\* The timer fires and listEnabled answers.  A failed list ends the pass with
\* no effect, which is a stutter.
StartPass(p) ==
    /\ pass[p].phase = "idle"
    /\ pass' = [pass EXCEPT ![p] =
                  [IdlePass EXCEPT
                     !.phase = "next",
                     !.listed = [c \in Channels |->
                                   IF c \in Enabled THEN row[c].health ELSE NULL]]]
    /\ UNCHANGED <<now, table, window, stats, restarts>>

Todo(p) == {c \in Channels : pass[p].listed[c] # NULL}

\* Slip: only failures are recorded.
RecordFailures(w, failure) ==
    IF ~failure THEN w
    ELSE IF Len(w) = WindowSize THEN Append(Tail(w), failure) ELSE Append(w, failure)

\* HealthCircuitWindow.record.
Record(w, failure) ==
    LET longer == Append(w, failure)
    IN  IF Len(longer) > WindowSize THEN Tail(longer) ELSE longer

\* The loop head: a check that committed is recorded in the window, then the
\* next listed channel is probed from now on, or the pass ends.
Advance(p) ==
    /\ pass[p].phase \in {"next", "committed"}
    /\ window' = IF pass[p].phase = "committed"
                 THEN Record(window, IsProviderFailure(pass[p].sig))
                 ELSE window
    /\ \/ /\ Todo(p) = {}
          /\ pass' = [pass EXCEPT ![p] = IdlePass]
       \/ \E c \in Todo(p) :
            /\ \A d \in Todo(p) : c <= d
            /\ pass' = [pass EXCEPT ![p] = [IdlePass EXCEPT
                                              !.phase = "probing", !.chan = c, !.at = now,
                                              !.listed = pass[p].listed]]
    /\ UNCHANGED <<now, table, stats, restarts>>

\* The three probes have all answered; the circuit is read at this moment.
ProbesAnswer(p) ==
    /\ pass[p].phase = "probing"
    /\ \E s \in Answers :
         pass' = [pass EXCEPT ![p].phase = "answered", ![p].sig = s,
                              ![p].incident = CircuitOpen]
    /\ UNCHANGED <<now, table, window, stats, restarts>>

\* Slip: the circuit is not consulted.
TransitionUnguarded(q) == TransitionChannelHealth(q.listed[q.chan], q.sig, q.at)

\* The state the job writes: from the row as it was listed.
Transition(q) ==
    IF q.incident THEN q.listed[q.chan]
    ELSE TransitionChannelHealth(q.listed[q.chan], q.sig, q.at)

\* Slip: the check on record ignores the incident the row is spared.
VerdictOfProbes(q) == TransitionUnguarded(q).availability

Verdict(q) == Transition(q).availability

IsFailing(q) == ~q.incident /\ ~HasPositive(q.sig)

IsStrong(q) == IsFailing(q) /\ StrongFailureCount(q.sig) >= 1

Latest(t, u) == IF t = NULL \/ t < u THEN u ELSE t

\* ChannelHealthRepository.create, with the verdict of the transition.
AppendCheck(h, q) ==
    [failing |-> IF IsFailing(q) THEN h.failing \cup {q.at} ELSE h.failing,
     lastStrong |-> IF IsStrong(q) THEN Latest(h.lastStrong, q.at) ELSE h.lastStrong,
     independent |-> h.independent \/ (IsFailing(q) /\ StrongFailureCount(q.sig) >= 2),
     newestAt |-> Latest(h.newestAt, q.at),
     newest |-> IF Latest(h.newestAt, q.at) = q.at THEN Verdict(q) ELSE h.newest]

\* History of the deletion evidence: strong signals since a positive check.
CountStrong(n, q) ==
    IF q.incident THEN n
    ELSE IF HasPositive(q.sig) THEN 0
    ELSE LET m == n + StrongFailureCount(q.sig) IN IF m > 2 THEN 2 ELSE m

\* Slip: the run that sorts last is taken.
TakeLast(runs) == {r \in runs : \E i \in runs : r < i}

\* findQueuedHealth, markRunning and complete: startedAt is NULL for every queued
\* run, so that the id alone orders them; the first leaves the queue, if any.
TakeQueued(runs) == {r \in runs : \E i \in runs : i < r}

\* The job's transaction: the first queued run, if any, is found, taken over and
\* completed; the check is appended; the row is overwritten.
Commit(p) ==
    LET q == pass[p]
        c == q.chan
    IN  /\ q.phase = "answered"
        /\ queued' = [queued EXCEPT ![c] = TakeQueued(@)]
        /\ healthChecks' = [healthChecks EXCEPT ![c] = AppendCheck(@, q)]
        /\ row' = [row EXCEPT ![c].health = Transition(q),
                              ![c].lastHealthCheckAt = q.at]
        /\ strongSinceAlive' = [strongSinceAlive EXCEPT ![c] = CountStrong(@, q)]
        /\ pass' = [pass EXCEPT ![p] = [IdlePass EXCEPT
                                          !.phase = "committed", !.sig = q.sig,
                                          !.listed = [q.listed EXCEPT ![c] = NULL]]]
        /\ UNCHANGED <<now, window, stats, restarts>>

\* The transaction fails (a second P2034, or the database is away): the
\* scheduler logs it and goes on with the next channel.
CommitFails(p) ==
    /\ pass[p].phase = "answered"
    /\ pass' = [pass EXCEPT ![p] = [IdlePass EXCEPT
                                      !.phase = "next",
                                      !.listed = [pass[p].listed EXCEPT ![pass[p].chan] = NULL]]]
    /\ UNCHANGED <<now, table, window, stats, restarts>>

----------------------------------------------------------------------------
\* The stats loop: one pass at a time, under ChannelDataScheduler.running.

\* listEnabled: a scheduled pass keeps every channel, an initial pass those
\* with no scan yet, a daily pass those with no row for the day.
StatsList ==
    /\ stats.phase = "idle"
    /\ \E todo \in SUBSET Enabled :
         stats' = [IdleStats EXCEPT !.phase = "next", !.todo = todo]
    /\ UNCHANGED <<now, table, pass, window, restarts>>

StatsNext ==
    /\ stats.phase = "next"
    /\ \/ /\ stats.todo = {}
          /\ stats' = IdleStats
       \/ \E c \in stats.todo :
            /\ \A d \in stats.todo : c <= d
            /\ stats' = [phase |-> "collecting", todo |-> stats.todo \ {c},
                         chan |-> c, at |-> now]
    /\ UNCHANGED <<now, table, pass, window, restarts>>

\* Slip: figures that were collected make the channel ACTIVE again.
CurrentStatsRevive(r, upload, at) ==
    [r EXCEPT !.lastUploadAt = upload, !.lastChannelScanAt = at,
              !.health = [@ EXCEPT !.activity = DeriveActivityStatus(upload, at),
                                   !.lastSeenAliveAt = at,
                                   !.availability = "ACTIVE"]]

\* ChannelRepository.updateCurrentStats.
CurrentStats(r, upload, at) ==
    [r EXCEPT !.lastUploadAt = upload, !.lastChannelScanAt = at,
              !.health = [@ EXCEPT !.activity = DeriveActivityStatus(upload, at),
                                   !.lastSeenAliveAt = at]]

\* The provider answered and the snapshot and the row are written.
StatsCommit ==
    /\ stats.phase = "collecting"
    /\ \E upload \in Uploads :
         row' = [row EXCEPT ![stats.chan] = CurrentStats(@, upload, stats.at)]
    /\ stats' = [IdleStats EXCEPT !.phase = "next", !.todo = stats.todo]
    /\ UNCHANGED <<now, queued, healthChecks, pass, window, restarts, strongSinceAlive>>

\* No provider had figures, or collecting or writing them failed.
StatsPartial ==
    /\ stats.phase = "collecting"
    /\ stats' = [IdleStats EXCEPT !.phase = "next", !.todo = stats.todo]
    /\ UNCHANGED <<now, table, pass, window, restarts>>

----------------------------------------------------------------------------
\* The worker stops and starts: its memory is lost, the tables stay.
WorkerRestart ==
    /\ restarts < MaxRestarts
    /\ restarts' = restarts + 1
    /\ pass' = [p \in Passes |-> IdlePass]
    /\ window' = <<>>
    /\ stats' = IdleStats
    /\ UNCHANGED <<now, table>>

ApiStep ==
    \E c \in Channels : CreateChannel(c) \/ ArchiveChannel(c) \/ RequestHealthCheck(c)

HealthStep ==
    \E p \in Passes :
        StartPass(p) \/ Advance(p) \/ ProbesAnswer(p) \/ Commit(p) \/ CommitFails(p)

StatsStep == StatsList \/ StatsNext \/ StatsCommit \/ StatsPartial

Next == Tick \/ ApiStep \/ HealthStep \/ StatsStep \/ WorkerRestart

Spec == Init /\ [][Next]_vars

(***************************************************************************)
(* Fairness: the timer keeps firing, every probe has a timeout of its own, *)
(* so a pass under way goes on; and the transaction of a channel that is   *)
(* tried pass after pass does not fail for ever.                           *)
(***************************************************************************)
Fairness ==
    \A p \in Passes :
        /\ WF_vars(StartPass(p))
        /\ WF_vars(Advance(p))
        /\ WF_vars(ProbesAnswer(p))
        /\ WF_vars(Commit(p) \/ CommitFails(p))
        /\ \A c \in Channels : SF_vars(pass[p].chan = c /\ Commit(p))

FairSpec == Spec /\ Fairness

----------------------------------------------------------------------------
\* Type correctness: every part of the state stays in its domain; in
\* particular no check is ever carried without the row it was listed with.
PassState ==
    [phase : {"idle", "next", "probing", "answered", "committed"},
     listed : [Channels -> HealthState \cup {NULL}],
     chan : Channels \cup {NULL},
     at : MaybeTime,
     sig : Signals,
     incident : BOOLEAN]

StatsState ==
    [phase : {"idle", "next", "collecting"}, todo : SUBSET Channels,
     chan : Channels \cup {NULL}, at : MaybeTime]

CheckUnderWay(q) ==
    q.phase \in {"probing", "answered"} =>
        /\ q.chan \in Channels
        /\ q.at \in Times
        /\ q.listed[q.chan] # NULL

TypeOK ==
    /\ now \in Times
    /\ row \in [Channels -> Row]
    /\ queued \in [Channels -> SUBSET RunIds]
    /\ healthChecks \in [Channels -> HealthChecks]
    /\ pass \in [Passes -> PassState]
    /\ \A p \in Passes : CheckUnderWay(pass[p])
    /\ window \in Seq(BOOLEAN) /\ Len(window) <= WindowSize
    /\ stats \in StatsState
    /\ stats.phase = "collecting" => stats.chan \in Channels /\ stats.at \in Times
    /\ restarts \in 0..MaxRestarts
    /\ strongSinceAlive \in [Channels -> 0..2]

\* No false delete: a channel is shown deleted only on recorded evidence, one
\* check with two strong signals, or a strong check at least RetryDelay after
\* an earlier failing one.  A provider incident is never evidence.
DeletionEvidence(h) ==
    \/ h.independent
    \/ h.lastStrong # NULL /\ \E t \in h.failing : h.lastStrong - t >= RetryDelay

DeletionConfirmed ==
    \A c \in Channels :
        row[c].health.availability = "DELETED_OR_TERMINATED" 
            => DeletionEvidence(healthChecks[c])

\* The availability shown, the failure counter and the start of the outage
\* never disagree, whatever passes and stats writes interleave on the row.
Coherent(h) ==
    /\ h.availability = "ACTIVE" => h.failures = 0 /\ h.firstUnavailableAt = NULL
    /\ h.availability \in {"NOT_FOUND", "DELETED_OR_TERMINATED"} => h.failures >= 1
    /\ h.availability = "UNKNOWN" => h.firstUnavailableAt # NULL
    /\ h.failures >= 1 => h.firstUnavailableAt # NULL

RowCoherent == \A c \in Channels : Coherent(row[c].health)

\* The outage a row reports began with a failing check that is on record: the
\* retry delay is never measured from an instant nobody checked.
FirstUnavailableRecorded ==
    \A c \in Channels :
        row[c].health.firstUnavailableAt \in healthChecks[c].failing \cup {NULL}

\* The strengthening the proofs use: what holds of a row's health holds of every
\* row a pass has listed, which may be written back at any later time.
Sound(h, checks) ==
    /\ Coherent(h)
    /\ h.firstUnavailableAt \in checks.failing \cup {NULL}
    /\ h.availability = "DELETED_OR_TERMINATED" => DeletionEvidence(checks)

SoundRows ==
    \A c \in Channels :
        /\ Sound(row[c].health, healthChecks[c])
        /\ \A p \in Passes :
             pass[p].listed[c] # NULL => Sound(pass[p].listed[c], healthChecks[c])

\* Passes that do not overlap: a recovery resets the evidence, so a deletion
\* needs two strong signals since the channel was last seen.
RecoveryResets ==
    \A c \in Channels :
        row[c].health.availability = "DELETED_OR_TERMINATED" => strongSinceAlive[c] = 2

\* Passes that do not overlap: the availability of an enabled channel is the
\* one its newest recorded check concluded.
NewestCheckShown ==
    \A c \in Enabled : row[c].health.availability = healthChecks[c].newest

\* Passes that do not overlap: no enabled channel becomes deleted in a step
\* taken while the circuit is open.
Deleted(c) == row[c].health.availability = "DELETED_OR_TERMINATED"

CircuitBlocksDeletion ==
    [][\A c \in Enabled : ~Deleted(c) /\ Deleted(c)' => ~CircuitOpen]_vars

\* A run queued for a channel is taken over by a check, or the channel is archived,
\* once no run that sorts before it is queued any more: passes that fail, restarts
\* and the runs already ahead of it do not keep it waiting for ever.  (Requests that
\* keep drawing smaller ids do: nothing in the code orders runs by age.)
NoneQueuedBefore(c, r) == \A i \in queued[c]' \ queued[c] : i > r

QueuedServed ==
    \A c \in Channels : \A r \in RunIds :
        <>[][NoneQueuedBefore(c, r)]_vars
            => (r \in queued[c] ~> (r \notin queued[c] \/ row[c].lifecycle = "archived"))

\* Once probes stop failing for the providers' own reasons, and while there is
\* a channel to probe, the circuit closes for good.
ProvidersAnswer == \A p \in Passes : pass[p].phase \in {"answered", "committed"}
                                        => ~IsProviderFailure(pass[p].sig)

CircuitRecovers ==
    <>[](ProvidersAnswer /\ Enabled # {}) => <>[]~CircuitOpen
=============================================================================
