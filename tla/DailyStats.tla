----------------------------- MODULE DailyStats -----------------------------
(***************************************************************************)
(* The daily figures of the channels: ChannelDataScheduler                 *)
(* (apps/worker/src/jobs/channel-data.scheduler.ts) collects the current   *)
(* figures of every channel in three kinds of pass (initial, scheduled,    *)
(* daily), and its daily pass, once a day past the boundary, freezes them   *)
(* into one row per channel and day (daily-finalize.job.ts).               *)
(*                                                                         *)
(* What is hard: the day is read from the clock again at every step of a   *)
(* pass that awaits the network for each channel; the rows a pass froze    *)
(* stay when it fails half-way, when the worker restarts, or when a second  *)
(* worker runs; and that a day is done is only known in memory.            *)
(*                                                                         *)
(* One action is one await-to-await stretch; a transaction is Serializable, *)
(* hence one step.  The three counters of a channel are one figure here.   *)
(***************************************************************************)
EXTENDS LocalDays

CONSTANTS
    Workers,
    ChannelCount,   \* channels are numbered in (createdAt, id) order
    Counts,         \* the figures a provider may report
    RetryTicks,     \* initialRetryMs
    MaxRestarts     \* bound on the restarts of one worker

Channels == 1..ChannelCount

ASSUME DailyStatsAssumption ==
    /\ ChannelCount \in Nat
    /\ Counts \subseteq Int
    /\ RetryTicks \in Nat
    /\ MaxRestarts \in Nat

VARIABLES
    now,       \* the clock
    channel,   \* channel[c]: the channels table
    daily,     \* daily[c][d]: the channel_daily_stats table
    pass,      \* pass[w]: the pass that holds worker w's lock
    memory,    \* memory[w]: the other fields of w's ChannelDataScheduler
    restarts   \* restarts[w]: restarts of w so far

tables == <<channel, daily>>
vars == <<now, channel, daily, pass, memory, restarts>>

MaybeTime == Times \cup {NULL}
Figure == Counts \cup {NULL}

\* The current figures of a channel, the instant their collection began, and
\* (history) the instant they were stored.
NoCurrent == [count |-> NULL, scannedAt |-> NULL, storedAt |-> NULL]

Current == {NoCurrent} \cup [count : Figure, scannedAt : Times, storedAt : Times]

Row == [enabled : BOOLEAN, createdAt : Times, current : Current]

DailyRow == [count : Figure, delta : Int \cup {NULL}, capturedAt : MaybeTime]

\* No record is mistaken for an absent one.
ASSUME DailyNullAssumption == NULL \notin Row \cup DailyRow \cup Current

Kinds == {"initial", "scheduled", "daily"}

\* A pass: the call it awaits, for which channel and since when, and what it
\* has still to do.  The day of a daily pass is that of since.
IdlePass ==
    [phase |-> "idle", kind |-> NULL, since |-> NULL, todo |-> {}, chan |-> NULL,
     at |-> NULL, pending |-> {}, succeeded |-> {},
     listed |-> [c \in Channels |-> NULL], failed |-> FALSE]

NewMemory == [lastDailyDate |-> NULL, attemptedAt |-> [c \in Channels |-> NULL]]

Exists(c) == channel[c] # NULL

\* ChannelRepository.listEnabled.
Enabled == {c \in Channels : Exists(c) /\ channel[c].enabled}

Init ==
    /\ now = StartTime
    /\ channel = [c \in Channels |-> NULL]
    /\ daily = [c \in Channels |-> [d \in Days |-> NULL]]
    /\ pass = [w \in Workers |-> IdlePass]
    /\ memory = [w \in Workers |-> NewMemory]
    /\ restarts = [w \in Workers |-> 0]

Tick ==
    /\ now < MaxTime
    /\ now' = now + 1
    /\ UNCHANGED <<tables, pass, memory, restarts>>

----------------------------------------------------------------------------
\* The API.

CreateChannel(c) ==
    /\ ~Exists(c)
    /\ \A b \in Channels : b < c => Exists(b)
    /\ channel' = [channel EXCEPT ![c] =
                     [enabled |-> TRUE, createdAt |-> now, current |-> NoCurrent]]
    /\ UNCHANGED <<now, daily, pass, memory, restarts>>

ArchiveChannel(c) ==
    /\ Exists(c)
    /\ channel' = [channel EXCEPT ![c].enabled = FALSE]
    /\ UNCHANGED <<now, daily, pass, memory, restarts>>

----------------------------------------------------------------------------
\* The timers: a pass starts when no other holds the worker's lock, and is
\* dropped otherwise.

StartPass(w, kind) ==
    /\ pass[w].phase = "idle"
    /\ pass' = [pass EXCEPT ![w] = [IdlePass EXCEPT !.phase = "listing", !.kind = kind,
                                                    !.since = now]]
    /\ UNCHANGED <<now, tables, memory, restarts>>

DailyIsDue(w) == IsPastBoundary(now) /\ memory[w].lastDailyDate # Day(now)

RunInitialStatsOnce(w) == StartPass(w, "initial")
RunScheduledStatsOnce(w) == StartPass(w, "scheduled")
RunDailyIfDue(w) == DailyIsDue(w) /\ StartPass(w, "daily")

\* A query of the pass itself throws: the lock is released.
PassFails(w) ==
    /\ pass[w].phase \in {"listing", "checking", "relisting"}
    /\ pass' = [pass EXCEPT ![w] = IdlePass]
    /\ UNCHANGED <<now, tables, memory, restarts>>

\* Channels never scanned whose last attempt is RetryTicks old.
Uninitialized(w) ==
    {c \in Enabled :
        /\ channel[c].current.scannedAt = NULL
        /\ \/ memory[w].attemptedAt[c] = NULL
           \/ pass[w].since - memory[w].attemptedAt[c] >= RetryTicks}

First(S) == CHOOSE c \in S : \A b \in S : c <= b

\* The loop of a pass goes on to its next channel.
Await(q, phase) ==
    [q EXCEPT !.phase = phase, !.chan = First(q.todo), !.todo = @ \ {First(q.todo)},
              !.at = now]

\* The loop that collects; a daily pass then lists the channels again.
CollectOn(q) ==
    IF q.todo # {} THEN Await(q, "collecting")
    ELSE IF q.kind = "daily" THEN [q EXCEPT !.phase = "relisting", !.chan = NULL, !.at = NULL]
    ELSE IdlePass

\* The loop that looks for channels without a row, collected afterwards.
CheckOn(q) ==
    IF q.todo # {} THEN Await(q, "checking")
    ELSE IF q.pending # {} THEN CollectOn([q EXCEPT !.todo = q.pending])
    ELSE IdlePass

\* The loop that writes the rows.
WriteOn(q) == IF q.todo # {} THEN Await(q, "writing") ELSE IdlePass

\* The day a pass began on is done when the pass ends with nothing missing.
DayDone(w, done) ==
    IF done THEN [memory EXCEPT ![w].lastDailyDate = Day(pass[w].since)] ELSE memory

\* listChannels answers an initial pass, which forgets the attempts of the
\* channels that have been scanned.
ListUninitialized(w) ==
    /\ pass[w].phase = "listing"
    /\ pass[w].kind = "initial"
    /\ pass' = [pass EXCEPT ![w] = CollectOn([@ EXCEPT !.todo = Uninitialized(w)])]
    /\ memory' = [memory EXCEPT ![w].attemptedAt =
                    [c \in Channels |->
                       IF c \in Enabled /\ channel[c].current.scannedAt # NULL
                       THEN NULL ELSE @[c]]]
    /\ UNCHANGED <<now, tables, restarts>>

ListScheduled(w) ==
    /\ pass[w].phase = "listing"
    /\ pass[w].kind = "scheduled"
    /\ pass' = [pass EXCEPT ![w] = CollectOn([@ EXCEPT !.todo = Enabled])]
    /\ UNCHANGED <<now, tables, memory, restarts>>

ListDaily(w) ==
    LET q == CheckOn([pass[w] EXCEPT !.todo = Enabled])
    IN  /\ pass[w].phase = "listing"
        /\ pass[w].kind = "daily"
        /\ pass' = [pass EXCEPT ![w] = q]
        /\ memory' = DayDone(w, q = IdlePass)
        /\ UNCHANGED <<now, tables, restarts>>

\* Slip: a channel with a row of any day needs none.
NeverFinalized(q) == \A d \in Days : daily[q.chan][d] = NULL

\* needsFinalization, for the day it was when asked.
NeedsFinalization(q) == daily[q.chan][Day(q.at)] = NULL

Check(w) ==
    LET q == pass[w]
        next == CheckOn([q EXCEPT !.pending = IF NeedsFinalization(q) THEN @ \cup {q.chan} ELSE @])
    IN  /\ q.phase = "checking"
        /\ pass' = [pass EXCEPT ![w] = next]
        /\ memory' = DayDone(w, next = IdlePass)
        /\ UNCHANGED <<now, tables, restarts>>

----------------------------------------------------------------------------
\* Collection: ChannelStatsJob.run.

\* The initial pass remembers when it tried a channel in vain.
Attempted(w, at) ==
    IF pass[w].kind = "initial"
    THEN [memory EXCEPT ![w].attemptedAt[pass[w].chan] = at] ELSE memory

\* The provider has figures, some of which may be missing: the current ones are
\* replaced, whatever instant theirs were captured at.
CollectSucceeds(w) ==
    LET q == pass[w]
    IN  /\ q.phase = "collecting"
        /\ \E v \in Figure :
             channel' = [channel EXCEPT ![q.chan].current =
                           [count |-> v, scannedAt |-> q.at, storedAt |-> now]]
        /\ pass' = [pass EXCEPT ![w] =
                      CollectOn([q EXCEPT !.succeeded =
                                   IF q.kind = "daily" THEN @ \cup {q.chan} ELSE @])]
        /\ memory' = Attempted(w, NULL)
        /\ UNCHANGED <<now, daily, restarts>>

\* No provider has figures, or collecting or storing them throws: PARTIAL.
CollectPartial(w) ==
    /\ pass[w].phase = "collecting"
    /\ pass' = [pass EXCEPT ![w] = CollectOn(@)]
    /\ memory' = Attempted(w, pass[w].since)
    /\ UNCHANGED <<now, tables, restarts>>

----------------------------------------------------------------------------
\* Finalization: DailyFinalizeJob.run.

Found(q) == q.pending \cap Enabled

\* The channels to freeze are listed again, for their current figures.
Relist(w) ==
    LET found == Found(pass[w])
        q == WriteOn([pass[w] EXCEPT
                        !.todo = found, !.pending = {},
                        !.listed = [c \in Channels |->
                                      IF c \in found \cap Enabled THEN channel[c].current
                                      ELSE NULL]])
    IN  /\ pass[w].phase = "relisting"
        /\ pass' = [pass EXCEPT ![w] = q]
        /\ memory' = DayDone(w, q = IdlePass)
        /\ UNCHANGED <<now, tables, restarts>>

\* Slip: what is not known of yesterday counts as nothing.
DeltaFromZero(count, previous) ==
    IF count = NULL THEN NULL
    ELSE IF previous = NULL THEN count
    ELSE IF previous.count = NULL THEN count
    ELSE count - previous.count

\* deriveMetricDeltas.
Delta(count, previous) ==
    IF count = NULL \/ previous = NULL THEN NULL
    ELSE IF previous.count = NULL THEN NULL
    ELSE count - previous.count

Previous(c, d) == IF d = 0 THEN NULL ELSE daily[c][PreviousDay(d)]

\* Slip: without a fresh collection the last known figures are frozen.
FrozenLastKnown(q, d) ==
    [count |-> q.listed[q.chan].count,
     delta |-> Delta(q.listed[q.chan].count, Previous(q.chan, d)),
     capturedAt |-> q.listed[q.chan].scannedAt]

\* Without a fresh collection the figures are missing, not the last known.
Frozen(q, d) ==
    LET fresh == q.chan \in q.succeeded
        count == IF fresh THEN q.listed[q.chan].count ELSE NULL
    IN  [count |-> count, delta |-> Delta(count, Previous(q.chan, d)),
         capturedAt |-> IF fresh THEN q.listed[q.chan].scannedAt ELSE NULL]

\* Slip: the row that is there is replaced.
UpsertedAgain(q, d) == [daily EXCEPT ![q.chan][d] = Frozen(q, d)]

\* The row that is there stands: the first one written for a day is canonical.
Upserted(q, d) ==
    IF daily[q.chan][d] # NULL THEN daily ELSE [daily EXCEPT ![q.chan][d] = Frozen(q, d)]

\* run, for the day it was when called.
WriteRow(w) ==
    LET q == WriteOn(pass[w])
    IN  /\ pass[w].phase = "writing"
        /\ daily' = Upserted(pass[w], Day(pass[w].at))
        /\ pass' = [pass EXCEPT ![w] = q]
        /\ memory' = DayDone(w, q = IdlePass /\ ~pass[w].failed)
        /\ UNCHANGED <<now, channel, restarts>>

WriteFails(w) ==
    /\ pass[w].phase = "writing"
    /\ pass' = [pass EXCEPT ![w] = WriteOn([@ EXCEPT !.failed = TRUE])]
    /\ UNCHANGED <<now, tables, memory, restarts>>

----------------------------------------------------------------------------
\* A worker stops and starts: its memory is lost, the tables stay.
Restart(w) ==
    /\ restarts[w] < MaxRestarts
    /\ restarts' = [restarts EXCEPT ![w] = @ + 1]
    /\ pass' = [pass EXCEPT ![w] = IdlePass]
    /\ memory' = [memory EXCEPT ![w] = NewMemory]
    /\ UNCHANGED <<now, tables>>

Timer(w) == RunInitialStatsOnce(w) \/ RunScheduledStatsOnce(w) \/ RunDailyIfDue(w)

PassStep(w) ==
    \/ PassFails(w)
    \/ ListUninitialized(w) \/ ListScheduled(w) \/ ListDaily(w) \/ Check(w)
    \/ CollectSucceeds(w) \/ CollectPartial(w)
    \/ Relist(w) \/ WriteRow(w) \/ WriteFails(w)

ApiStep == \E c \in Channels : CreateChannel(c) \/ ArchiveChannel(c)

Next == Tick \/ ApiStep \/ \E w \in Workers : Timer(w) \/ PassStep(w) \/ Restart(w)

Spec == Init /\ [][Next]_vars

----------------------------------------------------------------------------
PassState ==
    [phase : {"idle", "listing", "checking", "collecting", "relisting", "writing"},
     kind : Kinds \cup {NULL}, since : MaybeTime, todo : SUBSET Channels,
     chan : Channels \cup {NULL}, at : MaybeTime,
     pending : SUBSET Channels, succeeded : SUBSET Channels,
     listed : [Channels -> Current \cup {NULL}], failed : BOOLEAN]

\* What the next step of a pass reads is there, and was read no later than t.
PassUnderWay(q, t, there) ==
    /\ q.phase # "idle" => q.kind \in Kinds /\ q.since \in StartTime..t
    /\ q.phase \in {"checking", "collecting", "writing"} =>
         q.chan \in there /\ q.at \in q.since..t
    /\ q.phase = "writing" => \A c \in q.todo \cup {q.chan} : q.listed[c] # NULL
    /\ q.todo \cup q.pending \subseteq there

\* Type correctness: tables and passes stay well formed, and no pass lacks what
\* its next step reads.
TypeOK ==
    /\ now \in Times
    /\ channel \in [Channels -> Row \cup {NULL}]
    /\ daily \in [Channels -> [Days -> DailyRow \cup {NULL}]]
    /\ pass \in [Workers -> PassState]
    /\ \A w \in Workers : PassUnderWay(pass[w], now, {c \in Channels : Exists(c)})
    /\ memory \in [Workers -> [lastDailyDate : Days \cup {NULL},
                               attemptedAt : [Channels -> MaybeTime]]]
    /\ restarts \in [Workers -> 0..MaxRestarts]

\* The first row written for a channel and a day is canonical: no retry, restart,
\* second worker or later pass of the day ever changes it.
FirstRowStands ==
    [][\A c \in Channels, d \in Days :
         daily[c][d] # NULL => daily'[c][d] = daily[c][d]]_vars

\* A row's delta is the difference between its figure and the one on record for
\* the day before: a missing figure or a missing day is never bridged.
DeltasFromYesterday ==
    \A c \in Channels, d \in Days :
        daily[c][d] # NULL /\ daily[c][d].delta # NULL =>
            /\ d > 0
            /\ daily[c][d - 1] # NULL
            /\ daily[c][d].count # NULL /\ daily[c][d - 1].count # NULL
            /\ daily[c][d].delta = daily[c][d].count - daily[c][d - 1].count

\* Figures are frozen only if they were stored while the pass that freezes them
\* was under way: never the last known ones.
FreezesFreshFigures ==
    [][\A c \in Channels, d \in Days :
         daily[c][d] = NULL /\ daily'[c][d] # NULL /\ daily'[c][d].count # NULL =>
            \E w \in Workers :
                /\ pass[w].phase = "writing"
                /\ pass[w].chan = c
                /\ pass[w].listed[c].count = daily'[c][d].count
                /\ pass[w].listed[c].storedAt >= pass[w].since]_vars

\* A worker takes the present day for done only when every channel created
\* before its pass began, and not archived since, has its row.
DoneMeansFrozen ==
    [][\A w \in Workers :
         memory'[w].lastDailyDate # memory[w].lastDailyDate
           /\ memory'[w].lastDailyDate = Day(now) =>
            \A c \in Enabled :
                channel[c].createdAt < pass[w].since => daily'[c][Day(now)] # NULL]_vars

----------------------------------------------------------------------------
\* A row's figure comes with the instant it was captured at, and its delta with the figure.
SoundRows ==
    {r \in DailyRow :
        /\ r.count # NULL => r.capturedAt # NULL
        /\ r.delta # NULL => r.count # NULL}

Canonical == INSTANCE CanonicalRows WITH
    Keys <- Channels \X Days,
    Rows <- SoundRows,
    rows <- [k \in Channels \X Days |-> daily[k[1]][k[2]]]

\* The row of a channel's day appears whole, alone, sound, and never changes (CanonicalRows):
\* no retry, restart, second worker or later pass of the day touches it.
RowsAreCanonical == Canonical!Spec
=============================================================================
