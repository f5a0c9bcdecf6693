-------------------------- MODULE DailyStatsProofs --------------------------
(***************************************************************************)
(* Theorems about DailyStats, for every number of workers and channels,    *)
(* every length of the day and every boundary.                             *)
(***************************************************************************)
EXTENDS DailyStats, FiniteSetTheorems, TLAPS

----------------------------------------------------------------------------
\* The next channel of a pass.

\* A set of channels has a first one.
LEMMA FirstMember ==
    ASSUME NEW S, S \subseteq Channels, S # {}
    PROVE  First(S) \in S
<1>1. IsFiniteSet(Channels) /\ Channels \subseteq Int
    BY FS_Interval, DailyStatsAssumption DEF Channels
<1>2. IsFiniteSet(S) /\ S \subseteq Int
    BY <1>1, FS_Subset
<1> QED
    BY <1>2, LeastMember DEF First

----------------------------------------------------------------------------
\* Type correctness.

There == {c \in Channels : Exists(c)}

PassOK(q) == q \in PassState /\ PassUnderWay(q, now, There)

\* A pass between two awaits: it is of some kind, began by now, and has nothing
\* to do for a channel that is not there.
Running(q) ==
    /\ q \in PassState
    /\ q.kind \in Kinds
    /\ q.since \in StartTime..now
    /\ q.todo \cup q.pending \subseteq There

\* An idle pass is well formed.
LEMMA IdlePassOK == PassOK(IdlePass)
BY DEF PassOK, IdlePass, PassState, PassUnderWay, MaybeTime, Current, Kinds

\* The next await of a loop.
LEMMA AwaitOK ==
    ASSUME now \in Times, NEW q, Running(q), q.todo # {},
           NEW phase \in {"checking", "collecting", "writing"},
           phase = "writing" => \A c \in q.todo : q.listed[c] # NULL
    PROVE  /\ PassOK(Await(q, phase))
           /\ Await(q, phase).phase = phase
           /\ Await(q, phase).chan \in q.todo
           /\ Await(q, phase).todo = q.todo \ {Await(q, phase).chan}
           /\ Await(q, phase).at = now
           /\ \A c \in q.todo : c \in Await(q, phase).todo \cup {Await(q, phase).chan}
           /\ Await(q, phase).kind = q.kind /\ Await(q, phase).since = q.since
           /\ Await(q, phase).pending = q.pending
           /\ Await(q, phase).succeeded = q.succeeded
           /\ Await(q, phase).listed = q.listed /\ Await(q, phase).failed = q.failed
<1> DEFINE c == First(q.todo)
           r == Await(q, phase)
<1>1. q.todo \subseteq Channels
    BY DEF Running, PassState
<1>2. c \in q.todo
    BY <1>1, FirstMember
<1>3. r = [q EXCEPT !.phase = phase, !.chan = c, !.todo = q.todo \ {c}, !.at = now]
    BY DEF Await
<1> HIDE DEF c, r
<1>4. r \in PassState
    BY <1>1, <1>2, <1>3 DEF Running, PassState, MaybeTime
<1>5. /\ r.phase = phase /\ r.chan = c /\ r.todo = q.todo \ {c} /\ r.at = now
      /\ r.kind = q.kind /\ r.since = q.since /\ r.pending = q.pending
      /\ r.succeeded = q.succeeded /\ r.listed = q.listed /\ r.failed = q.failed
    BY <1>3 DEF Running, PassState
<1>6. now \in Int /\ StartTime \in Int
    BY DaysAssumption DEF Times
<1>7. r.at \in r.since..now
    BY <1>5, <1>6 DEF Running
<1>8. PassUnderWay(r, now, There)
    BY <1>2, <1>5, <1>7 DEF PassUnderWay, Running
<1> QED
    BY <1>2, <1>4, <1>5, <1>8 DEF PassOK, r

\* The loop that collects.
LEMMA CollectOnOK ==
    ASSUME now \in Times, NEW q, Running(q)
    PROVE  PassOK(CollectOn(q))
<1>1. CASE q.todo # {}
    BY <1>1, AwaitOK DEF CollectOn
<1>2. CASE q.todo = {} /\ q.kind = "daily"
    <2> DEFINE r == [q EXCEPT !.phase = "relisting", !.chan = NULL, !.at = NULL]
    <2>1. CollectOn(q) = r
        BY <1>2 DEF CollectOn
    <2>2. r \in PassState
        BY DEF Running, PassState, MaybeTime
    <2>3. PassUnderWay(r, now, There)
        BY DEF PassUnderWay, Running, PassState
    <2> QED
        BY <2>1, <2>2, <2>3 DEF PassOK
<1>3. CASE q.todo = {} /\ q.kind # "daily"
    BY <1>3, IdlePassOK DEF CollectOn
<1> QED
    BY <1>1, <1>2, <1>3

\* The loop that looks for missing rows.
LEMMA CheckOnOK ==
    ASSUME now \in Times, NEW q, Running(q)
    PROVE  PassOK(CheckOn(q))
<1>1. CASE q.todo # {}
    BY <1>1, AwaitOK DEF CheckOn
<1>2. CASE q.todo = {} /\ q.pending # {}
    <2> DEFINE r == [q EXCEPT !.todo = q.pending]
    <2>1. CheckOn(q) = CollectOn(r)
        BY <1>2 DEF CheckOn
    <2>2. Running(r)
        BY DEF Running, PassState
    <2> QED
        BY <2>1, <2>2, CollectOnOK
<1>3. CASE q.todo = {} /\ q.pending = {}
    BY <1>3, IdlePassOK DEF CheckOn
<1> QED
    BY <1>1, <1>2, <1>3

\* The loop that writes rows.
LEMMA WriteOnOK ==
    ASSUME now \in Times, NEW q, Running(q), \A c \in q.todo : q.listed[c] # NULL
    PROVE  PassOK(WriteOn(q))
<1>1. CASE q.todo # {}
    BY <1>1, AwaitOK DEF WriteOn
<1>2. CASE q.todo = {}
    BY <1>2, IdlePassOK DEF WriteOn
<1> QED
    BY <1>1, <1>2

\* How one step moves the clock, the channels and the passes: later steps of the
\* proof only need these facts.
Steps ==
    /\ now' \in Times /\ now <= now'
    /\ channel' \in [Channels -> Row \cup {NULL}]
    /\ \A c \in Channels : Exists(c) => channel'[c] # NULL
    /\ pass' \in [Workers -> PassState]
    /\ \A w \in Workers : pass'[w] = pass[w] \/ (now' = now /\ PassOK(pass'[w]))

\* A step that replaces one pass by a well-formed one, and takes no channel away, is
\* one of the Steps.
LEMMA PassMoves ==
    ASSUME TypeOK, NEW w \in Workers, NEW q, PassOK(q), pass' = [pass EXCEPT ![w] = q],
           now' = now, channel' \in [Channels -> Row \cup {NULL}],
           \A c \in Channels : Exists(c) => channel'[c] # NULL
    PROVE  Steps
BY DEF TypeOK, Steps, PassOK, Times

\* The clock moves on.
LEMMA TickSteps == ASSUME TypeOK, Tick PROVE Steps
BY DaysAssumption DEF TypeOK, Tick, Steps, Times, tables, Exists

\* A channel is added.
LEMMA CreateSteps == ASSUME TypeOK, NEW c \in Channels, CreateChannel(c) PROVE Steps
<1>1. [enabled |-> TRUE, createdAt |-> now, current |-> NoCurrent] \in Row
    BY DEF TypeOK, Row, Current, NoCurrent, Figure, MaybeTime
<1>2. NULL \notin Row
    BY DailyNullAssumption
<1> QED
    BY <1>1, <1>2, DaysAssumption DEF TypeOK, CreateChannel, Steps, Exists, Times

\* A channel is archived.
LEMMA ArchiveSteps == ASSUME TypeOK, NEW c \in Channels, ArchiveChannel(c) PROVE Steps
<1>1. channel[c] \in Row
    BY DEF TypeOK, ArchiveChannel, Exists
<1>2. [channel[c] EXCEPT !.enabled = FALSE] \in Row
    BY <1>1 DEF Row
<1>3. NULL \notin Row
    BY DailyNullAssumption
<1>4. channel' = [channel EXCEPT ![c] = [channel[c] EXCEPT !.enabled = FALSE]]
    BY DEF ArchiveChannel
<1>5. /\ channel' \in [Channels -> Row \cup {NULL}]
      /\ \A b \in Channels : Exists(b) => channel'[b] # NULL
    BY <1>2, <1>3, <1>4 DEF TypeOK, Exists
<1>6. now' = now /\ pass' = pass
    BY DEF ArchiveChannel
<1>7. now <= now'
    BY <1>6, DaysAssumption DEF TypeOK, Times
<1> QED
    BY <1>5, <1>6, <1>7 DEF TypeOK, Steps

\* A pass of the scheduler that is under way is running.
LEMMA UnderWayRuns ==
    ASSUME TypeOK, NEW w \in Workers, pass[w].phase # "idle"
    PROVE  Running(pass[w])
BY DEF TypeOK, Running, PassUnderWay, There

\* A timer starts a pass.
LEMMA StartSteps ==
    ASSUME TypeOK, NEW w \in Workers, NEW kind \in Kinds, StartPass(w, kind)
    PROVE  Steps
<1> DEFINE q == [IdlePass EXCEPT !.phase = "listing", !.kind = kind, !.since = now]
<1>1. q \in PassState
    BY DEF IdlePass, PassState, MaybeTime, TypeOK
<1>2. PassUnderWay(q, now, There)
    BY DaysAssumption DEF IdlePass, PassUnderWay, TypeOK, Times
<1> QED
    BY <1>1, <1>2, PassMoves DEF StartPass, TypeOK, PassOK, tables, Exists

\* A query of a pass throws.
LEMMA FailSteps ==
    ASSUME TypeOK, NEW w \in Workers, PassFails(w)
    PROVE  Steps
BY IdlePassOK, PassMoves DEF PassFails, TypeOK, tables, Exists

\* A worker restarts.
LEMMA RestartSteps ==
    ASSUME TypeOK, NEW w \in Workers, Restart(w)
    PROVE  Steps
BY IdlePassOK, PassMoves DEF Restart, TypeOK, tables, Exists

\* A pass that is running is still one with another list of what to do.
LEMMA RunningTodo ==
    ASSUME NEW q, Running(q), NEW S, S \subseteq There
    PROVE  Running([q EXCEPT !.todo = S])
BY DEF Running, PassState, There

\* A pass learns which channels to go through.
LEMMA ListSteps ==
    ASSUME TypeOK, NEW w \in Workers,
           ListUninitialized(w) \/ ListScheduled(w) \/ ListDaily(w)
    PROVE  Steps
<1>1. Running(pass[w])
    BY UnderWayRuns DEF ListUninitialized, ListScheduled, ListDaily
<1>2. Enabled \subseteq There /\ Uninitialized(w) \subseteq There
    BY DEF Enabled, There, Uninitialized
<1>3. Running([pass[w] EXCEPT !.todo = Uninitialized(w)]) /\ Running([pass[w] EXCEPT !.todo = Enabled])
    BY <1>1, <1>2, RunningTodo
<1>4. /\ PassOK(CollectOn([pass[w] EXCEPT !.todo = Uninitialized(w)]))
      /\ PassOK(CollectOn([pass[w] EXCEPT !.todo = Enabled]))
      /\ PassOK(CheckOn([pass[w] EXCEPT !.todo = Enabled]))
    BY <1>3, CollectOnOK, CheckOnOK DEF TypeOK
<1>5. /\ now' = now /\ channel' = channel
      /\ \E q : PassOK(q) /\ pass' = [pass EXCEPT ![w] = q]
    BY <1>4 DEF ListUninitialized, ListScheduled, ListDaily, tables
<1> QED
    BY <1>5, PassMoves DEF TypeOK, Exists

\* A daily pass looks for a row.
LEMMA CheckSteps ==
    ASSUME TypeOK, NEW w \in Workers, Check(w)
    PROVE  Steps
<1> DEFINE r == [pass[w] EXCEPT !.pending = IF NeedsFinalization(pass[w]) THEN @ \cup {pass[w].chan}
                                                                     ELSE @]
<1>1. Running(pass[w])
    BY UnderWayRuns DEF Check
<1>2. pass[w].chan \in There
    BY DEF Check, TypeOK, PassUnderWay, There
<1>3. Running(r)
    BY <1>1, <1>2 DEF Running, PassState, There
<1>4. PassOK(CheckOn(r))
    BY <1>3, CheckOnOK DEF TypeOK
<1> QED
    BY <1>4, PassMoves DEF Check, TypeOK, tables, Exists

\* A pass collects a channel.
LEMMA CollectSteps ==
    ASSUME TypeOK, NEW w \in Workers, CollectSucceeds(w) \/ CollectPartial(w)
    PROVE  Steps
<1> DEFINE c == pass[w].chan
           r == [pass[w] EXCEPT !.succeeded = IF pass[w].kind = "daily" THEN @ \cup {c} ELSE @]
<1>1. Running(pass[w])
    BY UnderWayRuns DEF CollectSucceeds, CollectPartial
<1>2. c \in There /\ c \in Channels /\ pass[w].at \in Times
    BY DaysAssumption DEF CollectSucceeds, CollectPartial, TypeOK, PassUnderWay, There, Times, PassState, MaybeTime
<1>3. Running(r)
    BY <1>1, <1>2 DEF Running, PassState
<1>4. PassOK(CollectOn(r)) /\ PassOK(CollectOn(pass[w]))
    BY <1>1, <1>3, CollectOnOK DEF TypeOK
<1>5. CASE CollectPartial(w)
    BY <1>4, <1>5, PassMoves DEF CollectPartial, TypeOK, tables, Exists
<1>6. CASE CollectSucceeds(w)
    <2>1. PICK v \in Figure :
            channel' = [channel EXCEPT ![c].current =
                          [count |-> v, scannedAt |-> pass[w].at, storedAt |-> now]]
        BY <1>6 DEF CollectSucceeds
    <2>2. channel[c] \in Row
        BY <1>2 DEF TypeOK, There, Exists
    <2> DEFINE x == [count |-> v, scannedAt |-> pass[w].at, storedAt |-> now]
    <2>3. x \in Current
        BY <1>2 DEF Current, TypeOK, MaybeTime
    <2>4. [channel[c] EXCEPT !.current = x] \in Row
        BY <2>2, <2>3 DEF Row
    <2>5. NULL \notin Row
        BY DailyNullAssumption
    <2>6. channel' = [channel EXCEPT ![c] = [channel[c] EXCEPT !.current = x]]
        BY <2>1
    <2>7. /\ channel' \in [Channels -> Row \cup {NULL}]
          /\ \A b \in Channels : Exists(b) => channel'[b] # NULL
        BY <1>2, <2>4, <2>5, <2>6 DEF TypeOK, Exists
    <2> QED
        BY <1>4, <1>6, <2>7, PassMoves DEF CollectSucceeds
<1> QED
    BY <1>5, <1>6

\* A pass that has listed the channels it found is running, and knows their figures.
Relisted(q) ==
    [q EXCEPT !.todo = Found(q), !.pending = {},
              !.listed = [c \in Channels |->
                            IF c \in Found(q) \cap Enabled THEN channel[c].current ELSE NULL]]

\* Such a pass freezes channels that are there, with the figures on record.
LEMMA RelistRuns ==
    ASSUME TypeOK, NEW q, Running(q)
    PROVE  /\ Running(Relisted(q)) /\ Relisted(q).todo = Found(q)
           /\ Relisted(q).kind = q.kind /\ Relisted(q).since = q.since
           /\ Relisted(q).succeeded = q.succeeded /\ Relisted(q).phase = q.phase
           /\ \A c \in Relisted(q).todo : Relisted(q).listed[c] # NULL
           /\ \A c \in Channels : Relisted(q).listed[c] # NULL =>
                Relisted(q).listed[c] = channel[c].current
<1> DEFINE found == Found(q)
           l == [c \in Channels |->
                   IF c \in found \cap Enabled THEN channel[c].current ELSE NULL]
           r == Relisted(q)
<1>1. found \subseteq There /\ found \subseteq Enabled
    BY DEF Found, Running, Enabled, There
<1>2. ASSUME NEW c \in found PROVE channel[c].current \in Current
    BY <1>1, <1>2 DEF TypeOK, There, Exists, Row
<1>3. l \in [Channels -> Current \cup {NULL}]
    BY <1>2
<1>4. \A c \in Channels : l[c] # NULL => l[c] = channel[c].current
    OBVIOUS
<1>5. \A c \in found : l[c] # NULL
    BY <1>1, <1>2, DailyNullAssumption DEF There
<1>6. r = [q EXCEPT !.todo = found, !.pending = {}, !.listed = l]
    BY DEF Relisted
<1> HIDE DEF l, found, r
<1>7. r \in PassState
    BY <1>1, <1>3, <1>6 DEF Running, PassState, There
<1>8. /\ r.todo = found /\ r.pending = {} /\ r.listed = l
      /\ r.kind = q.kind /\ r.since = q.since /\ r.succeeded = q.succeeded
      /\ r.phase = q.phase
    BY <1>6 DEF Running, PassState
<1> QED
    BY <1>1, <1>4, <1>5, <1>7, <1>8 DEF Running, r, found

\* A daily pass lists the channels to freeze.
LEMMA RelistSteps ==
    ASSUME TypeOK, NEW w \in Workers, Relist(w)
    PROVE  Steps
<1>1. Running(pass[w])
    BY UnderWayRuns DEF Relist
<1>2. PassOK(WriteOn(Relisted(pass[w])))
    BY <1>1, RelistRuns, WriteOnOK DEF TypeOK
<1>3. now' = now /\ channel' = channel /\ pass' = [pass EXCEPT ![w] = WriteOn(Relisted(pass[w]))]
    BY DEF Relist, Relisted, tables
<1> QED
    BY <1>2, <1>3, PassMoves DEF TypeOK, Exists

\* A daily pass writes a row, or fails to.
LEMMA WriteSteps ==
    ASSUME TypeOK, NEW w \in Workers, WriteRow(w) \/ WriteFails(w)
    PROVE  Steps
<1> DEFINE r == [pass[w] EXCEPT !.failed = TRUE]
<1>1. Running(pass[w]) /\ \A c \in pass[w].todo : pass[w].listed[c] # NULL
    BY UnderWayRuns DEF WriteRow, WriteFails, TypeOK, PassUnderWay
<1>2. Running(r) /\ \A c \in r.todo : r.listed[c] # NULL
    BY <1>1 DEF Running, PassState
<1>3. PassOK(WriteOn(pass[w])) /\ PassOK(WriteOn(r))
    BY <1>1, <1>2, WriteOnOK DEF TypeOK
<1>4. channel' = channel /\ now' = now
    BY DEF WriteRow, WriteFails, tables
<1>5. \E q : PassOK(q) /\ pass' = [pass EXCEPT ![w] = q]
    BY <1>3 DEF WriteRow, WriteFails
<1> QED
    BY <1>4, <1>5, PassMoves DEF TypeOK, Exists

\* A pass that is well formed stays so when the clock moves on and channels are added.
LEMMA UnderWayLater ==
    ASSUME NEW q \in PassState, NEW t \in Times, NEW u \in Times, t <= u,
           NEW A, NEW B, A \subseteq B, PassUnderWay(q, t, A)
    PROVE  PassUnderWay(q, u, B)
<1>1. StartTime \in Int /\ t \in Int /\ u \in Int
    BY DaysAssumption DEF Times
<1>2. \A x \in StartTime..t : x \in StartTime..u
    BY <1>1
<1>3. \A x : \A y \in x..t : x \in Int => y \in x..u
    BY <1>1
<1>4. q.phase # "idle" => q.since \in Int
    BY <1>1 DEF PassUnderWay
<1> QED
    BY <1>2, <1>3, <1>4 DEF PassUnderWay

\* Every step moves the clock, the channels and the passes as Steps says.
LEMMA NextSteps ==
    ASSUME TypeOK, Next
    PROVE  Steps
<1>1. CASE Tick
    BY <1>1, TickSteps
<1>2. CASE ApiStep
    BY <1>2, CreateSteps, ArchiveSteps DEF ApiStep
<1>3. ASSUME NEW w \in Workers, Timer(w) \/ PassStep(w) \/ Restart(w)
      PROVE  Steps
    <2>1. CASE Timer(w)
        BY <2>1, StartSteps
           DEF Timer, RunInitialStatsOnce, RunScheduledStatsOnce, RunDailyIfDue, Kinds
    <2>2. CASE PassStep(w)
        BY <2>2, FailSteps, ListSteps, CheckSteps, CollectSteps, RelistSteps, WriteSteps
           DEF PassStep
    <2>3. CASE Restart(w)
        BY <2>3, RestartSteps
    <2> QED
        BY <1>3, <2>1, <2>2, <2>3
<1> QED
    BY <1>1, <1>2, <1>3 DEF Next

----------------------------------------------------------------------------
\* The rows.

\* A row that is written is well formed, its figure was collected afresh, and its
\* delta is the difference with the row of the day before.
LEMMA FrozenRow ==
    ASSUME TypeOK, NEW w \in Workers, pass[w].phase = "writing", NEW d \in Days
    PROVE  LET q == pass[w]
               r == Frozen(q, d)
           IN  /\ r \in DailyRow
               /\ r.count # NULL => /\ q.chan \in q.succeeded
                                    /\ r.count = q.listed[q.chan].count
                                    /\ r.capturedAt # NULL
               /\ r.delta # NULL =>
                    /\ d > 0 /\ r.count # NULL
                    /\ daily[q.chan][d - 1] # NULL /\ daily[q.chan][d - 1].count # NULL
                    /\ r.delta = r.count - daily[q.chan][d - 1].count
<1> DEFINE q == pass[w]
           c == q.chan
           fresh == c \in q.succeeded
           count == IF fresh THEN q.listed[c].count ELSE NULL
           prev == Previous(c, d)
           delta == Delta(count, prev)
<1>1. c \in Channels /\ q.listed[c] # NULL /\ q.listed[c] \in Current \cup {NULL}
    BY DEF TypeOK, PassUnderWay, PassState, There
<1>2. q.listed[c] \in Current
    BY <1>1
<1>3. /\ count \in Figure
      /\ fresh => /\ q.listed[c].scannedAt \in MaybeTime
                  /\ count # NULL => q.listed[c].scannedAt # NULL
    BY <1>2, DaysAssumption DEF Current, NoCurrent, Figure, MaybeTime, Times
<1>4. d \in Int /\ (d # 0 => d - 1 \in Days /\ d > 0)
    BY DaysAssumption DEF Days
<1>5. prev # NULL => d > 0 /\ prev = daily[c][d - 1] /\ prev \in DailyRow
    BY <1>1, <1>4 DEF Previous, PreviousDay, TypeOK
<1>6. prev # NULL => prev.count \in Figure
    BY <1>5 DEF DailyRow
<1>7. NULL \notin Int /\ Counts \subseteq Int
    BY DaysAssumption, DailyStatsAssumption
<1> HIDE DEF count, prev
<1>8. delta # NULL => /\ count # NULL /\ prev # NULL /\ prev.count # NULL
                      /\ delta = count - prev.count
    BY DEF Delta
<1> HIDE DEF delta
<1>9. delta \in Int \cup {NULL}
    <2>1. ASSUME NEW x \in Figure, x # NULL PROVE x \in Int
        BY <1>7, <2>1 DEF Figure
    <2>2. CASE delta # NULL
        <3>1. count \in Int
            BY <1>3, <1>8, <2>1, <2>2
        <3>2. prev.count \in Int
            BY <1>6, <1>8, <2>1, <2>2
        <3>3. delta = count - prev.count
            BY <1>8, <2>2
        <3> QED
            BY <3>1, <3>2, <3>3
    <2> QED
        BY <2>2
<1>10. Frozen(q, d) = [count |-> count, delta |-> delta,
                       capturedAt |-> IF fresh THEN q.listed[c].scannedAt ELSE NULL]
    BY DEF Frozen, count, prev, delta
<1>11. Frozen(q, d) \in DailyRow
    BY <1>3, <1>9, <1>10 DEF DailyRow, MaybeTime
<1>12. /\ Frozen(q, d).count = count /\ Frozen(q, d).delta = delta
       /\ fresh => Frozen(q, d).capturedAt = q.listed[c].scannedAt
    BY <1>10
<1>13. count # NULL => fresh /\ count = q.listed[c].count
    BY DEF count
<1> QED
    BY <1>3, <1>5, <1>8, <1>11, <1>12, <1>13

\* A step writes no row, or one that was absent.
RowWritten(w, d) ==
    /\ pass[w].phase = "writing"
    /\ daily[pass[w].chan][d] = NULL
    /\ daily' = [daily EXCEPT ![pass[w].chan][d] = Frozen(pass[w], d)]

\* Only the write of a row changes the rows, and only an absent one.
LEMMA DailySteps ==
    ASSUME TypeOK, [Next]_vars
    PROVE  \/ daily' = daily
           \/ \E w \in Workers, d \in Days : RowWritten(w, d)
<1>1. ASSUME NEW w \in Workers, WriteRow(w)
      PROVE  daily' = daily \/ \E d \in Days : RowWritten(w, d)
    <2>1. pass[w].phase = "writing" /\ pass[w].at \in pass[w].since..now
          /\ pass[w].since \in StartTime..now
        BY <1>1 DEF WriteRow, TypeOK, PassUnderWay
    <2>2. pass[w].at \in Times
        BY <2>1, DaysAssumption DEF TypeOK, Times
    <2>3. Day(pass[w].at) \in Days
        BY <2>2, DayType
    <2> QED
        BY <1>1, <2>1, <2>3 DEF WriteRow, Upserted, RowWritten
<1>2. CASE UNCHANGED vars
    BY <1>2 DEF vars, tables
<1>3. CASE Tick \/ ApiStep
    BY <1>3 DEF Tick, ApiStep, CreateChannel, ArchiveChannel, tables
<1>4. ASSUME NEW w \in Workers, Timer(w) \/ PassStep(w) \/ Restart(w), ~WriteRow(w)
      PROVE  daily' = daily
    BY <1>4 DEF Timer, RunInitialStatsOnce, RunScheduledStatsOnce, RunDailyIfDue, StartPass,
                PassStep, PassFails, ListUninitialized, ListScheduled, ListDaily, Check,
                CollectSucceeds, CollectPartial, Relist, WriteFails, Restart, tables
<1> QED
    BY <1>1, <1>2, <1>3, <1>4 DEF Next

\* The rows stay well formed.
LEMMA DailyType ==
    ASSUME TypeOK, [Next]_vars
    PROVE  daily' \in [Channels -> [Days -> DailyRow \cup {NULL}]]
<1>1. ASSUME NEW w \in Workers, NEW d \in Days, RowWritten(w, d)
      PROVE  daily' \in [Channels -> [Days -> DailyRow \cup {NULL}]]
    <2> DEFINE r == Frozen(pass[w], d)
    <2>1. r \in DailyRow
        BY <1>1, FrozenRow DEF RowWritten
    <2> HIDE DEF r
    <2>2. daily' = [daily EXCEPT ![pass[w].chan][d] = r]
        BY <1>1 DEF RowWritten, r
    <2> QED
        BY <2>1, <2>2 DEF TypeOK
<1> QED
    BY <1>1, DailySteps DEF TypeOK

----------------------------------------------------------------------------
\* What a worker remembers.

MemoryType ==
    [lastDailyDate : Days \cup {NULL}, attemptedAt : [Channels -> MaybeTime]]

\* The workers' memories stay well formed.
LEMMA MemorySteps ==
    ASSUME TypeOK, [Next]_vars
    PROVE  memory' \in [Workers -> MemoryType]
<1>1. memory \in [Workers -> MemoryType]
    BY DEF TypeOK, MemoryType
<1>2. ASSUME NEW w \in Workers, pass[w].phase # "idle"
      PROVE  pass[w].since \in Times /\ Day(pass[w].since) \in Days
    <2>1. pass[w].since \in StartTime..now
        BY <1>2 DEF TypeOK, PassUnderWay
    <2>2. pass[w].since \in Times
        BY <2>1, DaysAssumption DEF TypeOK, Times
    <2> QED
        BY <2>2, DayType
<1>3. ASSUME NEW w \in Workers, pass[w].phase # "idle", NEW done \in BOOLEAN,
             memory' = DayDone(w, done)
      PROVE  memory' \in [Workers -> MemoryType]
    <2>1. [memory[w] EXCEPT !.lastDailyDate = Day(pass[w].since)] \in MemoryType
        BY <1>1, <1>2, <1>3 DEF MemoryType
    <2>2. CASE done
        <3>1. memory' = [memory EXCEPT ![w] = [memory[w] EXCEPT !.lastDailyDate = Day(pass[w].since)]]
            BY <1>3, <2>2 DEF DayDone
        <3> QED
            BY <1>1, <2>1, <3>1
    <2>3. CASE ~done
        BY <1>1, <1>3, <2>3 DEF DayDone
    <2> QED
        BY <2>2, <2>3
<1>4. ASSUME NEW w \in Workers, CollectSucceeds(w) \/ CollectPartial(w)
      PROVE  memory' \in [Workers -> MemoryType]
    <2>1. PICK at \in MaybeTime : memory' = Attempted(w, at)
        BY <1>2, <1>4 DEF CollectSucceeds, CollectPartial, MaybeTime
    <2> DEFINE m == [memory[w].attemptedAt EXCEPT ![pass[w].chan] = at]
    <2>2. m \in [Channels -> MaybeTime]
        BY <1>1, <2>1 DEF MemoryType
    <2>3. [memory[w] EXCEPT !.attemptedAt = m] \in MemoryType
        BY <1>1, <2>2 DEF MemoryType
    <2>4. memory' = memory \/ memory' = [memory EXCEPT ![w] = [memory[w] EXCEPT !.attemptedAt = m]]
        BY <2>1 DEF Attempted
    <2> QED
        BY <1>1, <2>3, <2>4
<1>5. ASSUME NEW w \in Workers, ListUninitialized(w)
      PROVE  memory' \in [Workers -> MemoryType]
    <2> DEFINE m == [c \in Channels |->
                       IF c \in Enabled /\ channel[c].current.scannedAt # NULL
                       THEN NULL ELSE memory[w].attemptedAt[c]]
    <2>1. m \in [Channels -> MaybeTime]
        BY <1>1 DEF MemoryType, MaybeTime
    <2>2. [memory[w] EXCEPT !.attemptedAt = m] \in MemoryType
        BY <1>1, <2>1 DEF MemoryType
    <2>3. memory' = [memory EXCEPT ![w] = [memory[w] EXCEPT !.attemptedAt = m]]
        BY <1>5 DEF ListUninitialized
    <2> QED
        BY <1>1, <2>2, <2>3
<1>6. ASSUME NEW w \in Workers, Restart(w)
      PROVE  memory' \in [Workers -> MemoryType]
    <2>1. NewMemory \in MemoryType
        BY DEF NewMemory, MemoryType, MaybeTime
    <2> QED
        BY <1>1, <1>6, <2>1 DEF Restart
<1>7. CASE UNCHANGED vars
    BY <1>1, <1>7 DEF vars
<1>8. CASE Tick \/ ApiStep
    BY <1>1, <1>8 DEF Tick, ApiStep, CreateChannel, ArchiveChannel
<1>9. ASSUME NEW w \in Workers, ListDaily(w) \/ Check(w) \/ Relist(w) \/ WriteRow(w)
      PROVE  memory' \in [Workers -> MemoryType]
    <2>1. \E done \in BOOLEAN : memory' = DayDone(w, done)
        BY <1>9 DEF ListDaily, Check, Relist, WriteRow
    <2>2. pass[w].phase # "idle"
        BY <1>9 DEF ListDaily, Check, Relist, WriteRow
    <2> QED
        BY <1>3, <2>1, <2>2
<1>10. ASSUME NEW w \in Workers,
              Timer(w) \/ PassFails(w) \/ ListScheduled(w) \/ WriteFails(w)
       PROVE  memory' = memory
    BY <1>10 DEF Timer, RunInitialStatsOnce, RunScheduledStatsOnce, RunDailyIfDue, StartPass,
                 PassFails, ListScheduled, WriteFails
<1>11. ASSUME NEW w \in Workers, PassStep(w)
       PROVE  memory' \in [Workers -> MemoryType]
    BY <1>1, <1>4, <1>5, <1>9, <1>10, <1>11 DEF PassStep
<1> QED
    BY <1>1, <1>6, <1>7, <1>8, <1>10, <1>11 DEF Next

\* The restarts of a worker stay within their bound.
LEMMA RestartsType ==
    ASSUME TypeOK, [Next]_vars
    PROVE  restarts' \in [Workers -> 0..MaxRestarts]
<1>1. CASE UNCHANGED vars \/ Tick \/ ApiStep
    BY <1>1 DEF TypeOK, vars, Tick, ApiStep, CreateChannel, ArchiveChannel
<1>2. ASSUME NEW w \in Workers, Timer(w) \/ PassStep(w)
      PROVE  restarts' = restarts
    BY <1>2 DEF Timer, RunInitialStatsOnce, RunScheduledStatsOnce, RunDailyIfDue, StartPass,
                PassStep, PassFails, ListUninitialized, ListScheduled, ListDaily, Check,
                CollectSucceeds, CollectPartial, Relist, WriteRow, WriteFails
<1>3. ASSUME NEW w \in Workers, Restart(w)
      PROVE  restarts' \in [Workers -> 0..MaxRestarts]
    BY <1>3, DailyStatsAssumption DEF Restart, TypeOK
<1> QED
    BY <1>1, <1>2, <1>3 DEF Next, TypeOK

\* The tables, the passes and the workers' memories stay well formed, and no pass
\* lacks what its next step reads.
THEOREM TypeCorrect == Spec => []TypeOK
<1>1. Init => TypeOK
    <2> SUFFICES ASSUME Init PROVE TypeOK
        OBVIOUS
    <2>1. now \in Times
        BY DaysAssumption DEF Init, Times
    <2>2. \A w \in Workers : pass[w] = IdlePass /\ PassOK(pass[w])
        BY IdlePassOK DEF Init
    <2>3. pass \in [Workers -> PassState]
        BY IdlePassOK DEF Init, PassOK
    <2>4. NewMemory \in MemoryType
        BY DEF NewMemory, MemoryType, MaybeTime
    <2> QED
        BY <2>1, <2>2, <2>3, <2>4, DailyStatsAssumption
           DEF TypeOK, Init, PassOK, There, MemoryType
<1>2. TypeOK /\ [Next]_vars => TypeOK'
    <2> SUFFICES ASSUME TypeOK, [Next]_vars PROVE TypeOK'
        OBVIOUS
    <2>1. CASE UNCHANGED vars
        BY <2>1 DEF TypeOK, vars, tables, Exists
    <2>2. CASE Next
        <3>1. Steps
            BY <2>2, NextSteps
        <3> DEFINE A == {c \in Channels : Exists(c)}
                   B == {c \in Channels : channel'[c] # NULL}
        <3>2. A \subseteq B
            BY <3>1 DEF Steps
        <3>3. ASSUME NEW w \in Workers PROVE PassUnderWay(pass'[w], now', B)
            <4>1. CASE pass'[w] = pass[w]
                BY <3>1, <3>2, <4>1, UnderWayLater DEF TypeOK, Steps
            <4>2. CASE now' = now /\ PassOK(pass'[w])
                BY <3>1, <3>2, <4>2, UnderWayLater DEF TypeOK, Steps, PassOK, There
            <4> QED
                BY <3>1, <4>1, <4>2 DEF Steps
        <3> QED
            BY <3>1, <3>3, DailyType, MemorySteps, RestartsType
               DEF TypeOK, Steps, Exists, MemoryType
    <2> QED
        BY <2>1, <2>2
<1> QED
    BY <1>1, <1>2, PTL DEF Spec

----------------------------------------------------------------------------
\* The first row written for a channel and a day is canonical: retries, restarts,
\* other workers and later passes leave it as it is.
THEOREM RowsStand == Spec => FirstRowStands
<1>1. TypeOK /\ [Next]_vars =>
        [\A c \in Channels, d \in Days :
           daily[c][d] # NULL => daily'[c][d] = daily[c][d]]_vars
    <2> SUFFICES ASSUME TypeOK, [Next]_vars, NEW c \in Channels, NEW d \in Days,
                        daily[c][d] # NULL
                 PROVE  daily'[c][d] = daily[c][d]
        OBVIOUS
    <2>1. ASSUME NEW w \in Workers, NEW e \in Days, RowWritten(w, e)
          PROVE  daily'[c][d] = daily[c][d]
        BY <2>1 DEF RowWritten, TypeOK
    <2> QED
        BY <2>1, DailySteps
<1> QED
    BY <1>1, TypeCorrect, PTL DEF Spec, FirstRowStands

\* Every row there is, is sound.
RowsSound == \A c \in Channels, d \in Days : daily[c][d] \in SoundRows \cup {NULL}

\* The rows of all channels and days.
rowsOf == [k \in Channels \X Days |-> daily[k[1]][k[2]]]

\* Writing a row publishes it.
LEMMA WritePublishes ==
    ASSUME TypeOK, NEW w \in Workers, NEW d \in Days, RowWritten(w, d), RowsSound
    PROVE  Canonical!Next /\ RowsSound'
<1> DEFINE c == pass[w].chan
           r == Frozen(pass[w], d)
           k == <<c, d>>
<1>1. c \in Channels
    BY DEF RowWritten, TypeOK, PassUnderWay
<1>2. r \in SoundRows /\ r # NULL
    <2>1. r \in DailyRow /\ (r.count # NULL => r.capturedAt # NULL) /\ (r.delta # NULL => r.count # NULL)
        BY FrozenRow DEF RowWritten
    <2> HIDE DEF r
    <2> QED
        BY <2>1, DailyNullAssumption DEF SoundRows
<1>3. daily' = [daily EXCEPT ![c][d] = r] /\ daily[c][d] = NULL
    BY DEF RowWritten
<1> HIDE DEF c, r
<1>4. \A b \in Channels, e \in Days : daily'[b][e] = IF b = c /\ e = d THEN r ELSE daily[b][e]
    BY <1>1, <1>3 DEF TypeOK
<1>5. RowsSound'
    BY <1>2, <1>4 DEF RowsSound
<1>6. k \in Channels \X Days /\ k[1] = c /\ k[2] = d
    BY <1>1
<1>7. \A j \in Channels \X Days : j[1] \in Channels /\ j[2] \in Days /\ j = <<j[1], j[2]>>
    OBVIOUS
<1> HIDE DEF k
<1>8. rowsOf[k] = NULL /\ rowsOf'[k] # NULL
    BY <1>1, <1>2, <1>3, <1>4, <1>6 DEF rowsOf
<1>9. rowsOf' \in [Channels \X Days -> SoundRows \cup {NULL}]
    BY <1>5, <1>7 DEF rowsOf, RowsSound
<1>10. \A j \in (Channels \X Days) \ {k} : rowsOf'[j] = rowsOf[j]
    <2> SUFFICES ASSUME NEW j \in (Channels \X Days) \ {k} PROVE rowsOf'[j] = rowsOf[j]
        OBVIOUS
    <2>1. ~(j[1] = c /\ j[2] = d)
        BY <1>7 DEF k
    <2>2. daily'[j[1]][j[2]] = daily[j[1]][j[2]]
        BY <1>4, <1>7, <2>1
    <2> QED
        BY <2>2 DEF rowsOf
<1> QED
    BY <1>5, <1>6, <1>8, <1>9, <1>10 DEF Canonical!Next, Canonical!Publish, rowsOf

\* The row of a channel's day appears whole, alone, sound, and never changes: DailyStats
\* implements CanonicalRows.
THEOREM RowsCanonical == Spec => RowsAreCanonical
<1>1. Init => Canonical!Init /\ RowsSound
    BY DEF Init, Canonical!Init, RowsSound
<1>2. TypeOK /\ RowsSound /\ [Next]_vars => RowsSound' /\ [Canonical!Next]_rowsOf
    <2> SUFFICES ASSUME TypeOK, RowsSound, [Next]_vars PROVE RowsSound' /\ [Canonical!Next]_rowsOf
        OBVIOUS
    <2>1. CASE daily' = daily
        BY <2>1 DEF rowsOf, RowsSound
    <2>2. CASE \E w \in Workers, d \in Days : RowWritten(w, d)
        BY <2>2, WritePublishes
    <2> QED
        BY <2>1, <2>2, DailySteps
<1> QED
    BY <1>1, <1>2, TypeCorrect, PTL DEF Spec, RowsAreCanonical, Canonical!Spec, rowsOf

\* The delta of a row is that of its figure and the one on record for the day
\* before, which never changes afterwards.
THEOREM DeltasRight == Spec => []DeltasFromYesterday
<1>1. Init => DeltasFromYesterday
    BY DEF Init, DeltasFromYesterday
<1>2. TypeOK /\ DeltasFromYesterday /\ [Next]_vars => DeltasFromYesterday'
    <2> SUFFICES ASSUME TypeOK, DeltasFromYesterday, [Next]_vars,
                        NEW w \in Workers, NEW e \in Days, RowWritten(w, e)
                 PROVE  DeltasFromYesterday'
        BY DailySteps DEF DeltasFromYesterday
    <2> DEFINE b == pass[w].chan
               r == Frozen(pass[w], e)
    <2>1. /\ r \in DailyRow
          /\ r.delta # NULL =>
               /\ e > 0 /\ r.count # NULL
               /\ daily[b][e - 1] # NULL /\ daily[b][e - 1].count # NULL
               /\ r.delta = r.count - daily[b][e - 1].count
        BY FrozenRow DEF RowWritten
    <2> HIDE DEF r
    <2>2. b \in Channels /\ daily[b][e] = NULL /\ daily' = [daily EXCEPT ![b][e] = r]
        BY DEF RowWritten, r, TypeOK, PassUnderWay
    <2> HIDE DEF b
    <2> SUFFICES ASSUME NEW c \in Channels, NEW d \in Days,
                        daily'[c][d] # NULL, daily'[c][d].delta # NULL
                 PROVE  /\ d > 0
                        /\ daily'[c][d - 1] # NULL
                        /\ daily'[c][d].count # NULL /\ daily'[c][d - 1].count # NULL
                        /\ daily'[c][d].delta = daily'[c][d].count - daily'[c][d - 1].count
        BY DEF DeltasFromYesterday
    <2>3. d \in Int /\ e \in Int /\ d - 1 # d
        BY DaysAssumption DEF Days
    <2>4. CASE c = b /\ d = e
        <3>1. daily'[c][d] = r
            BY <2>2, <2>4 DEF TypeOK
        <3>2. daily'[c][d - 1] = daily[c][d - 1]
            BY <2>2, <2>3, <2>4 DEF TypeOK
        <3> QED
            BY <2>1, <2>4, <3>1, <3>2
    <2>5. CASE ~(c = b /\ d = e)
        <3>1. daily'[c][d] = daily[c][d]
            BY <2>2, <2>5 DEF TypeOK
        <3>2. /\ d > 0
              /\ daily[c][d - 1] # NULL
              /\ daily[c][d].count # NULL /\ daily[c][d - 1].count # NULL
              /\ daily[c][d].delta = daily[c][d].count - daily[c][d - 1].count
            BY <3>1 DEF DeltasFromYesterday
        <3>3. ~(c = b /\ d - 1 = e)
            BY <2>2, <3>2
        <3>4. daily'[c][d - 1] = daily[c][d - 1]
            BY <2>2, <3>3 DEF TypeOK
        <3> QED
            BY <3>1, <3>2, <3>4
    <2> QED
        BY <2>4, <2>5
<1> QED
    BY <1>1, <1>2, TypeCorrect, PTL DEF Spec

\* The figures the rows and the channels have are numbers where they are known.
LEMMA FiguresKnown ==
    ASSUME TypeOK
    PROVE  /\ \A c \in Channels : Exists(c) => channel[c].current.count \in Int \cup {NULL}
           /\ \A c \in Channels, d \in Days :
                daily[c][d] = NULL \/ daily[c][d].count \in Int \cup {NULL}
<1>1. \A x \in Figure : x \in Int \cup {NULL}
    BY DailyStatsAssumption DEF Figure
<1>2. ASSUME NEW c \in Channels, Exists(c)
      PROVE  channel[c].current.count \in Int \cup {NULL}
    <2>1. channel[c].current \in Current
        BY <1>2 DEF TypeOK, Exists, Row
    <2>2. channel[c].current.count \in Figure
        BY <2>1 DEF Current, NoCurrent, Figure
    <2> QED
        BY <1>1, <2>2
<1>3. ASSUME NEW c \in Channels, NEW d \in Days, daily[c][d] # NULL
      PROVE  daily[c][d].count \in Int \cup {NULL}
    <2>1. daily[c][d] \in DailyRow
        BY <1>3 DEF TypeOK
    <2> QED
        BY <1>1, <2>1 DEF DailyRow
<1> QED
    BY <1>2, <1>3

\* The tables the dashboard reads of the worker's, for a selection of channels on a day
\* (DashboardService.trends): the current figure of a channel with the day it was scanned, and
\* its daily rows. Whether the number of its videos is known too, which a whole row or figure
\* needs, may be so of any: counted[c] are the days of such rows, and countedNow the channels
\* of such figures.
Panel == INSTANCE Dashboard WITH RpmUnit <- 1

TrendTables(shown, today, counted, countedNow) ==
    [shown |-> shown, today |-> today,
     row |-> [c \in Channels |-> [d \in Days |->
        IF daily[c][d] = NULL THEN NULL
        ELSE [count |-> daily[c][d].count, delta |-> daily[c][d].delta,
              whole |-> daily[c][d].count # NULL /\ d \in counted[c]]]],
     current |-> [c \in shown |->
        [figure |-> channel[c].current.count,
         whole |-> channel[c].current.count # NULL /\ c \in countedNow,
         day |-> IF channel[c].current.scannedAt = NULL THEN NULL
                 ELSE Day(channel[c].current.scannedAt)]]]

\* In every state of the worker, for every selection of channels and every period, these are
\* tables whose totals are those of their days (the hypothesis of TrendsAlwaysAddUp).
TrendsHaveTheirTables ==
    \A shown \in SUBSET {c \in Channels : Exists(c)}, baseline \in Days, today \in Days,
       counted \in [Channels -> SUBSET Days], countedNow \in SUBSET Channels :
        baseline < today =>
            Panel!TrendData(TrendTables(shown, today, counted, countedNow), baseline)

\* Whatever collections and rows failed, whatever restarted and whichever worker wrote a row,
\* the dashboard's period and its days are computed from tables on which they agree.
THEOREM RowsFeedTrends ==
    ASSUME Panel!FigureAssumption
    PROVE  Spec => []TrendsHaveTheirTables
<1>1. TypeOK /\ DeltasFromYesterday => TrendsHaveTheirTables
    <2> SUFFICES ASSUME TypeOK, DeltasFromYesterday,
                        NEW shown \in SUBSET {c \in Channels : Exists(c)},
                        NEW baseline \in Days, NEW today \in Days, baseline < today,
                        NEW counted \in [Channels -> SUBSET Days],
                        NEW countedNow \in SUBSET Channels
                 PROVE  Panel!TrendData(TrendTables(shown, today, counted, countedNow), baseline)
        BY DEF TrendsHaveTheirTables
    <2> DEFINE t == TrendTables(shown, today, counted, countedNow)
               Told(c, d) == [count |-> daily[c][d].count, delta |-> daily[c][d].delta,
                              whole |-> daily[c][d].count # NULL /\ d \in counted[c]]
    <2>1. /\ t.shown = shown /\ t.today = today
          /\ \A c \in Channels, d \in Days :
                t.row[c][d] = IF daily[c][d] = NULL THEN NULL ELSE Told(c, d)
          /\ \A c \in shown :
                /\ t.current[c].figure = channel[c].current.count
                /\ t.current[c].whole => t.current[c].figure # NULL
        BY DEF TrendTables
    <2>2. IsFiniteSet(shown) /\ \A c \in shown : c \in Channels /\ Exists(c)
        <3>1. IsFiniteSet(Channels)
            BY FS_Interval, DailyStatsAssumption DEF Channels
        <3>2. shown \in SUBSET Channels /\ \A c \in shown : c \in Channels /\ Exists(c)
            OBVIOUS
        <3> QED
            BY <3>1, <3>2, FS_Subset
    <2>3. /\ baseline \in Int /\ today \in Int
          /\ \A d \in baseline..today : d \in Days
          /\ \A d \in baseline + 1..today : d \in Days /\ d - 1 \in Days /\ d \in Int
        <3>1. /\ MaxTime \in Int /\ baseline \in Int /\ 0 <= baseline
              /\ today \in Int /\ today <= MaxTime
            BY DaysAssumption DEF Days
        <3>2. ASSUME NEW d \in Int, baseline <= d, d <= today PROVE d \in Days
            BY <3>1, <3>2 DEF Days
        <3> QED
            BY <3>1, <3>2
    <2> HIDE DEF t
    <2>4. \A c \in shown : Panel!Figure(t.current[c].figure)
        BY <2>1, <2>2, FiguresKnown DEF Panel!Figure
    <2>5. ASSUME NEW c \in shown, NEW d \in Days, daily[c][d] # NULL
           PROVE  /\ Told(c, d) # NULL
                  /\ Told(c, d).count = daily[c][d].count /\ Told(c, d).delta = daily[c][d].delta
                  /\ Told(c, d).whole => daily[c][d].count # NULL
        <3>1. daily[c][d] \in DailyRow
            BY <2>2, <2>5 DEF TypeOK
        <3>2. daily[c][d].count \in Int \cup {NULL} /\ daily[c][d].delta \in Int \cup {NULL}
            BY <2>2, <2>5, <3>1, FiguresKnown DEF DailyRow
        <3>3. \A x, y \in Int \cup {NULL}, b \in BOOLEAN :
                 [count |-> x, delta |-> y, whole |-> b] # NULL
            BY DEF Panel!FigureAssumption
        <3>4. (daily[c][d].count # NULL /\ d \in counted[c]) \in BOOLEAN
            OBVIOUS
        <3> QED
            BY <3>2, <3>3, <3>4, Zenon
    <2> HIDE DEF Told
    <2>6. \A c \in shown, d \in Days :
             /\ Panel!CountOn(t, c, d) = IF daily[c][d] = NULL THEN NULL ELSE daily[c][d].count
             /\ Panel!StoredDelta(t, c, d) = IF daily[c][d] = NULL THEN NULL ELSE daily[c][d].delta
        BY <2>1, <2>2, <2>5 DEF Panel!CountOn, Panel!StoredDelta
    <2>7. \A c \in shown, d \in baseline..today :
              Panel!WholeOn(t, c, d) => Panel!CountOn(t, c, d) # NULL
        BY <2>1, <2>2, <2>3, <2>5 DEF Panel!WholeOn, Panel!CountOn
    <2>8. \A c \in shown, d \in Days : Panel!Figure(Panel!CountOn(t, c, d))
        BY <2>2, <2>6, FiguresKnown DEF Panel!Figure
    <2>9. ASSUME NEW c \in shown, NEW d \in baseline + 1..today, Panel!StoredDelta(t, c, d) # NULL
          PROVE  /\ Panel!CountOn(t, c, d) # NULL /\ Panel!CountOn(t, c, d - 1) # NULL
                 /\ Panel!StoredDelta(t, c, d)
                      = Panel!CountOn(t, c, d) - Panel!CountOn(t, c, d - 1)
        <3>1. d \in Days /\ d - 1 \in Days
            BY <2>3
        <3>2. daily[c][d] # NULL /\ daily[c][d].delta # NULL
            BY <2>6, <2>9, <3>1
        <3>3. /\ daily[c][d - 1] # NULL
              /\ daily[c][d].count # NULL /\ daily[c][d - 1].count # NULL
              /\ daily[c][d].delta = daily[c][d].count - daily[c][d - 1].count
            BY <2>2, <3>1, <3>2 DEF DeltasFromYesterday
        <3> QED
            BY <2>6, <3>1, <3>2, <3>3
    <2>10. \A c \in shown, d \in baseline..today : Panel!Figure(Panel!CountOn(t, c, d))
        BY <2>3, <2>8
    <2>11. Panel!IsFiniteSet(shown)
        BY <2>2 DEF IsFiniteSet, Panel!IsFiniteSet
    <2>12. Panel!TrendData(t, baseline)
        BY <2>1, <2>3, <2>4, <2>9, <2>10, <2>11, <2>7 DEF Panel!TrendData
    <2> QED
        BY <2>12 DEF t
<1> QED
    BY <1>1, TypeCorrect, DeltasRight, PTL

----------------------------------------------------------------------------
\* How a pass goes on, and how channels change.

\* What every loop of a pass leaves alone.
Kept(q, r) ==
    /\ r.kind = q.kind /\ r.since = q.since
    /\ r.succeeded = q.succeeded /\ r.listed = q.listed /\ r.failed = q.failed

\* The loop that collects ends a pass, or relists for a daily one.
LEMMA CollectOnKeeps ==
    ASSUME now \in Times, NEW q, Running(q)
    PROVE  \/ CollectOn(q) = IdlePass /\ q.kind # "daily"
           \/ /\ Kept(q, CollectOn(q))
              /\ CollectOn(q).pending = q.pending
              /\ CollectOn(q).phase \in {"collecting", "relisting"}
              /\ CollectOn(q).phase = "relisting" => q.kind = "daily"
<1>1. CASE q.todo # {}
    BY <1>1, AwaitOK DEF CollectOn, Kept
<1>2. CASE q.todo = {} /\ q.kind = "daily"
    <2>1. CollectOn(q) = [q EXCEPT !.phase = "relisting", !.chan = NULL, !.at = NULL]
        BY <1>2 DEF CollectOn
    <2> QED
        BY <1>2, <2>1 DEF Running, PassState, Kept
<1>3. CASE q.todo = {} /\ q.kind # "daily"
    BY <1>3 DEF CollectOn
<1> QED
    BY <1>1, <1>2, <1>3

\* The loop that looks for rows ends a daily pass only when nothing is pending.
LEMMA CheckOnKeeps ==
    ASSUME now \in Times, NEW q, Running(q)
    PROVE  \/ /\ CheckOn(q) = IdlePass
              /\ q.kind = "daily" => q.todo = {} /\ q.pending = {}
           \/ /\ Kept(q, CheckOn(q))
              /\ CheckOn(q).pending = q.pending
              /\ CheckOn(q).phase = "checking"
              /\ q.todo \subseteq CheckOn(q).todo \cup {CheckOn(q).chan}
           \/ /\ Kept(q, CheckOn(q))
              /\ CheckOn(q).pending = q.pending
              /\ CheckOn(q).phase \in {"collecting", "relisting"}
              /\ q.todo = {}
<1>1. CASE q.todo # {}
    BY <1>1, AwaitOK DEF CheckOn, Kept
<1>2. CASE q.todo = {} /\ q.pending # {}
    <2> DEFINE r == [q EXCEPT !.todo = q.pending]
    <2>1. CheckOn(q) = CollectOn(r)
        BY <1>2 DEF CheckOn
    <2>2. Running(r) /\ Kept(q, r) /\ r.pending = q.pending
        BY DEF Running, PassState, Kept
    <2> HIDE DEF r
    <2>3. \/ CollectOn(r) = IdlePass /\ r.kind # "daily"
          \/ /\ Kept(r, CollectOn(r)) /\ CollectOn(r).pending = r.pending
             /\ CollectOn(r).phase \in {"collecting", "relisting"}
        BY <2>2, CollectOnKeeps
    <2> QED
        BY <1>2, <2>1, <2>2, <2>3 DEF Kept
<1>3. CASE q.todo = {} /\ q.pending = {}
    BY <1>3 DEF CheckOn
<1> QED
    BY <1>1, <1>2, <1>3

\* The loop that writes rows ends when none is left.
LEMMA WriteOnKeeps ==
    ASSUME now \in Times, NEW q, Running(q), \A c \in q.todo : q.listed[c] # NULL
    PROVE  \/ WriteOn(q) = IdlePass /\ q.todo = {}
           \/ /\ Kept(q, WriteOn(q))
              /\ WriteOn(q).phase = "writing"
              /\ q.todo \subseteq WriteOn(q).todo \cup {WriteOn(q).chan}
<1>1. CASE q.todo # {}
    BY <1>1, AwaitOK DEF WriteOn, Kept
<1>2. CASE q.todo = {}
    BY <1>2 DEF WriteOn
<1> QED
    BY <1>1, <1>2

\* What a step may do to the channels: none goes away or comes back into use, and
\* figures that change are stored now.
ChannelMove ==
    \A c \in Channels :
        /\ Exists(c) =>
             /\ channel'[c] # NULL
             /\ channel'[c].createdAt = channel[c].createdAt
             /\ channel'[c].enabled => channel[c].enabled
             /\ \/ channel'[c].current = channel[c].current
                \/ channel'[c].current.storedAt = now
        /\ ~Exists(c) => channel'[c] = NULL \/ channel'[c].createdAt = now

\* Every step does no more than that to the channels.
LEMMA ChannelSteps ==
    ASSUME TypeOK, [Next]_vars
    PROVE  ChannelMove
<1>0. NULL \notin Row
    BY DailyNullAssumption
<1>1. CASE channel' = channel
    BY <1>1 DEF ChannelMove, Exists
<1>2. ASSUME NEW c \in Channels, CreateChannel(c)
      PROVE  ChannelMove
    BY <1>2 DEF CreateChannel, TypeOK, ChannelMove, Exists
<1>3. ASSUME NEW c \in Channels, NEW r, channel[c] \in Row, r \in Row,
             channel' = [channel EXCEPT ![c] = r],
             r.createdAt = channel[c].createdAt, r.enabled => channel[c].enabled,
             r.current = channel[c].current \/ r.current.storedAt = now
      PROVE  ChannelMove
    BY <1>0, <1>3 DEF TypeOK, ChannelMove, Exists
<1>4. ASSUME NEW c \in Channels, ArchiveChannel(c)
      PROVE  ChannelMove
    <2> DEFINE r == [channel[c] EXCEPT !.enabled = FALSE]
    <2>1. channel[c] \in Row
        BY <1>4 DEF TypeOK, ArchiveChannel, Exists
    <2>2. /\ r \in Row /\ ~r.enabled
          /\ r.createdAt = channel[c].createdAt /\ r.current = channel[c].current
        BY <2>1 DEF Row
    <2>3. channel' = [channel EXCEPT ![c] = r]
        BY <1>4 DEF ArchiveChannel
    <2> HIDE DEF r
    <2> QED
        BY <1>3, <2>1, <2>2, <2>3
<1>5. ASSUME NEW w \in Workers, CollectSucceeds(w)
      PROVE  ChannelMove
    <2> DEFINE c == pass[w].chan
    <2>1. PICK v \in Figure :
            channel' = [channel EXCEPT ![c].current =
                          [count |-> v, scannedAt |-> pass[w].at, storedAt |-> now]]
        BY <1>5 DEF CollectSucceeds
    <2> DEFINE x == [count |-> v, scannedAt |-> pass[w].at, storedAt |-> now]
               r == [channel[c] EXCEPT !.current = x]
    <2>2. c \in Channels /\ channel[c] \in Row
        BY <1>5 DEF CollectSucceeds, TypeOK, PassUnderWay, Exists
    <2>3. x \in Current /\ x.storedAt = now
        <3>1. pass[w].phase = "collecting"
            BY <1>5 DEF CollectSucceeds
        <3>2. now \in Times /\ PassUnderWay(pass[w], now, {b \in Channels : Exists(b)})
            BY DEF TypeOK
        <3>3. pass[w].since \in StartTime..now /\ pass[w].at \in pass[w].since..now
            BY <3>1, <3>2 DEF PassUnderWay
        <3>4. pass[w].at \in Times
            BY <3>2, <3>3, DaysAssumption DEF Times
        <3> QED
            BY <3>2, <3>4 DEF Current
    <2>4. channel' = [channel EXCEPT ![c] = r]
        BY <2>1
    <2> HIDE DEF x
    <2>5. /\ r \in Row /\ r.enabled = channel[c].enabled
          /\ r.createdAt = channel[c].createdAt /\ r.current = x
        BY <2>2, <2>3 DEF Row
    <2> HIDE DEF r
    <2> QED
        BY <1>3, <2>2, <2>3, <2>4, <2>5
<1>6. CASE UNCHANGED vars \/ Tick
    BY <1>1, <1>6 DEF vars, tables, Tick
<1>7. ASSUME NEW w \in Workers, Timer(w) \/ PassStep(w) \/ Restart(w), ~CollectSucceeds(w)
      PROVE  channel' = channel
    BY <1>7 DEF Timer, RunInitialStatsOnce, RunScheduledStatsOnce, RunDailyIfDue, StartPass,
                PassStep, PassFails, ListUninitialized, ListScheduled, ListDaily, Check,
                CollectPartial, Relist, WriteRow, WriteFails, Restart, tables
<1> QED
    BY <1>1, <1>2, <1>4, <1>5, <1>6, <1>7 DEF Next, ApiStep

----------------------------------------------------------------------------
\* Fresh figures.

\* A channel a pass has collected has figures stored since the pass began, and so
\* are those the pass has listed for it.
FreshPass(q, ch) ==
    q.phase # "idle" => \A c \in q.succeeded :
        /\ ch[c] # NULL
        /\ ch[c].current.storedAt \in Int /\ ch[c].current.storedAt >= q.since
        /\ q.phase = "writing" /\ q.listed[c] # NULL =>
             q.listed[c].storedAt \in Int /\ q.listed[c].storedAt >= q.since

FreshInv == \A w \in Workers : FreshPass(pass[w], channel)

\* An idle pass has collected nothing.
LEMMA FreshIdle == ASSUME NEW ch PROVE FreshPass(IdlePass, ch)
BY DEF FreshPass, IdlePass

\* It stays so when figures are stored anew.
LEMMA FreshLater ==
    ASSUME ChannelMove, now \in Int, NEW q \in PassState,
           q.phase # "idle" => q.since \in StartTime..now,
           FreshPass(q, channel)
    PROVE  FreshPass(q, channel')
<1> SUFFICES ASSUME q.phase # "idle", NEW c \in q.succeeded
             PROVE  /\ channel'[c] # NULL
                    /\ channel'[c].current.storedAt \in Int
                    /\ channel'[c].current.storedAt >= q.since
    BY DEF FreshPass
<1>1. c \in Channels
    BY DEF PassState
<1>2. q.since \in Int /\ q.since <= now
    BY DaysAssumption
<1> QED
    BY <1>1, <1>2 DEF FreshPass, ChannelMove, Exists

\* A loop that goes on lists nothing new.
LEMMA FreshKept ==
    ASSUME NEW q, NEW r, NEW ch, FreshPass(q, ch), Kept(q, r), q.phase # "idle",
           r.phase = "writing" => q.phase = "writing"
    PROVE  FreshPass(r, ch)
BY DEF FreshPass, Kept

\* The steps of a pass keep what it collected fresh.
LEMMA FreshSteps ==
    ASSUME TypeOK, FreshInv, NEW w \in Workers, PassStep(w)
    PROVE  FreshPass(pass'[w], channel')
<1> DEFINE q == pass[w]
<1>0. now \in Times /\ now \in Int
    BY DaysAssumption DEF TypeOK, Times
<1>1. CASE PassFails(w)
    BY <1>1, FreshIdle DEF PassFails, TypeOK
<1>2. /\ Running(q) /\ q \in PassState /\ q.since \in StartTime..now
      /\ q.phase # "idle"
    BY UnderWayRuns
       DEF PassStep, PassFails, ListUninitialized, ListScheduled, ListDaily, Check,
           CollectSucceeds, CollectPartial, Relist, WriteRow, WriteFails, Running
<1>3. ChannelMove
    BY ChannelSteps DEF Next
<1>4. FreshPass(q, channel) /\ FreshPass(q, channel')
    BY <1>0, <1>2, <1>3, FreshLater DEF FreshInv
<1>5. ASSUME NEW S, S \subseteq There
      PROVE  /\ FreshPass(CollectOn([q EXCEPT !.todo = S]), channel')
             /\ FreshPass(CheckOn([q EXCEPT !.todo = S]), channel')
    <2> DEFINE r == [q EXCEPT !.todo = S]
    <2>1. Running(r) /\ Kept(q, r) /\ r.phase = q.phase /\ r.phase # "idle"
        BY <1>2, <1>5, RunningTodo DEF PassState, Kept
    <2> HIDE DEF r
    <2>2. FreshPass(r, channel')
        BY <1>4, <2>1, FreshKept
    <2>3. FreshPass(CollectOn(r), channel')
        BY <1>0, <2>1, <2>2, FreshIdle, FreshKept, CollectOnKeeps
    <2>4. FreshPass(CheckOn(r), channel')
        BY <1>0, <2>1, <2>2, FreshIdle, FreshKept, CheckOnKeeps
    <2> QED
        BY <2>3, <2>4 DEF r
<1>6. CASE ListUninitialized(w) \/ ListScheduled(w) \/ ListDaily(w)
    <2>1. Enabled \subseteq There /\ Uninitialized(w) \subseteq There
        BY DEF Enabled, There, Uninitialized
    <2>2. \/ \E S : S \subseteq There /\ pass'[w] = CollectOn([q EXCEPT !.todo = S])
          \/ \E S : S \subseteq There /\ pass'[w] = CheckOn([q EXCEPT !.todo = S])
        BY <1>6, <2>1 DEF ListUninitialized, ListScheduled, ListDaily, TypeOK
    <2> QED
        BY <1>5, <2>2
<1>7. CASE CollectPartial(w)
    <2>1. pass'[w] = CollectOn(q)
        BY <1>7 DEF CollectPartial, TypeOK
    <2> QED
        BY <1>0, <1>2, <1>4, <2>1, FreshIdle, FreshKept, CollectOnKeeps
<1>8. CASE CollectSucceeds(w)
    <2> DEFINE c == q.chan
               r == [q EXCEPT !.succeeded = IF q.kind = "daily" THEN @ \cup {c} ELSE @]
    <2>1. pass'[w] = CollectOn(r)
        BY <1>8 DEF CollectSucceeds, TypeOK
    <2>2. c \in Channels /\ channel[c] \in Row /\ q.phase = "collecting"
        BY <1>8 DEF CollectSucceeds, TypeOK, PassUnderWay, Exists
    <2>3. /\ Running(r) /\ r.since = q.since /\ r.phase = "collecting"
          /\ r.succeeded \subseteq q.succeeded \cup {c}
        BY <1>2, <2>2 DEF Running, PassState
    <2>4. channel'[c].current.storedAt = now /\ channel'[c] # NULL
        <3>1. channel'[c] # NULL
            BY <1>3, <2>2, DailyNullAssumption DEF ChannelMove, Exists
        <3>2. PICK v \in Figure :
                channel' = [channel EXCEPT ![c].current =
                              [count |-> v, scannedAt |-> q.at, storedAt |-> now]]
            BY <1>8 DEF CollectSucceeds
        <3> DEFINE x == [count |-> v, scannedAt |-> q.at, storedAt |-> now]
        <3>3. x.storedAt = now
            OBVIOUS
        <3>4. channel' = [channel EXCEPT ![c] = [channel[c] EXCEPT !.current = x]]
            BY <3>2
        <3> HIDE DEF x
        <3>5. channel'[c].current = x
            BY <2>2, <3>4 DEF TypeOK, Row
        <3> QED
            BY <3>1, <3>3, <3>5
    <2>5. FreshPass(r, channel')
        <3>1. q.since \in Int /\ now >= q.since
            BY <1>0, <1>2, DaysAssumption
        <3> QED
            BY <1>0, <1>4, <2>3, <2>4, <3>1 DEF FreshPass
    <2> HIDE DEF r
    <2> QED
        BY <1>0, <2>1, <2>3, <2>5, FreshIdle, FreshKept, CollectOnKeeps
<1>9. CASE Check(w)
    <2> DEFINE r == [q EXCEPT !.pending = IF NeedsFinalization(q) THEN @ \cup {q.chan} ELSE @]
    <2>1. pass'[w] = CheckOn(r)
        BY <1>9 DEF Check, TypeOK
    <2>2. q.chan \in There /\ q.phase = "checking"
        BY <1>9 DEF Check, TypeOK, PassUnderWay, There
    <2>3. Running(r) /\ Kept(q, r) /\ r.phase = "checking"
        BY <1>2, <2>2 DEF Running, PassState, Kept, There
    <2> HIDE DEF r
    <2>4. FreshPass(r, channel')
        BY <1>2, <1>4, <2>3, FreshKept
    <2>5. \/ CheckOn(r) = IdlePass
          \/ Kept(r, CheckOn(r)) /\ CheckOn(r).phase # "writing"
        BY <1>0, <2>3, CheckOnKeeps
    <2> QED
        BY <2>1, <2>3, <2>4, <2>5, FreshIdle, FreshKept
<1>10. ASSUME NEW r, Running(r), \A c \in r.todo : r.listed[c] # NULL,
              r.phase = "writing", FreshPass(r, channel')
       PROVE  FreshPass(WriteOn(r), channel')
    BY <1>0, <1>10, FreshIdle, FreshKept, WriteOnKeeps
<1>11. CASE WriteRow(w) \/ WriteFails(w)
    <2> DEFINE r == [q EXCEPT !.failed = TRUE]
    <2>1. q.phase = "writing" /\ \A c \in q.todo : q.listed[c] # NULL
        BY <1>11 DEF WriteRow, WriteFails, TypeOK, PassUnderWay
    <2>2. Running(r) /\ r.phase = "writing" /\ \A c \in r.todo : r.listed[c] # NULL
        BY <1>2, <2>1 DEF Running, PassState
    <2>3. FreshPass(r, channel')
        BY <1>2, <1>4 DEF FreshPass, PassState
    <2>4. pass'[w] = WriteOn(q) \/ pass'[w] = WriteOn(r)
        BY <1>11 DEF WriteRow, WriteFails, TypeOK
    <2> HIDE DEF r
    <2> QED
        BY <1>2, <1>4, <1>10, <2>1, <2>2, <2>3, <2>4
<1>12. CASE Relist(w)
    <2> DEFINE r == Relisted(q)
    <2>1. pass'[w] = WriteOn(r) /\ channel' = channel
        BY <1>12 DEF Relist, Relisted, TypeOK, tables
    <2>2. /\ Running(r) /\ \A c \in r.todo : r.listed[c] # NULL
          /\ r.since = q.since /\ r.succeeded = q.succeeded
          /\ \A c \in Channels : r.listed[c] # NULL => r.listed[c] = channel[c].current
        BY <1>2, RelistRuns
    <2> HIDE DEF r
    <2>3. ASSUME NEW c \in r.succeeded, r.listed[c] # NULL
          PROVE  r.listed[c].storedAt \in Int /\ r.listed[c].storedAt >= r.since
        <3>1. c \in Channels
            BY <1>2, <2>2 DEF PassState
        <3> QED
            BY <1>2, <1>4, <2>2, <2>3, <3>1 DEF FreshPass
    <2>4. CASE WriteOn(r) = IdlePass
        BY <2>1, <2>4, FreshIdle
    <2>5. CASE Kept(r, WriteOn(r))
        BY <1>2, <1>4, <2>1, <2>2, <2>3, <2>5 DEF FreshPass, Kept
    <2> QED
        BY <1>0, <2>2, <2>4, <2>5, WriteOnKeeps
<1> QED
    BY <1>1, <1>6, <1>7, <1>8, <1>9, <1>11, <1>12 DEF PassStep

\* So does every step.
LEMMA FreshNext ==
    ASSUME TypeOK, FreshInv, [Next]_vars
    PROVE  FreshInv'
<1> SUFFICES ASSUME NEW w \in Workers PROVE FreshPass(pass'[w], channel')
    BY DEF FreshInv
<1>0. ChannelMove /\ now \in Int
    BY ChannelSteps, DaysAssumption DEF TypeOK, Times
<1>1. CASE pass'[w] = pass[w]
    BY <1>0, <1>1, FreshLater DEF FreshInv, TypeOK, PassUnderWay
<1>2. CASE PassStep(w)
    BY <1>2, FreshSteps
<1>3. CASE Restart(w)
    BY <1>3, FreshIdle DEF Restart, TypeOK
<1>4. CASE Timer(w)
    <2>1. PICK kind : StartPass(w, kind)
        BY <1>4, Zenon DEF Timer, RunInitialStatsOnce, RunScheduledStatsOnce, RunDailyIfDue
    <2>2. pass'[w] = [IdlePass EXCEPT !.phase = "listing", !.kind = kind, !.since = now]
        BY <2>1 DEF StartPass, TypeOK
    <2>3. pass'[w].succeeded = {}
        BY <2>2 DEF IdlePass
    <2> QED
        BY <2>3 DEF FreshPass
<1>5. CASE UNCHANGED vars \/ Tick \/ ApiStep
    BY <1>1, <1>5 DEF vars, Tick, ApiStep, CreateChannel, ArchiveChannel
<1>6. ASSUME NEW v \in Workers, v # w, Timer(v) \/ PassStep(v) \/ Restart(v)
      PROVE  pass'[w] = pass[w]
    BY <1>6 DEF Timer, RunInitialStatsOnce, RunScheduledStatsOnce, RunDailyIfDue, StartPass,
                PassStep, PassFails, ListUninitialized, ListScheduled, ListDaily, Check,
                CollectSucceeds, CollectPartial, Relist, WriteRow, WriteFails, Restart, TypeOK
<1> QED
    BY <1>1, <1>2, <1>3, <1>4, <1>5, <1>6 DEF Next

\* Figures are frozen only if they were stored while the pass that freezes them
\* was under way: a channel whose collection failed gets a row without figures.
THEOREM OnlyFreshFigures == Spec => FreezesFreshFigures
<1> DEFINE Good == \A c \in Channels, d \in Days :
                     daily[c][d] = NULL /\ daily'[c][d] # NULL /\ daily'[c][d].count # NULL =>
                       \E w \in Workers :
                           /\ pass[w].phase = "writing"
                           /\ pass[w].chan = c
                           /\ pass[w].listed[c].count = daily'[c][d].count
                           /\ pass[w].listed[c].storedAt >= pass[w].since
<1>1. Init => FreshInv
    BY FreshIdle DEF Init, FreshInv
<1>2. TypeOK /\ FreshInv /\ [Next]_vars => FreshInv'
    BY FreshNext
<1>3. TypeOK /\ FreshInv /\ [Next]_vars => [Good]_vars
    <2> SUFFICES ASSUME TypeOK, FreshInv, [Next]_vars, NEW c \in Channels, NEW d \in Days,
                        daily[c][d] = NULL, daily'[c][d] # NULL, daily'[c][d].count # NULL
                 PROVE  \E w \in Workers :
                           /\ pass[w].phase = "writing"
                           /\ pass[w].chan = c
                           /\ pass[w].listed[c].count = daily'[c][d].count
                           /\ pass[w].listed[c].storedAt >= pass[w].since
        OBVIOUS
    <2>1. PICK w \in Workers, e \in Days : RowWritten(w, e)
        BY DailySteps
    <2>2. pass[w].chan \in Channels /\ pass[w].listed[pass[w].chan] # NULL
        BY <2>1 DEF RowWritten, TypeOK, PassUnderWay
    <2>3. pass[w].chan = c /\ d = e /\ daily'[c][d] = Frozen(pass[w], d)
        BY <2>1, <2>2 DEF RowWritten, TypeOK
    <2>4. c \in pass[w].succeeded /\ daily'[c][d].count = pass[w].listed[c].count
        BY <2>1, <2>3, FrozenRow DEF RowWritten
    <2> QED
        BY <2>1, <2>2, <2>3, <2>4 DEF FreshInv, FreshPass, RowWritten
<1> HIDE DEF Good
<1>4. [][Good]_vars => FreezesFreshFigures
    BY DEF Good, FreezesFreshFigures
<1> QED
    BY <1>1, <1>2, <1>3, <1>4, TypeCorrect, PTL DEF Spec

----------------------------------------------------------------------------
\* A day that is done.

\* The channels a pass that began at t owes a row, and those that have one.
Wanted(ch, t) == {c \in Channels : ch[c] # NULL /\ ch[c].enabled /\ ch[c].createdAt < t}
WithRow(rows, d) == {c \in Channels : rows[c][d] # NULL}

\* No wanted channel without a row is out of the pass's sight.
InSight(q, W, R) ==
    /\ q.phase = "checking" => W \subseteq q.todo \cup {q.chan} \cup q.pending \cup R
    /\ q.phase \in {"collecting", "relisting"} => W \subseteq q.pending \cup R
    /\ q.phase = "writing" /\ ~q.failed => W \subseteq q.todo \cup {q.chan} \cup R

KindOK(q) == q.phase \in {"checking", "relisting", "writing"} => q.kind = "daily"

DonePass(q, ch, rows, t) ==
    /\ KindOK(q)
    /\ q.phase # "idle" /\ q.kind = "daily" /\ Day(t) = Day(q.since) =>
         InSight(q, Wanted(ch, q.since), WithRow(rows, Day(t)))

DoneInv == \A w \in Workers : DonePass(pass[w], channel, daily, now)

\* An idle pass owes nothing.
LEMMA DoneIdle ==
    ASSUME NEW W, NEW R
    PROVE  IdlePass.phase = "idle" /\ InSight(IdlePass, W, R) /\ KindOK(IdlePass)
BY DEF InSight, KindOK, IdlePass

\* The loops lose sight of no channel.
LEMMA CollectOnSees ==
    ASSUME now \in Times, NEW q, Running(q), NEW W, NEW R, W \subseteq q.pending \cup R
    PROVE  InSight(CollectOn(q), W, R)
<1>1. CASE CollectOn(q) = IdlePass
    BY <1>1, DoneIdle
<1>2. CASE CollectOn(q).pending = q.pending /\ CollectOn(q).phase \in {"collecting", "relisting"}
    BY <1>2 DEF InSight
<1> QED
    BY <1>1, <1>2, CollectOnKeeps

\* A daily pass that ends there owes nothing.
LEMMA CheckOnSees ==
    ASSUME now \in Times, NEW q, Running(q), q.kind = "daily", NEW W, NEW R,
           W \subseteq q.todo \cup q.pending \cup R
    PROVE  /\ InSight(CheckOn(q), W, R)
           /\ CheckOn(q) = IdlePass => W \subseteq R
<1> DEFINE r == CheckOn(q)
<1>0. IdlePass.phase = "idle"
    BY DoneIdle
<1>1. CASE r = IdlePass /\ q.todo = {} /\ q.pending = {}
    BY <1>1, DoneIdle
<1>2. CASE /\ r.pending = q.pending /\ r.phase = "checking"
           /\ q.todo \subseteq r.todo \cup {r.chan}
    BY <1>0, <1>2 DEF InSight
<1>3. CASE /\ r.pending = q.pending /\ r.phase \in {"collecting", "relisting"}
           /\ q.todo = {}
    BY <1>0, <1>3 DEF InSight
<1> HIDE DEF r
<1> QED
    BY <1>1, <1>2, <1>3, CheckOnKeeps DEF r

\* A daily pass that ends there without a failure owes nothing.
LEMMA WriteOnSees ==
    ASSUME now \in Times, NEW q, Running(q), \A c \in q.todo : q.listed[c] # NULL,
           NEW W, NEW R, ~q.failed => W \subseteq q.todo \cup R
    PROVE  /\ InSight(WriteOn(q), W, R)
           /\ WriteOn(q) = IdlePass /\ ~q.failed => W \subseteq R
<1> DEFINE r == WriteOn(q)
<1>0. IdlePass.phase = "idle"
    BY DoneIdle
<1>1. CASE r = IdlePass /\ q.todo = {}
    BY <1>1, DoneIdle
<1>2. CASE /\ Kept(q, r) /\ r.phase = "writing"
           /\ q.todo \subseteq r.todo \cup {r.chan}
    BY <1>0, <1>2 DEF InSight, Kept
<1> HIDE DEF r
<1> QED
    BY <1>1, <1>2, WriteOnKeeps DEF r

\* Rows stand, channels do not come back into use, and a day that is over does
\* not return: what was in sight stays in sight.
LEMMA DoneLater ==
    ASSUME TypeOK, [Next]_vars, NEW q \in PassState, NEW t \in Times,
           now <= t, q.phase # "idle" => q.since \in StartTime..now,
           DonePass(q, channel, daily, now)
    PROVE  DonePass(q, channel', daily', t)
<1> SUFFICES ASSUME q.phase # "idle", q.kind = "daily", Day(t) = Day(q.since)
             PROVE  InSight(q, Wanted(channel', q.since), WithRow(daily', Day(t)))
    BY DEF DonePass
<1>1. now \in Times /\ now \in Int /\ q.since \in Times /\ q.since \in Int /\ q.since <= now
    BY DaysAssumption DEF TypeOK, Times
<1>2. Day(now) = Day(t) /\ Day(t) \in Days
    <2>1. Day(q.since) <= Day(now) /\ Day(now) <= Day(t)
        BY <1>1, DayMonotone
    <2>2. Day(now) \in Int /\ Day(t) \in Int /\ Day(t) \in Days
        BY <1>1, DayType
    <2> QED
        BY <2>1, <2>2
<1>3. WithRow(daily, Day(t)) \subseteq WithRow(daily', Day(t))
    <2>1. \A c \in Channels, d \in Days : daily[c][d] # NULL => daily'[c][d] # NULL
        <3>1. ASSUME NEW w \in Workers, NEW e \in Days, RowWritten(w, e),
                     NEW c \in Channels, NEW d \in Days, daily[c][d] # NULL
              PROVE  daily'[c][d] # NULL
            BY <3>1 DEF RowWritten, TypeOK
        <3> QED
            BY <3>1, DailySteps
    <2> QED
        BY <1>2, <2>1 DEF WithRow
<1>4. Wanted(channel', q.since) \subseteq Wanted(channel, q.since)
    <2> SUFFICES ASSUME NEW c \in Channels, channel'[c] # NULL, channel'[c].enabled,
                        channel'[c].createdAt < q.since
                 PROVE  c \in Wanted(channel, q.since)
        BY DEF Wanted
    <2>1. Exists(c)
        <3>1. SUFFICES ASSUME ~Exists(c) PROVE FALSE
            OBVIOUS
        <3>2. channel'[c].createdAt = now
            BY <3>1, ChannelSteps DEF ChannelMove
        <3> QED
            BY <1>1, <3>2
    <2>2. /\ channel'[c].createdAt = channel[c].createdAt
          /\ channel[c].enabled
        BY <2>1, ChannelSteps DEF ChannelMove
    <2> QED
        BY <2>1, <2>2 DEF Wanted, Exists
<1>5. InSight(q, Wanted(channel, q.since), WithRow(daily, Day(t)))
    BY <1>2 DEF DonePass
<1> QED
    BY <1>3, <1>4, <1>5 DEF InSight

\* What the steps of a pass have in common.
LEMMA PassStepFacts ==
    ASSUME TypeOK, NEW w \in Workers, PassStep(w)
    PROVE  /\ pass[w].phase # "idle" /\ Running(pass[w]) /\ pass[w] \in PassState
           /\ pass[w].since \in StartTime..now /\ now' = now
BY UnderWayRuns
   DEF PassStep, PassFails, ListUninitialized, ListScheduled, ListDaily, Check,
       CollectSucceeds, CollectPartial, Relist, WriteRow, WriteFails, Running, TypeOK

\* A pass is what it was, or over, after one of its steps.
LEMMA PassStepKind ==
    ASSUME TypeOK, NEW w \in Workers, PassStep(w), KindOK(pass[w])
    PROVE  \/ pass'[w] = IdlePass
           \/ /\ pass'[w].kind = pass[w].kind /\ pass'[w].since = pass[w].since
              /\ KindOK(pass'[w])
<1> DEFINE q == pass[w]
           OK(x) == \/ x = IdlePass
                    \/ x.kind = q.kind /\ x.since = q.since /\ KindOK(x)
<1>0. Running(q) /\ q \in PassState /\ now \in Times
    BY PassStepFacts DEF TypeOK
<1>1. ASSUME NEW x, Running(x), x.kind = q.kind, x.since = q.since
      PROVE  /\ OK(CollectOn(x))
             /\ q.kind = "daily" => OK(CheckOn(x))
             /\ q.kind = "daily" /\ (\A c \in x.todo : x.listed[c] # NULL) => OK(WriteOn(x))
    BY <1>0, <1>1, CollectOnKeeps, CheckOnKeeps, WriteOnKeeps DEF Kept, KindOK
<1>2. CASE PassFails(w)
    BY <1>2 DEF PassFails, TypeOK
<1>3. CASE ListUninitialized(w) \/ ListScheduled(w) \/ ListDaily(w)
    <2>1. Enabled \subseteq There /\ Uninitialized(w) \subseteq There
        BY DEF Enabled, There, Uninitialized
    <2>2. \E S : /\ S \subseteq There
                 /\ \/ pass'[w] = CollectOn([q EXCEPT !.todo = S])
                    \/ q.kind = "daily" /\ pass'[w] = CheckOn([q EXCEPT !.todo = S])
        BY <1>3, <2>1 DEF ListUninitialized, ListScheduled, ListDaily, TypeOK
    <2>3. \A S : S \subseteq There =>
            /\ Running([q EXCEPT !.todo = S])
            /\ [q EXCEPT !.todo = S].kind = q.kind /\ [q EXCEPT !.todo = S].since = q.since
        BY <1>0, RunningTodo DEF PassState
    <2> QED
        BY <1>1, <2>2, <2>3, ZenonT(40)
<1>4. CASE CollectPartial(w)
    BY <1>0, <1>1, <1>4 DEF CollectPartial, TypeOK
<1>5. CASE CollectSucceeds(w)
    <2> DEFINE r == [q EXCEPT !.succeeded = IF q.kind = "daily" THEN @ \cup {q.chan} ELSE @]
    <2>1. pass'[w] = CollectOn(r)
        BY <1>5 DEF CollectSucceeds, TypeOK
    <2>2. q.chan \in There
        BY <1>5 DEF CollectSucceeds, TypeOK, PassUnderWay, There
    <2>3. Running(r) /\ r.kind = q.kind /\ r.since = q.since
        BY <1>0, <2>2 DEF Running, PassState, There
    <2> HIDE DEF r
    <2> QED
        BY <1>1, <2>1, <2>3
<1>6. CASE Check(w)
    <2> DEFINE r == [q EXCEPT !.pending = IF NeedsFinalization(q) THEN @ \cup {q.chan} ELSE @]
    <2>1. pass'[w] = CheckOn(r) /\ q.kind = "daily"
        BY <1>6 DEF Check, TypeOK, KindOK
    <2>2. q.chan \in There
        BY <1>6 DEF Check, TypeOK, PassUnderWay, There
    <2>3. Running(r) /\ r.kind = q.kind /\ r.since = q.since
        BY <1>0, <2>2 DEF Running, PassState, There
    <2> HIDE DEF r
    <2> QED
        BY <1>1, <2>1, <2>3
<1>7. CASE WriteRow(w) \/ WriteFails(w)
    <2> DEFINE r == [q EXCEPT !.failed = TRUE]
    <2>1. (pass'[w] = WriteOn(q) \/ pass'[w] = WriteOn(r)) /\ q.kind = "daily"
        BY <1>7 DEF WriteRow, WriteFails, TypeOK, KindOK
    <2>2. \A c \in q.todo : q.listed[c] # NULL
        BY <1>7 DEF WriteRow, WriteFails, TypeOK, PassUnderWay
    <2>3. /\ Running(r) /\ r.kind = q.kind /\ r.since = q.since
          /\ \A c \in r.todo : r.listed[c] # NULL
        BY <1>0, <2>2 DEF Running, PassState
    <2> HIDE DEF r
    <2> QED
        BY <1>0, <1>1, <2>1, <2>2, <2>3
<1>8. CASE Relist(w)
    <2>1. pass'[w] = WriteOn(Relisted(q)) /\ q.kind = "daily"
        BY <1>8 DEF Relist, Relisted, TypeOK, KindOK
    <2> QED
        BY <1>0, <1>1, <2>1, RelistRuns
<1> QED
    BY <1>2, <1>3, <1>4, <1>5, <1>6, <1>7, <1>8 DEF PassStep

\* A step of a daily pass keeps what it owes in sight, and only a pass that owes
\* nothing is done.
LEMMA DoneSteps ==
    ASSUME TypeOK, DoneInv, NEW w \in Workers, PassStep(w),
           pass[w].kind = "daily", Day(now) = Day(pass[w].since)
    PROVE  LET W == Wanted(channel', pass[w].since)
               R == WithRow(daily', Day(now))
           IN  /\ InSight(pass'[w], W, R)
               /\ memory'[w].lastDailyDate # memory[w].lastDailyDate => W \subseteq R
<1> DEFINE q == pass[w]
           W == Wanted(channel', q.since)
           R == WithRow(daily', Day(now))
           Changed == memory'[w].lastDailyDate # memory[w].lastDailyDate
<1>0. /\ Running(q) /\ q \in PassState /\ q.phase # "idle" /\ now \in Times
      /\ q.since \in StartTime..now /\ now \in Int
    BY PassStepFacts, DaysAssumption DEF TypeOK, Times
<1>1. InSight(q, W, R)
    <2>1. DonePass(q, channel', daily', now)
        BY <1>0, DoneLater DEF DoneInv, Next
    <2> QED
        BY <1>0, <2>1 DEF DonePass
<1>2. q.phase \in {"checking", "collecting", "writing"} =>
        /\ q.chan \in Channels /\ q.chan \in There
        /\ Day(q.at) = Day(now) /\ Day(now) \in Days
    <2> SUFFICES ASSUME q.phase \in {"checking", "collecting", "writing"}
                 PROVE  /\ q.chan \in Channels /\ q.chan \in There
                        /\ Day(q.at) = Day(now) /\ Day(now) \in Days
        OBVIOUS
    <2>1. q.chan \in There /\ q.chan \in Channels /\ q.at \in q.since..now
        BY DEF TypeOK, PassUnderWay, There
    <2>2. q.at \in Times /\ q.since \in Times /\ q.since <= q.at /\ q.at <= now
        BY <1>0, <2>1, DaysAssumption DEF Times
    <2>3. Day(q.since) <= Day(q.at) /\ Day(q.at) <= Day(now)
        BY <1>0, <2>2, DayMonotone
    <2>4. Day(q.at) \in Int
        BY <2>2, DayType
    <2>5. now \in Times
        BY <1>0
    <2>6. Day(now) \in Int /\ Day(now) \in Days
        BY <2>5, DayType
    <2> QED
        BY <2>1, <2>3, <2>4, <2>6
<1> SUFFICES InSight(pass'[w], W, R) /\ (Changed => W \subseteq R)
    OBVIOUS
<1> HIDE DEF W, R
<1>3. CASE PassFails(w)
    BY <1>3, DoneIdle DEF PassFails, TypeOK
<1>4. CASE ListDaily(w)
    <2> DEFINE r == [q EXCEPT !.todo = Enabled]
    <2>1. /\ pass'[w] = CheckOn(r) /\ channel' = channel
          /\ Changed => CheckOn(r) = IdlePass
        BY <1>4 DEF ListDaily, TypeOK, tables, DayDone
    <2>2. Enabled \subseteq There
        BY DEF Enabled, There
    <2>3. Running(r) /\ r.kind = "daily" /\ r.todo = Enabled
        BY <1>0, <2>2, RunningTodo DEF PassState
    <2>4. W \subseteq Enabled
        BY <2>1 DEF W, Wanted, Enabled, Exists
    <2> HIDE DEF r
    <2>5. InSight(CheckOn(r), W, R) /\ (CheckOn(r) = IdlePass => W \subseteq R)
        BY <1>0, <2>3, <2>4, CheckOnSees
    <2> QED
        BY <2>1, <2>5
<1>5. CASE Check(w)
    <2> DEFINE p == IF NeedsFinalization(q) THEN q.pending \cup {q.chan} ELSE q.pending
               r == [q EXCEPT !.pending = p]
    <2>1. /\ pass'[w] = CheckOn(r) /\ q.phase = "checking" /\ daily' = daily
          /\ Changed => CheckOn(r) = IdlePass
        BY <1>5 DEF Check, TypeOK, tables, DayDone
    <2>2. q.chan \in p \cup R
        BY <1>2, <2>1 DEF NeedsFinalization, R, WithRow
    <2>3. Running(r) /\ r.kind = "daily" /\ r.todo = q.todo /\ r.pending = p
        BY <1>0, <1>2, <2>1 DEF Running, PassState, There
    <2>4. W \subseteq r.todo \cup r.pending \cup R
        BY <1>1, <2>1, <2>2, <2>3 DEF InSight
    <2> HIDE DEF p, r
    <2>5. InSight(CheckOn(r), W, R) /\ (CheckOn(r) = IdlePass => W \subseteq R)
        BY <1>0, <2>3, <2>4, CheckOnSees
    <2> QED
        BY <2>1, <2>5
<1>6. CASE CollectSucceeds(w) \/ CollectPartial(w)
    <2> DEFINE r == [q EXCEPT !.succeeded = IF q.kind = "daily" THEN @ \cup {q.chan} ELSE @]
    <2>1. q.phase = "collecting" /\ W \subseteq q.pending \cup R
        BY <1>1, <1>6 DEF CollectSucceeds, CollectPartial, InSight
    <2>2. Running(r) /\ W \subseteq r.pending \cup R
        BY <1>0, <1>2, <2>1 DEF Running, PassState
    <2>3. pass'[w] = CollectOn(q) \/ pass'[w] = CollectOn(r)
        BY <1>6 DEF CollectSucceeds, CollectPartial, TypeOK
    <2>4. memory' = memory
        BY <1>6 DEF CollectSucceeds, CollectPartial, Attempted
    <2> HIDE DEF r
    <2>5. InSight(CollectOn(q), W, R) /\ InSight(CollectOn(r), W, R)
        BY <1>0, <2>1, <2>2, CollectOnSees
    <2> QED
        BY <2>3, <2>4, <2>5
<1>7. CASE Relist(w)
    <2> DEFINE r == Relisted(q)
    <2>1. /\ pass'[w] = WriteOn(r) /\ q.phase = "relisting" /\ channel' = channel
          /\ Changed => WriteOn(r) = IdlePass
        BY <1>7 DEF Relist, Relisted, TypeOK, tables, DayDone
    <2>2. W \subseteq q.pending \cup R /\ W \subseteq Enabled
        BY <1>1, <2>1 DEF InSight, W, Wanted, Enabled, Exists
    <2>3. W \subseteq r.todo \cup R /\ Running(r) /\ \A c \in r.todo : r.listed[c] # NULL
        BY <1>0, <2>2, RelistRuns DEF Found
    <2> HIDE DEF r
    <2>4. InSight(WriteOn(r), W, R)
        BY <1>0, <2>3, WriteOnSees
    <2>5. WriteOn(r) = IdlePass => r.todo = {}
        <3>1. CASE Kept(r, WriteOn(r)) /\ WriteOn(r).phase = "writing"
            BY <3>1, DoneIdle
        <3> QED
            BY <1>0, <2>3, <3>1, WriteOnKeeps
    <2> QED
        BY <2>1, <2>3, <2>4, <2>5
<1>8. CASE WriteRow(w)
    <2>1. /\ pass'[w] = WriteOn(q) /\ q.phase = "writing"
          /\ Changed => WriteOn(q) = IdlePass /\ ~q.failed
          /\ daily' = Upserted(q, Day(q.at))
        BY <1>8 DEF WriteRow, TypeOK, DayDone
    <2>2. q.chan \in R
        <3>1. Frozen(q, Day(now)) # NULL
            BY <1>2, <2>1, FrozenRow, DailyNullAssumption
        <3>2. daily'[q.chan][Day(now)] # NULL
            BY <1>2, <2>1, <3>1 DEF Upserted, TypeOK
        <3> QED
            BY <1>2, <2>1, <3>2 DEF R, WithRow
    <2>3. /\ ~q.failed => W \subseteq q.todo \cup R
          /\ \A c \in q.todo : q.listed[c] # NULL
        BY <1>1, <2>1, <2>2 DEF InSight, TypeOK, PassUnderWay
    <2>4. /\ InSight(WriteOn(q), W, R)
          /\ WriteOn(q) = IdlePass /\ ~q.failed => W \subseteq R
        BY <1>0, <2>3, WriteOnSees
    <2> QED
        BY <2>1, <2>4
<1>9. CASE WriteFails(w)
    <2> DEFINE r == [q EXCEPT !.failed = TRUE]
    <2>1. pass'[w] = WriteOn(r) /\ memory' = memory /\ q.phase = "writing"
        BY <1>9 DEF WriteFails, TypeOK
    <2>2. Running(r) /\ r.failed /\ \A c \in r.todo : r.listed[c] # NULL
        BY <1>0, <2>1 DEF Running, PassState, TypeOK, PassUnderWay
    <2> HIDE DEF r
    <2> QED
        BY <1>0, <2>1, <2>2, WriteOnSees
<1>10. CASE ListUninitialized(w) \/ ListScheduled(w)
    BY <1>10 DEF ListUninitialized, ListScheduled
<1> QED
    BY <1>3, <1>4, <1>5, <1>6, <1>7, <1>8, <1>9, <1>10 DEF PassStep

\* Every step keeps what the daily passes owe in sight.
LEMMA DoneNext ==
    ASSUME TypeOK, DoneInv, [Next]_vars
    PROVE  DoneInv'
<1> SUFFICES ASSUME NEW w \in Workers PROVE DonePass(pass'[w], channel', daily', now')
    BY DEF DoneInv
<1>0. now \in Int /\ now' \in Times /\ now <= now'
    <2>1. CASE Next
        BY <2>1, NextSteps, DaysAssumption DEF Steps, TypeOK, Times
    <2>2. CASE UNCHANGED vars
        BY <2>2, DaysAssumption DEF vars, TypeOK, Times
    <2> QED
        BY <2>1, <2>2
<1>1. CASE pass'[w] = pass[w]
    BY <1>0, <1>1, DoneLater DEF DoneInv, TypeOK, PassUnderWay
<1>2. CASE PassStep(w)
    <2>1. KindOK(pass[w]) /\ now' = now
        BY <1>2, PassStepFacts DEF DoneInv, DonePass
    <2>2. CASE pass'[w] = IdlePass
        BY <2>2, DoneIdle DEF DonePass
    <2>3. CASE pass'[w].kind = pass[w].kind /\ pass'[w].since = pass[w].since /\ KindOK(pass'[w])
        BY <1>2, <2>1, <2>3, DoneSteps DEF DonePass
    <2> QED
        BY <1>2, <2>1, <2>2, <2>3, PassStepKind
<1>3. CASE Restart(w)
    BY <1>3, DoneIdle DEF Restart, TypeOK, DonePass
<1>4. CASE Timer(w)
    <2>1. ASSUME NEW kind, StartPass(w, kind) PROVE pass'[w].phase = "listing"
        BY <2>1 DEF StartPass, TypeOK, IdlePass
    <2>2. pass'[w].phase = "listing"
        BY <1>4, <2>1 DEF Timer, RunInitialStatsOnce, RunScheduledStatsOnce, RunDailyIfDue
    <2> QED
        BY <2>2 DEF DonePass, InSight, KindOK
<1>5. CASE UNCHANGED vars \/ Tick \/ ApiStep
    BY <1>1, <1>5 DEF vars, Tick, ApiStep, CreateChannel, ArchiveChannel
<1>6. ASSUME NEW v \in Workers, v # w, Timer(v) \/ PassStep(v) \/ Restart(v)
      PROVE  pass'[w] = pass[w]
    BY <1>6 DEF Timer, RunInitialStatsOnce, RunScheduledStatsOnce, RunDailyIfDue, StartPass,
                PassStep, PassFails, ListUninitialized, ListScheduled, ListDaily, Check,
                CollectSucceeds, CollectPartial, Relist, WriteRow, WriteFails, Restart, TypeOK
<1> QED
    BY <1>1, <1>2, <1>3, <1>4, <1>5, <1>6 DEF Next

\* A worker takes the present day for done only when every channel in use that is
\* older than its pass has its row: a failed write, a channel archived or created
\* meanwhile and a second worker make no difference.
THEOREM DoneIsFrozen == Spec => DoneMeansFrozen
<1> DEFINE Good == \A w \in Workers :
                     memory'[w].lastDailyDate # memory[w].lastDailyDate
                       /\ memory'[w].lastDailyDate = Day(now) =>
                        \A c \in Enabled :
                            channel[c].createdAt < pass[w].since => daily'[c][Day(now)] # NULL
<1>1. Init => DoneInv
    <2> SUFFICES ASSUME Init, NEW w \in Workers
                 PROVE  DonePass(pass[w], channel, daily, now)
        BY DEF DoneInv
    <2> QED
        BY DoneIdle DEF Init, DonePass
<1>2. TypeOK /\ DoneInv /\ [Next]_vars => DoneInv'
    BY DoneNext
<1>3. TypeOK /\ DoneInv /\ [Next]_vars => [Good]_vars
    <2> SUFFICES ASSUME TypeOK, DoneInv, [Next]_vars, NEW w \in Workers,
                        memory'[w].lastDailyDate # memory[w].lastDailyDate,
                        memory'[w].lastDailyDate = Day(now),
                        NEW c \in Enabled, channel[c].createdAt < pass[w].since
                 PROVE  daily'[c][Day(now)] # NULL
        OBVIOUS
    <2>1. Day(now) \in Int /\ NULL \notin Int
        BY DayType, DaysAssumption DEF TypeOK
    <2>2. PassStep(w)
        <3>1. CASE Restart(w)
            BY <2>1, <3>1 DEF Restart, TypeOK, NewMemory
        <3>2. CASE UNCHANGED vars \/ Tick \/ ApiStep \/ Timer(w)
            BY <3>2 DEF vars, Tick, ApiStep, CreateChannel, ArchiveChannel, Timer,
                        RunInitialStatsOnce, RunScheduledStatsOnce, RunDailyIfDue, StartPass
        <3>3. ASSUME NEW v \in Workers, v # w, Timer(v) \/ PassStep(v) \/ Restart(v)
              PROVE  memory'[w] = memory[w]
            BY <3>3 DEF Timer, RunInitialStatsOnce, RunScheduledStatsOnce, RunDailyIfDue,
                        StartPass, PassStep, PassFails, ListUninitialized, ListScheduled,
                        ListDaily, Check, CollectSucceeds, CollectPartial, Relist, WriteRow,
                        WriteFails, Restart, TypeOK, DayDone, Attempted
        <3> QED
            BY <3>1, <3>2, <3>3 DEF Next
    <2>3. ListDaily(w) \/ Check(w) \/ Relist(w) \/ WriteRow(w)
        <3>1. ASSUME CollectSucceeds(w) \/ CollectPartial(w) PROVE FALSE
            BY <3>1 DEF CollectSucceeds, CollectPartial, Attempted, TypeOK
        <3>2. ASSUME ListUninitialized(w) PROVE FALSE
            BY <3>2 DEF ListUninitialized, TypeOK
        <3>3. ASSUME PassFails(w) \/ ListScheduled(w) \/ WriteFails(w) PROVE FALSE
            BY <3>3 DEF PassFails, ListScheduled, WriteFails
        <3> QED
            BY <2>2, <3>1, <3>2, <3>3 DEF PassStep
    <2>4. pass[w].kind = "daily" /\ channel' = channel
        BY <2>3 DEF ListDaily, Check, Relist, WriteRow, DoneInv, DonePass, KindOK, tables
    <2>5. Day(now) = Day(pass[w].since)
        BY <2>3 DEF ListDaily, Check, Relist, WriteRow, DayDone, TypeOK
    <2>6. c \in Wanted(channel', pass[w].since)
        BY <2>4 DEF Wanted, Enabled, Exists
    <2>7. c \in WithRow(daily', Day(now))
        BY <2>2, <2>4, <2>5, <2>6, DoneSteps
    <2> QED
        BY <2>7 DEF WithRow
<1> HIDE DEF Good
<1>4. [][Good]_vars => DoneMeansFrozen
    BY DEF Good, DoneMeansFrozen
<1> QED
    BY <1>1, <1>2, <1>3, <1>4, TypeCorrect, PTL DEF Spec

============================================================================
