--------------------------- MODULE ReportEvidence ---------------------------
(***************************************************************************)
(* What an AI report may say (apps/worker/src/jobs/ai-report.aggregate.ts,   *)
(* packages/ai/src/grounding.ts): the evidence gathered of a period, in one  *)
(* transaction, and the check every generated report must pass against it.  *)
(*                                                                         *)
(* The tables are a record: channels (the enabled ones), row[c][d] the daily *)
(* rows ([count, delta, whole], whole when all the counters are known), and  *)
(* video[v]: its channel and the views its snapshots tell by instant.        *)
(* Channels and videos are numbered by their ids, videos also in the order   *)
(* they are listed. The counters of a channel that are quoted are one        *)
(* figure; a number a text may quote is that figure; titles, dates and       *)
(* durations quote none and are one "metadata".                             *)
(***************************************************************************)
EXTENDS Basics, Integers, FiniteSetsExt, Sequences, SequencesExt

CONSTANTS
    DayLength,      \* instants in a day
    Tolerance,      \* VIDEO_SNAPSHOT_BOUNDARY_TOLERANCE_MS
    MaxVideos,      \* how many videos are read
    TopVideos       \* how many of them are told of

ASSUME ReportAssumption ==
    DayLength \in Nat \ {0} /\ Tolerance \in Nat /\ MaxVideos \in Nat /\ TopVideos \in Nat

\* A period: its kind, its first and last day, and the instant the data is cut at.
PeriodDays(p) == p.first..p.last
ReportDayEnd(p) == (p.last + 1) * DayLength

Cells(t, p) == {k \in t.channels \X PeriodDays(p) : t.row[k[1]][k[2]] # NULL}

\* sumComplete.
PeriodDelta(t, p, c) ==
    LET deltas == [d \in PeriodDays(p) |-> IF t.row[c][d] = NULL THEN NULL ELSE t.row[c][d].delta]
    IN  IF \E d \in PeriodDays(p) : deltas[d] = NULL THEN NULL
        ELSE MapThenSumSet(LAMBDA d : deltas[d], PeriodDays(p))

----------------------------------------------------------------------------
\* Evidence. An item is named by what it is about, its metric and its day.
Fact(about, metric, when, numbers, whole) ==
    [about |-> about, metric |-> metric, when |-> when, numbers |-> numbers,
     status |-> IF whole THEN "READY" ELSE "PARTIAL"]

Portfolio == <<"PORTFOLIO", NULL>>
ChannelEntity(c) == <<"CHANNEL", c>>
VideoEntity(v) == <<"VIDEO", v>>

\* channelEvidence.
ChannelEvidence(t, p) ==
    UNION {LET row == t.row[k[1]][k[2]]
               about == ChannelEntity(k[1])
           IN  {Fact(about, "count", k[2], {n}, row.whole) : n \in {row.count} \ {NULL}}
               \cup {Fact(about, "delta", k[2], {n}, row.whole) : n \in {row.delta} \ {NULL}}
           : k \in Cells(t, p)}

\* usableSnapshot: the latest that knows the views.
Usable(seen, from, to) ==
    LET known == {i \in DOMAIN seen \cap from..to : seen[i] # NULL}
    IN  IF known = {} THEN NULL ELSE Max(known)

\* The end of the period: its last day's, exclusive, unless the data is cut before.
EndBoundary(p) == IF p.cutoff < ReportDayEnd(p) THEN p.cutoff ELSE ReportDayEnd(p)
LastInstant(p) == IF p.cutoff < ReportDayEnd(p) THEN p.cutoff ELSE ReportDayEnd(p) - 1
StartBoundary(p) == EndBoundary(p) - Cardinality(PeriodDays(p)) * DayLength

LatestSeen(t, p, v) == Usable(t.video[v].seen, EndBoundary(p) - Tolerance, LastInstant(p))

\* Slip: what a video had long before the period is its baseline too.
BaselineEver(t, p, v) == Usable(t.video[v].seen, 0, StartBoundary(p))

BaselineSeen(t, p, v) == Usable(t.video[v].seen, StartBoundary(p) - Tolerance, StartBoundary(p))

\* videoAggregate.
VideoDelta(t, p, v) ==
    LET latest == LatestSeen(t, p, v)
        baseline == BaselineSeen(t, p, v)
    IN  IF latest = NULL \/ baseline = NULL THEN NULL
        ELSE IF latest <= baseline THEN NULL
        ELSE t.video[v].seen[latest] - t.video[v].seen[baseline]

VideoEvidence(t, p, v) ==
    LET latest == LatestSeen(t, p, v)
        about == VideoEntity(v)
    IN  {Fact(about, "metadata", NULL, {}, TRUE)}
        \cup {Fact(about, "views", i \div DayLength, {t.video[v].seen[i]}, TRUE) :
                i \in {latest} \ {NULL}}
        \cup {Fact(about, "delta", p.last, {n}, TRUE) : n \in {VideoDelta(t, p, v)} \ {NULL}}

\* The first MaxVideos are read, of any channel, and those of the enabled ones kept.
ReadVideos(t) == {v \in DOMAIN t.video : v <= MaxVideos /\ t.video[v].chan \in t.channels}

\* The largest gains first, the unknown ones last, then the most views, then by id.
TopOf(t, p) ==
    LET views(v) == IF LatestSeen(t, p, v) = NULL THEN -1 ELSE t.video[v].seen[LatestSeen(t, p, v)]
        gain == [v \in ReadVideos(t) |-> VideoDelta(t, p, v)]
        byViews(v, w) == views(v) > views(w) \/ (views(v) = views(w) /\ v < w)
        ahead(v, w) ==
            IF gain[v] = NULL \/ gain[w] = NULL
            THEN gain[v] # NULL \/ (gain[w] = NULL /\ byViews(v, w))
            ELSE gain[v] > gain[w] \/ (gain[v] = gain[w] /\ byViews(v, w))
        sorted == SetToSortSeq(ReadVideos(t), ahead)
    IN  {sorted[i] : i \in 1..Min({TopVideos, Len(sorted)})}

\* The coverage ladder of build.
Coverage(t, p) ==
    LET expected == Cardinality(t.channels) * Cardinality(PeriodDays(p))
        complete == {k \in Cells(t, p) : t.row[k[1]][k[2]].whole}
        measured == ChannelEvidence(t, p) # {} \/ \E v \in TopOf(t, p) : LatestSeen(t, p, v) # NULL
    IN  IF Cells(t, p) = {} \/ ~measured THEN "INSUFFICIENT"
        ELSE IF p.kind = "WEEKLY" /\ Cardinality({k[2] : k \in Cells(t, p)}) < 2
        THEN "INSUFFICIENT"
        ELSE IF \E v \in TopOf(t, p) : VideoDelta(t, p, v) = NULL THEN "PARTIAL"
        ELSE IF Cardinality(complete) = expected THEN "COMPLETE"
        ELSE "PARTIAL"

CoverageFact(t, p) ==
    Fact(Portfolio, "coverage", p.last,
         {Cardinality(Cells(t, p)), Cardinality(t.channels) * Cardinality(PeriodDays(p))},
         Coverage(t, p) = "COMPLETE")

\* build.
Aggregate(t, p) ==
    [coverage |-> Coverage(t, p),
     channels |-> t.channels, videos |-> TopOf(t, p),
     gains |-> [c \in t.channels |-> PeriodDelta(t, p, c)],
     evidence |-> ChannelEvidence(t, p) \cup {CoverageFact(t, p)}
                  \cup UNION {VideoEvidence(t, p, v) : v \in TopOf(t, p)}]

----------------------------------------------------------------------------
\* A claim quotes numbers and cites items; one that is not evidence is unknown. A
\* report has claims, limitations, and targets, each with its reason.
Claims(report) ==
    report.claims \cup report.limitations \cup {target.reason : target \in report.targets}

Quotable(items) == UNION {item.numbers : item \in items}

\* addGroundingIssues.
Supported(claim, evidence) ==
    claim.cites \subseteq evidence /\ claim.numbers \subseteq Quotable(claim.cites)

SaysPartial(report, aggregate) ==
    aggregate.coverage = "PARTIAL" =>
        \E claim \in report.limitations : \E item \in claim.cites \cap aggregate.evidence :
            item.metric = "coverage" /\ item.status = "PARTIAL"

\* addTargetGroundingIssues, citesEntity: a target is known, its reason cites it and
\* nothing of another, and quotes what is about it or the portfolio.
TargetGrounded(target, aggregate) ==
    LET scoped == {item \in target.reason.cites : item.about \in {target.of, Portfolio}}
    IN  /\ target.of \in {ChannelEntity(c) : c \in aggregate.channels}
                         \cup {VideoEntity(v) : v \in aggregate.videos}
        /\ \E item \in target.reason.cites : item.about = target.of
        /\ target.reason.cites = scoped
        /\ target.reason.numbers \subseteq Quotable(scoped)

\* The weekly report's targets are its winners, all of them videos.
Accepted(report, aggregate, kind) ==
    /\ \A claim \in Claims(report) : claim.cites # {} /\ Supported(claim, aggregate.evidence)
    /\ SaysPartial(report, aggregate)
    /\ \A target \in report.targets :
         /\ TargetGrounded(target, aggregate)
         /\ kind = "WEEKLY" => target.of[1] = "VIDEO"

\* AiReportJob.run: nothing is asked of data that does not suffice.
Outcome(report, aggregate, kind) ==
    IF aggregate.coverage = "INSUFFICIENT" THEN "SKIPPED"
    ELSE IF Accepted(report, aggregate, kind) THEN "SUCCESS" ELSE "AI_SCHEMA_INVALID"

----------------------------------------------------------------------------
\* The numbers the tables hold of a target over the period: its rows', and for a video
\* its views at the end, as the newest snapshot tells that is no older than the tolerance,
\* and their change from what was so told at the instant a period before.
NumbersOf(t, p, of) ==
    IF of[1] = "CHANNEL"
    THEN UNION {{t.row[of[2]][d].count, t.row[of[2]][d].delta} :
                  d \in {d \in PeriodDays(p) : t.row[of[2]][d] # NULL}}
    ELSE LET seen == t.video[of[2]].seen
             known == {i \in DOMAIN seen : seen[i] # NULL}
             newest(from, to) == {i \in known \cap from..to : ~\E j \in known : j \in i + 1..to}
             dayEnd == (p.last + 1) * DayLength
             end == Min({p.cutoff, dayEnd})
             start == end - (p.last + 1 - p.first) * DayLength
             latest == newest(end - Tolerance, Min({p.cutoff, dayEnd - 1}))
             earlier == newest(start - Tolerance, start)
         IN  {seen[i] : i \in latest}
             \cup {seen[k[1]] - seen[k[2]] : k \in {k \in latest \X earlier : k[1] > k[2]}}

\* A report that is stored quotes of each target only what the tables hold of it over
\* the period, or how much of the period they cover; and when a day of a channel is
\* missing or not whole, or the gain of a video it is told of, it says so.
ReportsTellTheData(t, p, report) ==
    LET aggregate == Aggregate(t, p)
        covered == {Cardinality(Cells(t, p)), Cardinality(t.channels) * Cardinality(PeriodDays(p))}
    IN  Outcome(report, aggregate, p.kind) = "SUCCESS" =>
        /\ \A target \in report.targets :
             target.reason.numbers \subseteq NumbersOf(t, p, target.of) \cup covered
        /\ \/ report.limitations # {}
           \/ /\ \A c \in t.channels, d \in PeriodDays(p) : t.row[c][d] # NULL
              /\ \A c \in t.channels, d \in PeriodDays(p) : t.row[c][d].whole
              /\ \A v \in aggregate.videos : VideoDelta(t, p, v) # NULL

\* What a period is said to have brought a channel is the difference between its
\* figures at the two ends of it.
PeriodsAddUp(t, p) ==
    \A c \in t.channels :
        PeriodDelta(t, p, c) # NULL =>
            /\ t.row[c][p.first - 1] # NULL
            /\ PeriodDelta(t, p, c) = t.row[c][p.last].count - t.row[c][p.first - 1].count
=============================================================================
