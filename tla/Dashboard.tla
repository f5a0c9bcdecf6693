------------------------------ MODULE Dashboard ------------------------------
(***************************************************************************)
(* The figures of the dashboard (apps/api/src/dashboard/dashboard.service.ts *)
(* and the contracts its answers are parsed with before they are sent):     *)
(* trends, estimated revenue and the leading videos of a selection of        *)
(* channels, computed from tables read in one transaction.                  *)
(*                                                                         *)
(* The tables are a record: the channels shown, numbered by title, the day  *)
(* it is, and by channel the current figure and the day it was scanned, the  *)
(* daily rows, the monetization settings by the day they take effect, and    *)
(* the catalogue scans by day. The views and the subscribers of a channel    *)
(* are one figure; what is whole knows the number of its videos too.         *)
(***************************************************************************)
EXTENDS Basics, Integers, FiniteSetsExt, Sequences

CONSTANT RpmUnit    \* views paid for by one RPM

ASSUME RpmUnitAssumption == RpmUnit \in Nat \ {0}

\* A figure or a row that is missing is none.
ASSUME FigureAssumption ==
    NULL \notin Int \cup [count : Int \cup {NULL}, delta : Int \cup {NULL}, whole : BOOLEAN]

\* Figures by channel or by day, some of them missing.
Known(f) == {k \in DOMAIN f : f[k] # NULL}
Total(f) == MapThenSumSet(LAMBDA k : f[k], Known(f))

\* Slip: what is known is the total.
SumKnown(f) == IF Known(f) = {} THEN NULL ELSE Total(f)

\* sumComplete.
SumComplete(f) == IF DOMAIN f = {} \/ Known(f) # DOMAIN f THEN NULL ELSE Total(f)

\* observedMetric, revenueCoverage: both tell the part that is known.
Observed(f) ==
    LET covered == Cardinality(Known(f))
    IN  [value |-> IF covered = 0 THEN NULL ELSE Total(f),
         covered |-> covered, total |-> Cardinality(DOMAIN f),
         status |-> IF covered = 0 THEN "UNAVAILABLE"
                    ELSE IF Known(f) = DOMAIN f THEN "COMPLETE" ELSE "PARTIAL"]

ScannedOn(t, c, d) == t.current[c].day = d
CountOn(t, c, d) == IF t.row[c][d] = NULL THEN NULL ELSE t.row[c][d].count
StoredDelta(t, c, d) == IF t.row[c][d] = NULL THEN NULL ELSE t.row[c][d].delta

\* A row whose coverageStatus is COMPLETE.
WholeOn(t, c, d) == t.row[c][d] # NULL /\ t.row[c][d].whole

Gain(figure, baseline) ==
    IF figure = NULL \/ baseline = NULL THEN NULL ELSE figure - baseline

----------------------------------------------------------------------------
\* trends, of the days from the day after the baseline to today.

\* Slip: today's row, when there is one, is the day's.
DeltasOfRows(t, d) ==
    [c \in t.shown |->
       IF d = t.today /\ ScannedOn(t, c, d) /\ t.row[c][d] = NULL
       THEN Gain(t.current[c].figure, CountOn(t, c, d - 1))
       ELSE StoredDelta(t, c, d)]

\* dailyDeltaValues: today's is that of the current figure, even when today's
\* row is there, for the total is.
DailyDeltas(t, d) ==
    [c \in t.shown |->
       IF d = t.today /\ ScannedOn(t, c, d)
       THEN Gain(t.current[c].figure, CountOn(t, c, d - 1))
       ELSE StoredDelta(t, c, d)]

\* totalDeltaValues.
TotalDeltas(t, baseline) ==
    [c \in t.shown |->
       IF ScannedOn(t, c, t.today) THEN Gain(t.current[c].figure, CountOn(t, c, baseline))
       ELSE NULL]

HasCurrent(t, c) == ScannedOn(t, c, t.today) /\ t.current[c].whole

CompleteDay(t, d) ==
    /\ t.shown # {}
    /\ \A c \in t.shown : IF d = t.today THEN HasCurrent(t, c) ELSE WholeOn(t, c, d)

HasSnapshot(t, d) ==
    \E c \in t.shown : t.row[c][d] # NULL \/ (d = t.today /\ ScannedOn(t, c, d))

TrendPoint(t, d) ==
    LET deltas == DailyDeltas(t, d)
    IN  [delta |-> SumComplete(deltas), observed |-> Observed(deltas),
         hasSnapshot |-> HasSnapshot(t, d)]

Trends(t, baseline) ==
    LET days == baseline + 1..t.today
        totals == TotalDeltas(t, baseline)
        complete == {d \in days : CompleteDay(t, d)}
    IN  [total |-> SumComplete(totals), observed |-> Observed(totals),
         series |-> [d \in days |-> TrendPoint(t, d)],
         channels |-> Cardinality(t.shown),
         scanned |-> Cardinality({c \in t.shown : ScannedOn(t, c, t.today)}),
         current |-> Cardinality({c \in t.shown : HasCurrent(t, c)}),
         based |-> Cardinality({c \in t.shown : CountOn(t, c, baseline) # NULL}),
         completeDays |-> Cardinality(complete),
         partialDays |-> Cardinality({d \in days \ complete : HasSnapshot(t, d)})]

----------------------------------------------------------------------------
\* revenue.

\* divideRoundHalfAwayFromZero, of a quotient truncated towards zero.
RoundedQuotient(n, d) ==
    LET size == IF n < 0 THEN -n ELSE n
        rounded == (size \div d) + (IF 2 * (size % d) < d THEN 0 ELSE 1)
    IN  IF n < 0 THEN -rounded ELSE rounded

\* effectiveSetting: the latest that has taken effect by then.
EffectiveSetting(t, c, d) ==
    LET past == {e \in DOMAIN t.setting[c] : e <= d /\ t.setting[c][e] # NULL}
    IN  IF past = {} THEN NULL ELSE t.setting[c][Max(past)]

SettingOn(t, c, d) == EffectiveSetting(t, c, d)

\* revenueForDay.
RevenueForDay(delta, setting) ==
    IF setting = NULL THEN NULL
    ELSE IF ~setting.monetized THEN 0
    ELSE IF delta = NULL \/ setting.rpm = NULL THEN NULL
    ELSE RoundedQuotient(delta * setting.rpm, RpmUnit)

RevenueOn(t, c, d) == RevenueForDay(StoredDelta(t, c, d), SettingOn(t, c, d))

ChannelRevenue(t, c, days) ==
    LET latest == EffectiveSetting(t, c, t.today)
    IN  [metric |-> Observed([d \in days |-> RevenueOn(t, c, d)]),
         status |-> IF latest = NULL THEN "UNCONFIGURED"
                    ELSE IF latest.monetized THEN "ENABLED" ELSE "DISABLED",
         rpm |-> IF latest # NULL /\ latest.monetized THEN latest.rpm ELSE NULL]

Revenue(t, first) ==
    LET days == first..t.today
        latest == [c \in t.shown |-> EffectiveSetting(t, c, t.today)]
    IN  [metric |-> Observed([k \in t.shown \X days |-> RevenueOn(t, k[1], k[2])]),
         series |-> [d \in days |-> Observed([c \in t.shown |-> RevenueOn(t, c, d)])],
         channels |-> [c \in t.shown |-> ChannelRevenue(t, c, days)],
         configured |-> Cardinality(Known(latest)),
         monetized |-> Cardinality({c \in Known(latest) : latest[c].monetized})]

----------------------------------------------------------------------------
\* dailyVideoLeaders. A scan is [complete, total, withViews, views], views of the
\* videos it has a snapshot of, which are numbered by their YouTube ids.

Viewed(scan) == Known(scan.views)

\* isCompleteCatalogBucket: the scan says it is, and its snapshots are there.
CompleteBucket(scan) ==
    /\ scan.complete
    /\ scan.withViews = scan.total
    /\ Cardinality(Viewed(scan)) = scan.withViews

Compared(t) == {c \in t.shown : t.scan[c][t.today - 1] # NULL /\ t.scan[c][t.today] # NULL}

\* Slip: yesterday's catalogue need not be whole.
ComparableToday(t) == {c \in Compared(t) : CompleteBucket(t.scan[c][t.today])}

Comparable(t) ==
    {c \in Compared(t) : CompleteBucket(t.scan[c][t.today - 1]) /\ CompleteBucket(t.scan[c][t.today])}

VideoGains(t, c) ==
    LET previous == t.scan[c][t.today - 1].views
        current == t.scan[c][t.today].views
    IN  [v \in Known(previous) \cap Known(current) |-> current[v] - previous[v]]

\* The video that gained most, the first of them, if any gained.
Best(t, c) ==
    LET gains == VideoGains(t, c)
        most == {v \in DOMAIN gains : gains[v] > 0 /\ \A w \in DOMAIN gains : gains[w] <= gains[v]}
    IN  IF most = {} THEN NULL ELSE Min(most)

\* Tenths of a percent.
Contribution(video, channel) ==
    IF channel = NULL \/ channel <= 0 THEN NULL ELSE (video * 1000 + channel \div 2) \div channel

\* The largest gain first, then by title and by id.
LeadersOf(t) ==
    LET led == {c \in Comparable(t) : Best(t, c) # NULL}
        gain == [c \in led |-> VideoGains(t, c)[Best(t, c)]]
        ahead(b, c) == gain[b] > gain[c] \/ (gain[b] = gain[c] /\ b < c)
        order == Ordered(led, {k \in led \X led : ahead(k[1], k[2])})
        item(c) == [chan |-> c, video |-> Best(t, c), delta |-> gain[c],
                    channelDelta |-> StoredDelta(t, c, t.today),
                    contribution |-> Contribution(gain[c], StoredDelta(t, c, t.today))]
    IN  [i \in DOMAIN order |-> item(order[i])]

Leaders(t) ==
    LET deltas == [c \in t.shown |-> StoredDelta(t, c, t.today)]
        unknown == t.shown \ Known(deltas)
        gaining == {c \in Known(deltas) : deltas[c] > 0}
        missing == Compared(t) # t.shown
        partial == Compared(t) # {} /\ (Comparable(t) # Compared(t) \/ missing)
    IN  [items |-> LeadersOf(t), channels |-> Cardinality(t.shown),
         gaining |-> Cardinality(gaining), comparable |-> Cardinality(Comparable(t)),
         warnings |->
            {w \in {"CATALOG_BASELINE_REQUIRED", "CATALOG_COVERAGE_PARTIAL",
                    "CHANNEL_DAILY_VIEWS_UNAVAILABLE", "NO_POSITIVE_DAILY_GAIN"} :
               CASE w = "CATALOG_BASELINE_REQUIRED" -> missing
                 [] w = "CATALOG_COVERAGE_PARTIAL" -> partial
                 [] w = "CHANNEL_DAILY_VIEWS_UNAVAILABLE" -> unknown # {}
                 [] OTHER -> t.shown # {} /\ gaining = {} /\ unknown = {}},
         status |-> IF t.shown = {} THEN "UNAVAILABLE"
                    ELSE IF Compared(t) = {} THEN "WARMING_UP"
                    ELSE IF unknown = {} /\ Comparable(t) = t.shown THEN "COMPLETE"
                    ELSE "PARTIAL"]

----------------------------------------------------------------------------
\* The contracts (packages/shared/src/dashboard-contracts.ts): an answer that
\* breaks its own is not sent, and the request fails.

\* DashboardObservedMetricSchema, validateRevenueCoverage.
MetricParses(m) ==
    /\ m.covered <= m.total
    /\ CASE m.status = "UNAVAILABLE" -> m.value = NULL /\ m.covered = 0
         [] m.status = "PARTIAL" -> m.value # NULL /\ m.covered \in 1..m.total - 1
         [] OTHER -> m.value # NULL /\ m.total # 0 /\ m.covered = m.total

\* validateObservedStrictValue.
StrictParses(metric, strict) ==
    IF metric.status = "COMPLETE" THEN strict # NULL /\ strict = metric.value ELSE strict = NULL

TrendsParse(a) ==
    /\ \A n \in {a.scanned, a.current, a.based} : n <= a.channels
    /\ MetricParses(a.observed) /\ a.observed.total = a.channels
    /\ StrictParses(a.observed, a.total)
    /\ \A d \in DOMAIN a.series :
         /\ MetricParses(a.series[d].observed) /\ a.series[d].observed.total = a.channels
         /\ StrictParses(a.series[d].observed, a.series[d].delta)

ChannelParses(c) ==
    /\ MetricParses(c.metric)
    /\ (c.status = "ENABLED") <=> (c.rpm # NULL)
    /\ c.status = "UNCONFIGURED" => c.metric.status = "UNAVAILABLE"

RevenueParses(a) ==
    /\ MetricParses(a.metric)
    /\ a.metric.total = Cardinality(DOMAIN a.channels) * Cardinality(DOMAIN a.series)
    /\ \A d \in DOMAIN a.series : MetricParses(a.series[d])
    /\ \A c \in DOMAIN a.channels : ChannelParses(a.channels[c])
    /\ a.monetized <= a.configured /\ a.configured <= Cardinality(DOMAIN a.channels)

LeadersParse(a) ==
    /\ a.gaining <= a.channels /\ a.comparable <= a.channels
    /\ \A i \in DOMAIN a.items :
         a.items[i].delta >= 0 /\ (a.items[i].contribution = NULL \/ a.items[i].contribution >= 0)

----------------------------------------------------------------------------
Figure(x) == x = NULL \/ x \in Int

\* The tables of the trends: finitely many channels, whose figures are numbers where they
\* are known, as they are where all the counters are, and a change on record is the
\* difference of the figures of its two days.
TrendData(t, baseline) ==
    /\ IsFiniteSet(t.shown) /\ baseline \in Int /\ t.today \in Int /\ baseline < t.today
    /\ \A c \in t.shown :
          Figure(t.current[c].figure) /\ (t.current[c].whole => t.current[c].figure # NULL)
    /\ \A c \in t.shown, d \in baseline..t.today :
          Figure(CountOn(t, c, d)) /\ (WholeOn(t, c, d) => CountOn(t, c, d) # NULL)
    /\ \A c \in t.shown, d \in baseline + 1..t.today :
          StoredDelta(t, c, d) # NULL =>
              /\ CountOn(t, c, d) # NULL /\ CountOn(t, c, d - 1) # NULL
              /\ StoredDelta(t, c, d) = CountOn(t, c, d) - CountOn(t, c, d - 1)

\* A period's total is the sum of its days, whenever both are told; and a period
\* with a baseline, all its days complete and their changes on record, has both.
TrendsAddUp(t, baseline, a) ==
    LET days == [d \in DOMAIN a.series |-> a.series[d].delta]
    IN  /\ a.total # NULL /\ Known(days) = DOMAIN days => a.total = Total(days)
        /\ /\ t.shown # {} /\ a.based = a.channels
           /\ a.completeDays = Cardinality(DOMAIN a.series)
           /\ \A c \in t.shown, d \in baseline + 1..t.today - 1 : StoredDelta(t, c, d) # NULL
           => a.total # NULL /\ Known(days) = DOMAIN days

\* The estimates of a period, by day and by channel, add up to its own, and no day
\* is paid by a setting that took effect after it.
RevenueAddsUp(t, a) ==
    LET days == [d \in DOMAIN a.series |-> a.series[d].value]
        channels == [c \in DOMAIN a.channels |-> a.channels[c].metric.value]
        whole == IF a.metric.value = NULL THEN 0 ELSE a.metric.value
        free(d) == \A c \in t.shown : \A e \in DOMAIN t.setting[c] :
                      e <= d => t.setting[c][e] = NULL
    IN  /\ Total(days) = whole /\ Total(channels) = whole
        /\ \A d \in DOMAIN a.series : free(d) => a.series[d].status = "UNAVAILABLE"

\* A leader gained between two whole catalogues, and no video of its channel gained
\* more; the ranking is theirs; an answer said complete left no channel out.
LeadersTellTheTruth(t, a) ==
    /\ \A i \in DOMAIN a.items :
         LET previous == t.scan[a.items[i].chan][t.today - 1]
             current == t.scan[a.items[i].chan][t.today]
             gain(v) == current.views[v] - previous.views[v]
         IN  /\ Cardinality(Known(previous.views)) = previous.total
             /\ Cardinality(Known(current.views)) = current.total
             /\ a.items[i].delta = gain(a.items[i].video)
             /\ \A v \in Known(previous.views) \cap Known(current.views) : gain(v) <= a.items[i].delta
             /\ \A j \in 1..i - 1 : a.items[j].delta >= a.items[i].delta
    /\ a.status = "COMPLETE" =>
         /\ \A c \in t.shown : StoredDelta(t, c, t.today) # NULL
         /\ \A c \in t.shown \ {a.items[i].chan : i \in DOMAIN a.items} :
              \A v \in DOMAIN VideoGains(t, c) : VideoGains(t, c)[v] <= 0
         /\ a.warnings \subseteq {"NO_POSITIVE_DAILY_GAIN"}
=============================================================================
