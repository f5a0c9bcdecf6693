------------------------------- MODULE Charts -------------------------------
(***************************************************************************)
(* What the panels of the dashboard make of its answers                     *)
(* (apps/web/src/components/dashboard-trend-panel.tsx and                    *)
(* dashboard-revenue-panel.tsx): the curve of a figure over the days, drawn   *)
(* between days that have one only, its scale, and what is said of the       *)
(* coverage.  The number of published videos, known every day, is left out.  *)
(***************************************************************************)
EXTENDS Dashboard

\* A metric that is missing is none.
Metrics ==
    [value : Int \cup {NULL}, covered : Nat, total : Nat, status : {"COMPLETE", "PARTIAL", "UNAVAILABLE"}]

ASSUME MetricAssumption == NULL \notin Metrics

\* Heights are in thousandths of the chart, from its top.
Thousand == 1000

\* pointMetric, pointValue: the value of a day, 0 when it has none.
Drawn(metric) == IF metric.value = NULL THEN 0 ELSE metric.value

\* The values and 0, with one more at the top when they are all the same.
Lowest(values) == Min(values \cup {0})
Highest(values) ==
    IF Lowest(values) = Max(values \cup {0}) THEN Lowest(values) + 1 ELSE Max(values \cup {0})

Height(values, v) ==
    ((Highest(values) - v) * Thousand) \div (Highest(values) - Lowest(values))

\* The labels of the four lines of the grid, at thirds of the chart.
GridLabel(values, step) ==
    Highest(values) - ((Highest(values) - Lowest(values)) * step) \div 3

\* splitKnownSegments, splitAvailableSegments: the days from one that has data to another, none
\* without between them and none with before or after.
Segments(series) ==
    LET known == {d \in DOMAIN series : series[d].status # "UNAVAILABLE"}
        ends == {k \in known \X known : /\ k[1] <= k[2] /\ k[1]..k[2] \subseteq known
                                       /\ {k[1] - 1, k[2] + 1} \cap known = {}}
    IN  {k[1]..k[2] : k \in ends}

\* The edges of the curve, and those that are dashed: of a segment with a partial day in
\* the trends, of a partial day in the revenue.
EdgesOf(segment) == {<<d, d + 1>> : d \in {d \in segment : d + 1 \in segment}}

PartialDays(series) == {d \in DOMAIN series : series[d].status = "PARTIAL"}

DashedTrend(series, segment) ==
    IF segment \cap PartialDays(series) = {} THEN {} ELSE EdgesOf(segment)

DashedRevenue(series, segment) ==
    {e \in EdgesOf(segment) : {e[1], e[2]} \cap PartialDays(series) # {}}

\* partialDayCoverage: the first of the partial days covered least, by the ratio.
Lower(series, c, d) == series[c].covered * series[d].total < series[d].covered * series[c].total

LowestCoverage(series) ==
    LET lowest == {d \in PartialDays(series) : ~\E c \in PartialDays(series) : Lower(series, c, d)}
    IN  IF lowest = {} THEN NULL ELSE series[Min(lowest)]

\* The headline, the hint of a button and the label of the revenue: what a total is said
\* to be of.
Said(metric) ==
    CASE metric.value = NULL -> "no baseline"
      [] metric.value # NULL /\ metric.status = "PARTIAL" -> "observed"
      [] OTHER -> "whole"

Chart(series, dashed) ==
    LET values == {Drawn(series[d]) : d \in DOMAIN series}
        segments == Segments(series)
    IN  [height |-> [d \in DOMAIN series |-> Height(values, Drawn(series[d]))],
         grid |-> [step \in 0..3 |-> GridLabel(values, step)],
         edges |-> UNION {EdgesOf(segment) : segment \in segments},
         dashed |-> dashed,
         dots |-> UNION segments]

TrendChart(a) ==
    LET series == [d \in DOMAIN a.series |-> a.series[d].observed]
    IN  Chart(series, UNION {DashedTrend(series, segment) : segment \in Segments(series)})

RevenueChart(a) ==
    Chart(a.series,
          UNION {DashedRevenue(a.series, segment) : segment \in Segments(a.series)})

----------------------------------------------------------------------------
\* A curve joins a day to the next when both have data and in no other case, and is not
\* drawn whole where a channel is missing; a day with more is never drawn lower, none
\* outside of the chart, and the label of a line of the grid is at least the value of
\* every day drawn under it.
ChartTellsTheDays(series, chart) ==
    LET has(d) == d \in DOMAIN series /\ series[d].value # NULL
    IN  /\ chart.edges = {e \in (DOMAIN series) \X (DOMAIN series) : e[2] = e[1] + 1 /\ has(e[1]) /\ has(e[2])}
        /\ chart.dots = {d \in DOMAIN series : has(d)}
        /\ \A e \in chart.edges \ chart.dashed : \A i \in {1, 2} : series[e[i]].covered = series[e[i]].total
        /\ \A d \in DOMAIN series :
             /\ chart.height[d] \in 0..Thousand
             /\ \A c \in DOMAIN series :
                  Drawn(series[c]) > Drawn(series[d]) => chart.height[c] <= chart.height[d]
             /\ \A step \in 0..3 :
                  chart.height[d] * 3 > Thousand * step => Drawn(series[d]) <= chart.grid[step]

\* The panel of the trends: its curve, the lowest coverage of its partial days, and a
\* total that is said whole only when it is the strict one.
TrendPanelTells(a) ==
    LET series == [d \in DOMAIN a.series |-> a.series[d].observed]
        lowest == LowestCoverage(series)
    IN  /\ ChartTellsTheDays(series, TrendChart(a))
        /\ (lowest = NULL) = \A d \in DOMAIN series : a.series[d].delta # NULL \/ series[d].value = NULL
        /\ \A d \in PartialDays(series) : lowest.covered * series[d].total <= series[d].covered * lowest.total
        /\ Said(a.observed) = "whole" => a.total = a.observed.value

RevenuePanelTells(a) ==
    /\ ChartTellsTheDays(a.series, RevenueChart(a))
    /\ Said(a.metric) = "whole" => \A d \in DOMAIN a.series : a.series[d].covered = a.series[d].total
=============================================================================
