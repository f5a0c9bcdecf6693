---------------------------- MODULE Intelligence ----------------------------
(***************************************************************************)
(* The public intelligence of one channel                                   *)
(* (apps/api/src/channels/channels.service.ts, publicIntelligence): its      *)
(* current figure, what it gained since the day before the period, how many  *)
(* days of the period are covered, and how far each may be trusted.         *)
(*                                                                         *)
(* The dashboard reads the current figures in the row of the channel, which  *)
(* is of the collection that was committed last; the page reads them in the  *)
(* latest of the channel's snapshots, of the collection that began last, and *)
(* asks how old it is instead of which day it is of. To the tables of the    *)
(* dashboard it adds latest[c], [figure, whole, day] like current[c].        *)
(*                                                                         *)
(* old: the latest snapshot is older than CURRENT_SNAPSHOT_STALE_AFTER_MS;   *)
(* exact: whether the latest and the baseline were counted exactly; catalog: *)
(* [observed, published, known, timed], the counts of the channel's videos.  *)
(***************************************************************************)
EXTENDS Dashboard

\* A reason that is told is one.
ASSUME ReasonAssumption ==
    NULL \notin {"NO_CURRENT_SNAPSHOT", "METRIC_NOT_PUBLIC", "STALE_CURRENT_SNAPSHOT",
                 "INSUFFICIENT_HISTORY", "PARTIAL_BASELINE", "INCOMPLETE_CATALOG",
                 "MISSING_DURATION_METADATA"}

\* latestSnapshot.
HasSnapshotRow(t, c) == t.latest[c].day # NULL

CurrentCounter(t, c, old) ==
    LET value == IF HasSnapshotRow(t, c) THEN t.latest[c].figure ELSE NULL
    IN  [value |-> value,
         status |-> IF value = NULL THEN "UNAVAILABLE" ELSE IF old THEN "PARTIAL" ELSE "READY",
         reason |-> IF ~HasSnapshotRow(t, c) THEN "NO_CURRENT_SNAPSHOT"
                    ELSE IF value = NULL THEN "METRIC_NOT_PUBLIC"
                    ELSE IF old THEN "STALE_CURRENT_SNAPSHOT" ELSE NULL]

Told(value, status, reason) == [value |-> value, status |-> status, reason |-> reason]

\* derivedCounterMetric.
DerivedCounter(t, c, baseline, old) ==
    LET current == CurrentCounter(t, c, old).value
        before == CountOn(t, c, baseline)
    IN  IF ~HasSnapshotRow(t, c) THEN Told(NULL, "WARMING_UP", "NO_CURRENT_SNAPSHOT")
        ELSE IF current = NULL THEN Told(NULL, "UNAVAILABLE", "METRIC_NOT_PUBLIC")
        ELSE IF before = NULL THEN Told(NULL, "WARMING_UP", "INSUFFICIENT_HISTORY")
        ELSE IF old THEN Told(current - before, "PARTIAL", "STALE_CURRENT_SNAPSHOT")
        ELSE IF ~WholeOn(t, c, baseline) THEN Told(current - before, "PARTIAL", "PARTIAL_BASELINE")
        ELSE Told(current - before, "READY", NULL)

\* derivedMetricPrecision.
Precision(exact) == IF exact.latest /\ exact.baseline THEN "EXACT" ELSE "ROUNDED"

\* catalogMetric.
CatalogCounter(value, catalog) ==
    IF ~catalog.observed THEN Told(NULL, "WARMING_UP", "INCOMPLETE_CATALOG")
    ELSE Told(value, "PARTIAL", IF catalog.timed < catalog.known THEN "MISSING_DURATION_METADATA"
                                ELSE "INCOMPLETE_CATALOG")

LatestOn(t, c, d) == t.latest[c].day = d

\* Slip: today's row, when there is one, is the day's.
CoversByRow(t, c, d, old) == WholeOn(t, c, d)

\* dailyCoverage: a snapshot of today stands for today, whatever its row says.
Covers(t, c, d, old) ==
    IF d = t.today /\ LatestOn(t, c, d) THEN ~old /\ t.latest[c].whole ELSE WholeOn(t, c, d)

PartlyCovers(t, c, d, old) ==
    /\ ~Covers(t, c, d, old)
    /\ t.row[c][d] # NULL \/ (d = t.today /\ LatestOn(t, c, d))

IntelligenceOf(t, c, baseline, old, exact, catalog) ==
    LET days == baseline + 1..t.today
        complete == {d \in days : Covers(t, c, d, old)}
    IN  [views |-> CurrentCounter(t, c, old),
         gained |-> DerivedCounter(t, c, baseline, old),
         precision |-> Precision(exact),
         published |-> CatalogCounter(catalog.published, catalog),
         completeDays |-> Cardinality(complete),
         partialDays |-> Cardinality({d \in days : PartlyCovers(t, c, d, old)}),
         warnings |->
            {w \in {"STALE_CURRENT_SNAPSHOT", "INCOMPLETE_DAILY_HISTORY", "MISSING_VIDEO_DURATIONS"} :
               CASE w = "STALE_CURRENT_SNAPSHOT" -> HasSnapshotRow(t, c) /\ old
                 [] w = "INCOMPLETE_DAILY_HISTORY" -> complete # days
                 [] OTHER -> catalog.timed < catalog.known}]

\* The page of a channel and the dashboard of that channel alone tell the same of it as far
\* as they read the same. Their gains differ by what the latest snapshot and the row of the
\* channel differ; when these are of one collection, the same days are told of, and as many
\* of them are whole while the snapshot is fresh, unless today's row was frozen from a
\* collection of the day before. A gain told without reserve rests on a fresh snapshot and
\* a whole baseline.
PagesAgree(t, c, baseline, old, a) ==
    LET board == Trends([t EXCEPT !.shown = {c}], baseline)
        same == t.latest[c] = t.current[c]
        frozenBefore == WholeOn(t, c, t.today) /\ ~ScannedOn(t, c, t.today)
    IN  /\ a.gained.value # NULL /\ board.total # NULL =>
              a.gained.value - board.total = t.latest[c].figure - t.current[c].figure
        /\ same => a.completeDays + a.partialDays = board.completeDays + board.partialDays
        /\ same /\ ~frozenBefore =>
              a.completeDays <= board.completeDays /\ (~old => a.completeDays = board.completeDays)
        /\ a.completeDays - board.completeDays \in -1..1
        /\ a.gained.status = "READY" =>
              ~old /\ WholeOn(t, c, baseline) /\ "STALE_CURRENT_SNAPSHOT" \notin a.warnings
        /\ \A m \in {a.views, a.gained, a.published} :
              (m.reason = NULL) <=> (m.status = "READY")
=============================================================================
