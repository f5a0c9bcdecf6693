------------------------------ MODULE Rankings ------------------------------
(***************************************************************************)
(* The rankings of videos (apps/api/src/videos/rankings and                  *)
(* packages/analytics): recent, Top Week, Hot Now and Breakout, computed     *)
(* from the videos of a selection, the snapshots of each and the instant.    *)
(*                                                                         *)
(* A video is [chan, published, seen]: seen[t] is what the snapshot of       *)
(* instant t says of its views, for the instants it has one of. Videos are   *)
(* numbered in the order of their ids, and are those that are available. The *)
(* first MaxRead of a selection are read, the newest MaxSnapshots snapshots  *)
(* of each; all that is ranked or compared is among them. A score that is a  *)
(* quotient is a pair of integers, the second positive: what floating point  *)
(* rounds away of it is left out.                                          *)
(***************************************************************************)
EXTENDS Basics, FiniteSetsExt, Sequences

CONSTANTS
    Hours,           \* VPH windows: Hours[1] and Hours[2] are those of Hot Now
    Week,            \* windowDays
    WeekTolerance,   \* DEFAULT_BASELINE_TOLERANCE_MS
    AgeTolerance,    \* how far from an age a snapshot tells the views at it
    BreakoutAge,     \* the age Breakout compares videos at
    Peers,           \* how many videos a channel's benchmark is taken of
    MaxRead,         \* how many videos of a selection are read
    MaxSnapshots     \* how many snapshots of each

ASSUME RankingsAssumption ==
    /\ {1, 2} \subseteq DOMAIN Hours /\ \A i \in DOMAIN Hours : Hours[i] \in Nat \ {0}
    /\ {Week, WeekTolerance, AgeTolerance, BreakoutAge, Peers, MaxRead, MaxSnapshots} \subseteq Nat

----------------------------------------------------------------------------
\* The order videos are listed in: the newest first, before them those without a date (the
\* database's order of what is missing), the lower id first of two as new.
Precedes(videos, v, w) ==
    \/ videos[v].published = videos[w].published /\ v < w
    \/ videos[v].published = NULL /\ videos[w].published # NULL
    \/ /\ NULL \notin {videos[v].published, videos[w].published}
       /\ videos[v].published > videos[w].published

VideosRead(videos) ==
    {w \in DOMAIN videos : Cardinality({v \in DOMAIN videos : Precedes(videos, v, w)}) < MaxRead}

SnapshotsRead(video) ==
    {t \in DOMAIN video.seen : Cardinality({u \in DOMAIN video.seen : u > t}) < MaxSnapshots}

\* listForRanking, of the available videos of a selection.
ListForRanking(videos) ==
    [v \in VideosRead(videos) |->
       [chan |-> videos[v].chan, published |-> videos[v].published,
        seen |-> [t \in SnapshotsRead(videos[v]) |-> videos[v].seen[t]]]]

----------------------------------------------------------------------------

Less(a, b) == a[1] * b[2] < b[1] * a[2]

\* The instants whose snapshot knows the views.
KnownAt(video) == {t \in DOMAIN video.seen : video.seen[t] # NULL}

Upto(video, limit) == {t \in KnownAt(video) : t <= limit}

\* calculateVph: from the latest snapshot, whenever it was, back to the latest that
\* is a window older.
Vph(video, window) ==
    IF KnownAt(video) = {} THEN NULL
    ELSE LET latest == Max(KnownAt(video))
             before == Upto(video, latest - window)
         IN  IF before = {} THEN NULL
             ELSE <<video.seen[latest] - video.seen[Max(before)], latest - Max(before)>>

\* calculateSmoothedVph.
Smoothed(short, long) ==
    IF short = NULL THEN long
    ELSE IF long = NULL THEN short
    ELSE <<7 * short[1] * long[2] + 3 * long[1] * short[2], 10 * short[2] * long[2]>>

HotScore(video) == Smoothed(Vph(video, Hours[1]), Vph(video, Hours[2]))

\* calculateWeeklyGain: NULL while it is warming up.
WeeklyBaseline(video, now) ==
    LET before == Upto(video, now - Week)
    IN  IF before = {} THEN NULL
        ELSE IF now - Week - Max(before) > WeekTolerance THEN NULL
        ELSE Max(before)

WeeklyGain(video, now) ==
    LET baseline == WeeklyBaseline(video, now)
    IN  IF baseline = NULL THEN NULL
        ELSE <<video.seen[Max(Upto(video, now))] - video.seen[baseline], 1>>

\* findViewAtAge: the snapshot nearest to the age, the newest of two as near, for
\* that is the order they are read in.
ViewAtAge(video, age) ==
    LET target == video.published + age
        far(t) == IF t < target THEN target - t ELSE t - target
        near == {t \in KnownAt(video) : far(t) <= AgeTolerance}
        nearest == {t \in near : \A u \in near : far(t) <= far(u)}
    IN  IF video.published = NULL THEN NULL
        ELSE IF near = {} THEN NULL
        ELSE video.seen[Max(nearest)]

\* The other dated videos of the channel.
PeersOf(videos, v) ==
    {w \in DOMAIN videos \ {v} : videos[w].chan = videos[v].chan /\ videos[w].published # NULL}

\* comparableViews: the newest Peers of them that tell their views at that age, as
\* they are listed, the lower id first of two as new.
ComparableViews(videos, v, age) ==
    LET peers == PeersOf(videos, v)
        newer(w, x) == \/ videos[w].published > videos[x].published
                       \/ videos[w].published = videos[x].published /\ w < x
        compared == {w \in peers : Cardinality({x \in peers : newer(x, w)}) < Peers}
    IN  [w \in {w \in compared : ViewAtAge(videos[w], age) # NULL} |-> ViewAtAge(videos[w], age)]

\* median, twice: the sum of the two middle values, or of the middle one and itself.
TwiceMedian(values) ==
    LET n == Cardinality(DOMAIN values)
        atMost(x) == Cardinality({w \in DOMAIN values : values[w] <= x})
        nth(i) == Min({values[w] : w \in {w \in DOMAIN values : atMost(values[w]) >= i}})
    IN  IF n = 0 THEN NULL ELSE nth((n + 1) \div 2) + nth((n + 2) \div 2)

\* calculateBreakoutMultiple.
Breakout(videos, v, age) ==
    LET views == ViewAtAge(videos[v], age)
        median == TwiceMedian(ComparableViews(videos, v, age))
    IN  IF views = NULL \/ median = NULL THEN NULL
        ELSE IF median <= 0 THEN NULL
        ELSE <<2 * views, median>>

\* rankWeekly, rankHot, rankBreakout: the scored, best first, then by id.
Ranked(score) ==
    LET scored == {v \in DOMAIN score : score[v] # NULL}
        ahead(v, w) == Less(score[w], score[v]) \/ (~Less(score[v], score[w]) /\ v < w)
    IN  Ordered(scored, {k \in scored \X scored : ahead(k[1], k[2])})

\* A video without a date is as old as can be; NULL is no date.
RecentScore(videos) ==
    [v \in DOMAIN videos |-> <<IF videos[v].published = NULL THEN 0 ELSE videos[v].published, 1>>]

Scores(videos, now, kind) ==
    CASE kind = "recent" -> RecentScore(videos)
      [] kind = "weekly" -> [v \in DOMAIN videos |-> WeeklyGain(videos[v], now)]
      [] kind = "hot" -> [v \in DOMAIN videos |-> HotScore(videos[v])]
      [] OTHER -> [v \in DOMAIN videos |-> Breakout(videos, v, BreakoutAge)]

RankedRow(videos, scores, v, rank) ==
    [video |-> v, rank |-> rank, score |-> scores[v],
     vphs |-> [i \in DOMAIN Hours |-> Vph(videos[v], Hours[i])]]

\* paginate, of the ranking of the videos read.
PageOf(videos, now, kind, page, size) ==
    LET scores == Scores(videos, now, kind)
        ranked == Ranked(scores)
        offset == (page - 1) * size
        last == Min({offset + size, Len(ranked)})
    IN  [items |-> [i \in 1..Max({last - offset, 0}) |->
                      RankedRow(videos, scores, ranked[offset + i], offset + i)],
         total |-> Len(ranked),
         warmingUp |-> IF kind # "weekly" THEN 0
                       ELSE Cardinality({v \in DOMAIN videos : scores[v] = NULL})]

\* recent, weekly, hot and breakout: what load reads, ranked.
RankingPage(videos, now, kind, page, size) == PageOf(ListForRanking(videos), now, kind, page, size)

Kinds == {"recent", "weekly", "hot", "breakout"}

\* The rows of all the pages of a ranking of the videos read.
PageRows(videos, now, kind, size) ==
    LET pages == 1..Cardinality(DOMAIN videos) + 1
    IN  UNION {LET p == PageOf(videos, now, kind, n, size)
               IN  {p.items[i] : i \in DOMAIN p.items} : n \in pages}

Rows(videos, now, kind, size) == PageRows(ListForRanking(videos), now, kind, size)

\* What the ranking of a selection says of a channel does not depend on what else was
\* selected, as long as it reads of that channel what the channel's own ranking reads:
\* the rows of one channel's ranking are those of that channel in the ranking of all, in
\* the same order. A ranking's pages show every video it reads once, the ones that are
\* warming up aside, in the order of their scores.
RankingsAreLocal(videos, now, kind, size) ==
    LET all == Rows(videos, now, kind, size)
        first == RankingPage(videos, now, kind, 1, size)
        alone(chan) == [v \in {v \in DOMAIN videos : videos[v].chan = chan} |-> videos[v]]
        local(chan) == Rows(alone(chan), now, kind, size)
    IN  /\ \A chan \in {videos[v].chan : v \in DOMAIN videos} :
             VideosRead(alone(chan)) \subseteq VideosRead(videos) =>
                /\ {<<r.video, r.score, r.vphs>> : r \in local(chan)}
                     = {<<r.video, r.score, r.vphs>> : r \in {r \in all : videos[r.video].chan = chan}}
                /\ \A r, s \in local(chan), x, y \in all :
                     x.video = r.video /\ y.video = s.video => (r.rank < s.rank) <=> (x.rank < y.rank)
        /\ {r.rank : r \in all} = 1..first.total
        /\ Cardinality({r.video : r \in all}) = first.total
        /\ kind = "weekly" => first.total + first.warmingUp = Cardinality(VideosRead(videos))
        /\ \A r, s \in all : r.rank < s.rank => ~Less(r.score, s.score)

\* A gain of the week is measured from a week ago or before it, no further than the
\* tolerance, to the latest that is known; a gain of an hour over an hour at least. Not
\* all the snapshots are read: none left out would have been taken instead.
GainsAreOfTheirWindow(videos, now) ==
    LET read == ListForRanking(videos)
    IN  \A v \in DOMAIN read :
        /\ WeeklyGain(read[v], now) # NULL =>
             \E t, u \in KnownAt(videos[v]) :
                /\ t \in now - Week - WeekTolerance..now - Week
                /\ u \in t..now
                /\ ~\E s \in KnownAt(videos[v]) : s \in u + 1..now \/ s \in t + 1..now - Week
                /\ WeeklyGain(read[v], now)[1] = videos[v].seen[u] - videos[v].seen[t]
        /\ \A i \in DOMAIN Hours :
             Vph(read[v], Hours[i]) # NULL => Vph(read[v], Hours[i])[2] >= Hours[i]
=============================================================================
