------------------------- MODULE DailyCatalogProofs -------------------------
(***************************************************************************)
(* Theorems about DailyCatalog, for every number of workers, channels,     *)
(* videos and runs, every answer of yt-dlp and every boundary.             *)
(***************************************************************************)
EXTENDS DailyCatalog, FiniteSetTheorems, TLAPS

Owns(q) == q.phase \in {"collecting", "persisting", "failing"}

\* No two workers have one run.
OwnRuns ==
    \A u, w \in Workers :
        u # w /\ Owns(pass[u]) /\ Owns(pass[w]) => pass[u].run # pass[w].run

----------------------------------------------------------------------------
\* The loop.

\* A set of channels has a first one.
LEMMA FirstMember ==
    ASSUME NEW S, S \subseteq Channels, S # {}
    PROVE  First(S) \in S
<1>1. IsFiniteSet(Channels) /\ Channels \subseteq Int
    BY FS_Interval, DailyCatalogAssumption DEF Channels
<1>2. IsFiniteSet(S) /\ S \subseteq Int
    BY <1>1, FS_Subset
<1> QED
    BY <1>2, LeastMember DEF First

\* An idle pass is well formed.
LEMMA IdlePassOK == IdlePass \in PassState /\ IdlePass.phase = "idle"
BY DEF IdlePass, PassState, Phases

\* A loop that goes on looks for the scan of a channel, now, or ends its pass.
LEMMA NextChannelOK ==
    ASSUME now \in Times, NEW q, q.todo \subseteq Channels
    PROVE  /\ NextChannel(q) \in PassState
           /\ NextChannel(q).phase \in {"idle", "finding"}
           /\ NextChannel(q).phase = "finding" =>
                NextChannel(q).chan \in Channels /\ NextChannel(q).at = now
<1>1. CASE q.todo # {} /\ IsPastBoundary(now)
    <2> DEFINE c == First(q.todo)
    <2>1. c \in Channels
        BY <1>1, FirstMember
    <2>2. NextChannel(q) = [IdlePass EXCEPT !.phase = "finding", !.chan = c,
                                            !.todo = q.todo \ {c}, !.at = now]
        BY <1>1 DEF NextChannel
    <2> HIDE DEF c
    <2> QED
        BY <2>1, <2>2 DEF IdlePass, PassState, Phases
<1>2. CASE ~(q.todo # {} /\ IsPastBoundary(now))
    BY <1>2, IdlePassOK DEF NextChannel
<1> QED
    BY <1>1, <1>2

----------------------------------------------------------------------------
\* Type correctness.

\* Runs are added and settled; only w's own is settled by a step of w.
RunsKept(w) ==
    /\ run' \in Seq(Run)
    /\ \A i \in 1..Len(run) :
        /\ i \in 1..Len(run')
        /\ run'[i].worker = run[i].worker
        /\ run'[i].chan = run[i].chan
        /\ run'[i].startedAt = run[i].startedAt
        /\ run'[i].status = run[i].status \/ (Owns(pass[w]) /\ i = pass[w].run)

\* The next state of a pass has the run it had, or the one just added.
OwnOrNew(w, q) ==
    Owns(q) => (Owns(pass[w]) /\ q.run = pass[w].run) \/ q.run = Len(run) + 1

\* A step that moves one pass to a well formed state leaves the others so.
LEMMA PassesKept ==
    ASSUME TypeOK, OwnRuns, NEW w \in Workers, NEW q \in PassState,
           now' = now, RunsKept(w), OwnOrNew(w, q), PassUnderWay(q, now, run'),
           pass' = [pass EXCEPT ![w] = q]
    PROVE  /\ pass' \in [Workers -> PassState]
           /\ \A u \in Workers : PassUnderWay(pass'[u], now', run')
           /\ OwnRuns'
<1>1. pass' \in [Workers -> PassState] /\ pass'[w] = q
    BY DEF TypeOK
<1>2. \A u \in Workers \ {w} : pass'[u] = pass[u]
    BY DEF TypeOK
<1>3. \A u \in Workers : PassUnderWay(pass[u], now, run)
    BY DEF TypeOK
<1>4. ASSUME NEW u \in Workers \ {w} PROVE PassUnderWay(pass'[u], now', run')
    <2>1. CASE Owns(pass[u])
        <3>1. pass[u].run \in 1..Len(run)
            BY <1>3, <2>1 DEF PassUnderWay, Owns
        <3>2. run'[pass[u].run].status = run[pass[u].run].status
            BY <2>1, <3>1 DEF RunsKept, OwnRuns
        <3> QED
            BY <1>2, <1>3, <2>1, <3>1, <3>2 DEF PassUnderWay, Owns, RunsKept
    <2>2. CASE ~Owns(pass[u])
        BY <1>2, <1>3, <2>2 DEF PassUnderWay, Owns
    <2> QED
        BY <2>1, <2>2
<1>5. ASSUME NEW u \in Workers \ {w}, Owns(pass'[u]), Owns(q) PROVE pass'[u].run # q.run
    <2>1. pass'[u] = pass[u] /\ Owns(pass[u])
        BY <1>2, <1>5
    <2>2. pass[u].run \in 1..Len(run)
        BY <1>3, <2>1 DEF PassUnderWay, Owns
    <2>3. Len(run) \in Nat
        BY DEF TypeOK
    <2> QED
        BY <1>5, <2>1, <2>2, <2>3 DEF OwnOrNew, OwnRuns
<1>6. OwnRuns'
    <2>1. SUFFICES ASSUME NEW u \in Workers, NEW x \in Workers, u # x,
                          Owns(pass'[u]), Owns(pass'[x])
                   PROVE  pass'[u].run # pass'[x].run
        BY DEF OwnRuns, Owns
    <2>2. CASE u = w
        BY <1>1, <1>5, <2>1, <2>2
    <2>3. CASE x = w
        BY <1>1, <1>5, <2>1, <2>3
    <2>4. CASE u # w /\ x # w
        BY <1>2, <2>1, <2>4 DEF OwnRuns
    <2> QED
        BY <2>2, <2>3, <2>4
<1> QED
    BY <1>1, <1>2, <1>4, <1>6

\* A step that leaves the runs alone keeps them.
LEMMA RunsUnchanged ==
    ASSUME TypeOK, NEW w \in Workers, run' = run
    PROVE  RunsKept(w)
BY DEF TypeOK, RunsKept

\* Settling the run a pass has keeps the others.
LEMMA RunsSettled ==
    ASSUME TypeOK, NEW w \in Workers, Owns(pass[w]),
           NEW s \in {"SUCCESS", "PARTIAL", "FAILED"}, run' = Settled(pass[w], s)
    PROVE  /\ RunsKept(w)
           /\ pass[w].run \in 1..Len(run)
           /\ Len(run') = Len(run)
           /\ run'[pass[w].run].status = s
           /\ \A i \in 1..Len(run) : i # pass[w].run => run'[i] = run[i]
<1> DEFINE k == pass[w].run
<1>1. run \in Seq(Run) /\ k \in 1..Len(run)
    BY DEF TypeOK, PassUnderWay, Owns
<1>2. run' = [run EXCEPT ![k] = [run[k] EXCEPT !.status = s]]
    BY DEF Settled
<1> HIDE DEF k
<1>3. run[k] \in Run
    BY <1>1
<1>4. [run[k] EXCEPT !.status = s] \in Run
    BY <1>3 DEF Run
<1>5. run' \in Seq(Run) /\ Len(run') = Len(run)
    BY <1>1, <1>2, <1>4
<1>6. \A i \in 1..Len(run) : i # k => run'[i] = run[i]
    BY <1>1, <1>2
<1>7. run'[k] = [run[k] EXCEPT !.status = s]
    BY <1>1, <1>2
<1>8. /\ run'[k].worker = run[k].worker
      /\ run'[k].chan = run[k].chan
      /\ run'[k].startedAt = run[k].startedAt
      /\ run'[k].status = s
    BY <1>3, <1>7 DEF Run
<1>9. RunsKept(w)
    BY <1>1, <1>5, <1>6, <1>8 DEF RunsKept, k
<1> QED
    BY <1>1, <1>5, <1>6, <1>8, <1>9 DEF k

\* A loop that goes on leaves every pass well formed.
LEMMA GoesOn ==
    ASSUME TypeOK, OwnRuns, NEW w \in Workers, GoOn(w), now' = now, RunsKept(w)
    PROVE  /\ pass' \in [Workers -> PassState]
           /\ \A u \in Workers : PassUnderWay(pass'[u], now', run')
           /\ OwnRuns'
<1> DEFINE q == NextChannel(pass[w])
<1>1. pass[w] \in PassState /\ now \in Times
    BY DEF TypeOK
<1>2. pass[w].todo \subseteq Channels
    BY <1>1 DEF PassState
<1>3. /\ q \in PassState /\ q.phase \in {"idle", "finding"}
      /\ q.phase = "finding" => q.chan \in Channels /\ q.at = now
    BY <1>1, <1>2, NextChannelOK
<1>4. pass' = [pass EXCEPT ![w] = q]
    BY DEF GoOn
<1> HIDE DEF q
<1>5. now \in StartTime..now
    BY <1>1, DaysAssumption DEF Times
<1>6. PassUnderWay(q, now, run') /\ OwnOrNew(w, q)
    BY <1>3, <1>5 DEF PassUnderWay, OwnOrNew, Owns
<1> QED
    BY <1>3, <1>4, <1>6, PassesKept

----------------------------------------------------------------------------
\* Catalogues.

\* A complete catalogue has every video the playlist declares, with its views.
SoundCatalog(k) ==
    k.status = "COMPLETE" =>
        /\ \A v \in k.listed : k.views[v] # NULL
        /\ Cardinality(k.listed) = k.total

\* What is kept of an answer is a catalogue, and sound.
LEMMA CatalogOfOK ==
    ASSUME NEW a \in Answers
    PROVE  CatalogOf(a) \in Catalog /\ SoundCatalog(CatalogOf(a))
<1> DEFINE first(v) == CHOOSE i \in Occurrences(a, v) : \A j \in Occurrences(a, v) : i <= j
           k == CatalogOf(a)
           views == [v \in Videos |-> IF v \in Listed(a) THEN ViewsOf(a, v) ELSE NULL]
<1>1. /\ a.entries \in Seq([video : Videos \cup {NULL}, views : Figure])
      /\ a.declared \in Nat \cup {NULL}
    BY DailyCatalogAssumption DEF Answer
<1>2. Len(a.entries) \in Nat /\ SourceEntryCount(a) \in Nat
    BY <1>1 DEF SourceEntryCount, Declared
<1>3. \A i \in Positions(a) : a.entries[i] \in [video : Videos \cup {NULL}, views : Figure]
    <2>1. ASSUME NEW T, NEW s \in Seq(T) PROVE \A i \in 1..Len(s) : s[i] \in T
        OBVIOUS
    <2> QED
        BY <1>1, <2>1 DEF Positions
<1>4. ASSUME NEW v \in Listed(a) PROVE first(v) \in Occurrences(a, v)
    <2>1. Positions(a) \subseteq Int /\ IsFiniteSet(Positions(a))
        BY <1>2, FS_Interval DEF Positions
    <2>2. Occurrences(a, v) \subseteq Positions(a) /\ Occurrences(a, v) # {}
        BY DEF Occurrences, Listed
    <2>3. Occurrences(a, v) \subseteq Int /\ IsFiniteSet(Occurrences(a, v))
        BY <2>1, <2>2, FS_Subset
    <2>4. \E i \in Occurrences(a, v) : \A j \in Occurrences(a, v) : i <= j
        BY <2>2, <2>3, LeastMember
    <2> QED
        BY <2>4
<1>5. ASSUME NEW v \in Listed(a)
      PROVE  /\ first(v) \in Positions(a) /\ a.entries[first(v)].video = v
             /\ ViewsOf(a, v) = a.entries[first(v)].views
    BY <1>4 DEF Occurrences, ViewsOf
<1> HIDE DEF first
<1>6. \A v \in Listed(a) : ViewsOf(a, v) \in Figure
    BY <1>3, <1>5
<1>7. k = [listed |-> Listed(a), views |-> views, total |-> SourceEntryCount(a),
           status |-> IF Complete(a) THEN "COMPLETE" ELSE "PARTIAL"]
    BY DEF CatalogOf
<1>8. /\ k.listed = Listed(a) /\ k.views = views /\ k.total = SourceEntryCount(a)
      /\ k.status = IF Complete(a) THEN "COMPLETE" ELSE "PARTIAL"
    BY <1>7
<1>9. views \in [Videos -> Figure]
    BY <1>6 DEF Figure
<1>10. Listed(a) \in SUBSET Videos
    BY DEF Listed
<1>11. k \in Catalog
    BY <1>2, <1>7, <1>9, <1>10 DEF Catalog
<1>12. ASSUME k.status = "COMPLETE"
       PROVE  /\ \A v \in k.listed : k.views[v] # NULL
              /\ Cardinality(k.listed) = k.total
    <2>1. Complete(a)
        BY <1>8, <1>12
    <2>2. ASSUME NEW v \in Listed(a) PROVE views[v] # NULL
        <3>1. a.entries[first(v)].video # NULL
            BY <1>5, <1>10, DailyCatalogAssumption
        <3>2. ViewsOf(a, v) # NULL
            BY <1>5, <2>1, <3>1 DEF Complete, MissingViews
        <3> QED
            BY <1>10, <3>2
    <2>3. Cardinality(Listed(a)) = SourceEntryCount(a)
        BY <2>1 DEF Complete
    <2> QED
        BY <1>8, <2>2, <2>3
<1> QED
    BY <1>11, <1>12 DEF SoundCatalog

\* The row of a scan is well typed.
LEMMA ScanOfOK ==
    ASSUME NEW q, q.catalog \in Catalog, q.at \in Times
    PROVE  ScanOf(q) \in Scan
<1>1. {v \in q.catalog.listed : q.catalog.views[v] # NULL} \subseteq Videos
    BY DEF Catalog
<1>2. Cardinality({v \in q.catalog.listed : q.catalog.views[v] # NULL}) \in Nat
    BY <1>1, FS_Subset, FS_CardinalityType, DailyCatalogAssumption
<1> QED
    BY <1>2 DEF ScanOf, Scan, Catalog

----------------------------------------------------------------------------
\* What winning a claim writes.

\* The day a catalogue is kept for.
LEMMA PersistingDay ==
    ASSUME TypeOK, NEW w \in Workers, pass[w].phase = "persisting"
    PROVE  /\ pass[w].chan \in Channels
           /\ pass[w].at \in Times
           /\ Day(pass[w].at) \in Days
           /\ pass[w].catalog \in Catalog
<1>1. /\ pass[w].chan \in Channels /\ pass[w].at \in StartTime..now
      /\ pass[w].catalog \in Catalog
    BY DEF TypeOK, PassUnderWay
<1>2. pass[w].at \in Times
    BY <1>1, DaysAssumption DEF TypeOK, Times
<1> QED
    BY <1>1, <1>2, DayType

\* Winning a claim writes the scan and the snapshots of one channel and day, and
\* nothing else.
LEMMA ClaimWrites ==
    ASSUME TypeOK, NEW w \in Workers, ClaimWon(w)
    PROVE  LET q == pass[w]
               c == q.chan
               d == Day(q.at)
           IN  /\ scan[c][d] = NULL
               /\ scan' \in [Channels -> [Days -> Scan \cup {NULL}]]
               /\ scan'[c][d] = ScanOf(q)
               /\ \A b \in Channels, e \in Days :
                    ~(b = c /\ e = d) => scan'[b][e] = scan[b][e]
               /\ snapshot' \in [Channels -> [Days -> [Videos -> Snapshot \cup {NULL}]]]
               /\ snapshot'[c][d] = SnapshotsOf(q)
               /\ \A b \in Channels, e \in Days :
                    ~(b = c /\ e = d) => snapshot'[b][e] = snapshot[b][e]
<1> DEFINE q == pass[w]
           c == q.chan
           d == Day(q.at)
<1> SUFFICES
      /\ scan[c][d] = NULL
      /\ scan' \in [Channels -> [Days -> Scan \cup {NULL}]]
      /\ scan'[c][d] = ScanOf(q)
      /\ \A b \in Channels, e \in Days : ~(b = c /\ e = d) => scan'[b][e] = scan[b][e]
      /\ snapshot' \in [Channels -> [Days -> [Videos -> Snapshot \cup {NULL}]]]
      /\ snapshot'[c][d] = SnapshotsOf(q)
      /\ \A b \in Channels, e \in Days : ~(b = c /\ e = d) => snapshot'[b][e] = snapshot[b][e]
    OBVIOUS
<1>1. q.phase = "persisting"
    BY DEF ClaimWon
<1>2. c \in Channels /\ q.at \in Times /\ d \in Days /\ q.catalog \in Catalog
    BY <1>1, PersistingDay
<1>3. /\ scan[c][d] = NULL
      /\ scan' = [scan EXCEPT ![c][d] = ScanOf(q)]
      /\ snapshot' = [snapshot EXCEPT ![c][d] = SnapshotsOf(q)]
    BY DEF ClaimWon, Claims
<1>4. ScanOf(q) \in Scan
    BY <1>2, ScanOfOK
<1>5. SnapshotsOf(q) \in [Videos -> Snapshot \cup {NULL}]
    <2>1. snapshot[c][d] \in [Videos -> Snapshot \cup {NULL}]
        BY <1>2 DEF TypeOK
    <2>2. \A v \in Videos : [capturedAt |-> q.at, views |-> q.catalog.views[v]] \in Snapshot
        BY <1>2 DEF Catalog, Snapshot
    <2> QED
        BY <2>1, <2>2 DEF SnapshotsOf
<1>6. /\ scan \in [Channels -> [Days -> Scan \cup {NULL}]]
      /\ snapshot \in [Channels -> [Days -> [Videos -> Snapshot \cup {NULL}]]]
    BY DEF TypeOK
<1> HIDE DEF q, c, d
<1>7. /\ scan' \in [Channels -> [Days -> Scan \cup {NULL}]]
      /\ scan'[c][d] = ScanOf(q)
      /\ \A b \in Channels, e \in Days : ~(b = c /\ e = d) => scan'[b][e] = scan[b][e]
    BY <1>2, <1>3, <1>4, <1>6
<1>8. /\ snapshot' \in [Channels -> [Days -> [Videos -> Snapshot \cup {NULL}]]]
       /\ snapshot'[c][d] = SnapshotsOf(q)
       /\ \A b \in Channels, e \in Days :
            ~(b = c /\ e = d) => snapshot'[b][e] = snapshot[b][e]
    BY <1>2, <1>3, <1>5, <1>6
<1> QED
    BY <1>3, <1>7, <1>8

----------------------------------------------------------------------------
\* The steps.

\* Every step keeps the tables and the passes well formed.
LEMMA StepTypeOK ==
    ASSUME TypeOK, OwnRuns, [Next]_vars
    PROVE  TypeOK' /\ OwnRuns'
<1> USE DEF TypeOK
<1>0. /\ now \in Times /\ StartTime \in Int /\ MaxTime \in Int
      /\ \A w \in Workers : pass[w] \in PassState /\ PassUnderWay(pass[w], now, run)
    BY DaysAssumption
<1>1. ASSUME Tick PROVE TypeOK' /\ OwnRuns'
    <2>1. now' \in Times /\ now' = now + 1 /\ now \in Int
        BY <1>0, <1>1, DaysAssumption DEF Tick, Times
    <2>2. \A w \in Workers : PassUnderWay(pass[w], now', run)
        BY <1>0, <2>1 DEF PassUnderWay
    <2> QED
        BY <1>1, <2>1, <2>2 DEF Tick, evidence, OwnRuns
<1>2. ASSUME NEW w \in Workers, NEW q \in PassState, PassUnderWay(q, now, run),
             OwnOrNew(w, q), pass' = [pass EXCEPT ![w] = q],
             UNCHANGED <<now, evidence, run>>, restarts' \in [Workers -> 0..MaxRestarts]
      PROVE  TypeOK' /\ OwnRuns'
    <2>1. RunsKept(w)
        BY <1>2, RunsUnchanged
    <2>2. PassUnderWay(q, now, run')
        BY <1>2
    <2>3. /\ pass' \in [Workers -> PassState] /\ OwnRuns'
          /\ \A u \in Workers : PassUnderWay(pass'[u], now', run')
        BY <1>2, <2>1, <2>2, PassesKept
    <2> QED
        BY <1>2, <2>3 DEF evidence
<1>3. ASSUME NEW w \in Workers, RunIfDue(w) \/ ListFails(w) \/ Restart(w)
      PROVE  TypeOK' /\ OwnRuns'
    <2>1. PICK q \in {IdlePass, [IdlePass EXCEPT !.phase = "listing"]} :
              pass' = [pass EXCEPT ![w] = q]
        BY <1>3 DEF RunIfDue, ListFails, Restart
    <2>2. q \in PassState /\ q.phase \in {"idle", "listing"}
        <3> HIDE DEF TypeOK
        <3> QED
            BY <2>1 DEF IdlePass, PassState, Phases
    <2>3. PassUnderWay(q, now, run) /\ OwnOrNew(w, q)
        BY <2>2 DEF PassUnderWay, OwnOrNew, Owns
    <2>4. restarts' \in [Workers -> 0..MaxRestarts]
        BY <1>3, DailyCatalogAssumption DEF RunIfDue, ListFails, Restart
    <2> QED
        BY <1>2, <1>3, <2>1, <2>2, <2>3, <2>4 DEF RunIfDue, ListFails, Restart
<1>4. ASSUME NEW w \in Workers, ListEnabled(w) PROVE TypeOK' /\ OwnRuns'
    <2>1. PICK S \in SUBSET Channels :
              pass' = [pass EXCEPT ![w] = NextChannel([@ EXCEPT !.todo = S])]
        BY <1>4 DEF ListEnabled
    <2> DEFINE p == [pass[w] EXCEPT !.todo = S]
               q == NextChannel(p)
    <2>2. p.todo \subseteq Channels
        BY <1>0, <2>1 DEF PassState
    <2>3. /\ q \in PassState /\ q.phase \in {"idle", "finding"}
          /\ q.phase = "finding" => q.chan \in Channels /\ q.at = now
        BY <1>0, <2>2, NextChannelOK
    <2>4. pass' = [pass EXCEPT ![w] = q]
        BY <2>1
    <2> HIDE DEF p, q
    <2>5. PassUnderWay(q, now, run) /\ OwnOrNew(w, q)
        BY <1>0, <2>3 DEF PassUnderWay, OwnOrNew, Owns, Times
    <2> QED
        BY <1>2, <1>4, <2>3, <2>4, <2>5 DEF ListEnabled
<1>5. ASSUME NEW w \in Workers, FindsScan(w) \/ QueryFails(w) \/ FailRunFails(w)
      PROVE  TypeOK' /\ OwnRuns'
    <2>1. GoOn(w) /\ UNCHANGED <<now, evidence, run, restarts>>
        BY <1>5 DEF FindsScan, QueryFails, FailRunFails
    <2>2. RunsKept(w)
        BY <2>1, RunsUnchanged
    <2>3. /\ pass' \in [Workers -> PassState] /\ OwnRuns'
          /\ \A u \in Workers : PassUnderWay(pass'[u], now', run')
        BY <2>1, <2>2, GoesOn
    <2> QED
        BY <2>1, <2>3 DEF evidence
<1>6. ASSUME NEW w \in Workers, FindsNoScan(w) PROVE TypeOK' /\ OwnRuns'
    <2> DEFINE q == [pass[w] EXCEPT !.phase = "starting", !.at = now]
    <2>1. pass' = [pass EXCEPT ![w] = q]
        BY <1>0, <1>6 DEF FindsNoScan, PassState
    <2>2. /\ q \in PassState /\ q.phase = "starting" /\ q.at = now
          /\ q.chan = pass[w].chan
        BY <1>0 DEF PassState, Phases
    <2>3. pass[w].chan \in Channels
        BY <1>0, <1>6 DEF FindsNoScan, PassUnderWay
    <2> HIDE DEF q
    <2>4. PassUnderWay(q, now, run) /\ OwnOrNew(w, q)
        BY <1>0, <2>2, <2>3 DEF PassUnderWay, OwnOrNew, Owns, Times
    <2> QED
        BY <1>2, <1>6, <2>1, <2>2, <2>4 DEF FindsNoScan
<1>7. ASSUME NEW w \in Workers,
             CollectCrossesMidnight(w) \/ CollectFails(w) \/ PersistFails(w)
      PROVE  TypeOK' /\ OwnRuns'
    <2> DEFINE q == [pass[w] EXCEPT !.phase = "failing"]
    <2>1. pass' = [pass EXCEPT ![w] = q] /\ Owns(pass[w])
        BY <1>0, <1>7 DEF CollectCrossesMidnight, CollectFails, PersistFails, Owns
    <2>2. /\ q \in PassState /\ q.phase = "failing" /\ q.at = pass[w].at
          /\ q.chan = pass[w].chan /\ q.run = pass[w].run
        BY <1>0 DEF PassState, Phases
    <2> HIDE DEF q
    <2>3. PassUnderWay(q, now, run) /\ OwnOrNew(w, q)
        BY <1>0, <2>1, <2>2 DEF PassUnderWay, OwnOrNew, Owns
    <2> QED
        BY <1>2, <1>7, <2>1, <2>2, <2>3 DEF CollectCrossesMidnight, CollectFails, PersistFails
<1>8. ASSUME NEW w \in Workers, CollectSucceeds(w) PROVE TypeOK' /\ OwnRuns'
    <2>1. PICK a \in Answers :
              pass' = [pass EXCEPT ![w].phase = "persisting", ![w].at = now,
                                   ![w].catalog = CatalogOf(a)]
        BY <1>8 DEF CollectSucceeds
    <2> DEFINE q == [pass[w] EXCEPT !.phase = "persisting", !.at = now,
                                    !.catalog = CatalogOf(a)]
    <2>2. CatalogOf(a) \in Catalog
        BY CatalogOfOK
    <2>3. pass' = [pass EXCEPT ![w] = q]
        BY <2>1
    <2>4. /\ q \in PassState /\ q.phase = "persisting" /\ q.at = now
          /\ q.chan = pass[w].chan /\ q.run = pass[w].run /\ q.catalog = CatalogOf(a)
        BY <1>0, <2>2 DEF PassState, Phases
    <2> HIDE DEF q
    <2>5. /\ pass[w].phase = "collecting" /\ Owns(pass[w])
          /\ Day(now) = Day(pass[w].at)
        BY <1>8 DEF CollectSucceeds, SameDay, Owns
    <2>6. /\ pass[w].chan \in Channels /\ pass[w].at \in StartTime..now
          /\ pass[w].run \in 1..Len(run)
          /\ run[pass[w].run].chan = pass[w].chan
          /\ run[pass[w].run].status = "RUNNING"
          /\ run[pass[w].run].startedAt <= pass[w].at
        BY <1>0, <2>5 DEF PassUnderWay
    <2>7. Day(run[pass[w].run].startedAt) = Day(now) /\ run[pass[w].run].startedAt <= now
        BY <1>0, <2>5, <2>6 DEF PassUnderWay, Times
    <2>8. PassUnderWay(q, now, run) /\ OwnOrNew(w, q)
        BY <1>0, <2>2, <2>4, <2>5, <2>6, <2>7 DEF PassUnderWay, OwnOrNew, Times
    <2> QED
        BY <1>2, <1>8, <2>3, <2>4, <2>8 DEF CollectSucceeds
<1>9. ASSUME NEW w \in Workers, RunStarts(w) PROVE TypeOK' /\ OwnRuns'
    <2> DEFINE new == [worker |-> w, chan |-> pass[w].chan, startedAt |-> pass[w].at,
                       status |-> "RUNNING"]
               q == [pass[w] EXCEPT !.phase = "collecting", !.run = Len(run) + 1]
    <2>1. pass[w].chan \in Channels /\ pass[w].at \in StartTime..now
        BY <1>0, <1>9 DEF RunStarts, PassUnderWay
    <2>2. new \in Run /\ new.chan = pass[w].chan /\ new.startedAt = pass[w].at
        BY <1>0, <2>1 DEF Run, Times
    <2>3. run' = Append(run, new)
        BY <1>9 DEF RunStarts
    <2>4. new.status = "RUNNING"
        OBVIOUS
    <2> HIDE DEF new
    <2>5. /\ run' \in Seq(Run) /\ Len(run') = Len(run) + 1 /\ Len(run) \in Nat
          /\ run'[Len(run) + 1] = new
          /\ \A i \in 1..Len(run) : run'[i] = run[i]
        BY <2>2, <2>3
    <2>6. RunsKept(w)
        BY <2>5 DEF RunsKept
    <2>7. pass' = [pass EXCEPT ![w] = q]
        <3>1. pass' = [pass EXCEPT ![w].phase = "collecting", ![w].run = Len(run) + 1]
            BY <1>9 DEF RunStarts
        <3> HIDE DEF TypeOK
        <3> QED
            BY <3>1
    <2>8. /\ q \in PassState /\ q.phase = "collecting" /\ q.at = pass[w].at
          /\ q.chan = pass[w].chan /\ q.run = Len(run) + 1
        <3>1. pass[w] \in PassState
            BY <1>0
        <3>2. Len(run) + 1 \in Nat
            BY <2>5
        <3> HIDE DEF TypeOK
        <3>3. ASSUME NEW p \in PassState, NEW n \in Nat
              PROVE  LET r == [p EXCEPT !.phase = "collecting", !.run = n]
                     IN  /\ r \in PassState /\ r.phase = "collecting" /\ r.at = p.at
                         /\ r.chan = p.chan /\ r.run = n
            BY DEF PassState, Phases
        <3> QED
            BY <3>1, <3>2, <3>3
    <2> HIDE DEF q
    <2>9. PassUnderWay(q, now, run') /\ OwnOrNew(w, q)
        BY <1>0, <2>1, <2>2, <2>4, <2>5, <2>8 DEF PassUnderWay, OwnOrNew, Times
    <2>10. /\ pass' \in [Workers -> PassState] /\ OwnRuns'
           /\ \A u \in Workers : PassUnderWay(pass'[u], now', run')
        BY <1>9, <2>6, <2>7, <2>8, <2>9, PassesKept DEF RunStarts
    <2> QED
        BY <1>9, <2>5, <2>10 DEF RunStarts, evidence
<1>10. ASSUME NEW w \in Workers, NEW s \in {"SUCCESS", "PARTIAL", "FAILED"},
              Owns(pass[w]), run' = Settled(pass[w], s), GoOn(w),
              UNCHANGED <<now, restarts>>
       PROVE  /\ run' \in Seq(Run) /\ OwnRuns'
              /\ pass' \in [Workers -> PassState]
              /\ \A u \in Workers : PassUnderWay(pass'[u], now', run')
    <2>1. RunsKept(w)
        BY <1>10, RunsSettled
    <2> QED
        BY <1>10, <2>1, GoesOn DEF RunsKept
<1>11. ASSUME NEW w \in Workers, ClaimWon(w) PROVE TypeOK' /\ OwnRuns'
    <2>1. Owns(pass[w]) /\ RunStatus(pass[w].catalog.status) \in {"SUCCESS", "PARTIAL", "FAILED"}
        BY <1>11 DEF ClaimWon, Owns, RunStatus
    <2>2. /\ run' = Settled(pass[w], RunStatus(pass[w].catalog.status))
          /\ GoOn(w) /\ UNCHANGED <<now, restarts>>
        BY <1>11 DEF ClaimWon
    <2>3. /\ run' \in Seq(Run) /\ OwnRuns'
          /\ pass' \in [Workers -> PassState]
          /\ \A u \in Workers : PassUnderWay(pass'[u], now', run')
        BY <1>10, <2>1, <2>2
    <2>4. /\ scan' \in [Channels -> [Days -> Scan \cup {NULL}]]
          /\ snapshot' \in [Channels -> [Days -> [Videos -> Snapshot \cup {NULL}]]]
        BY <1>11, ClaimWrites
    <2> QED
        BY <2>2, <2>3, <2>4
<1>12. ASSUME NEW w \in Workers, ClaimLost(w) \/ FailRun(w) PROVE TypeOK' /\ OwnRuns'
    <2>1. PICK s \in {"SUCCESS", "PARTIAL", "FAILED"} : run' = Settled(pass[w], s)
        BY <1>12 DEF ClaimLost, FailRun, RunStatus
    <2>2. Owns(pass[w]) /\ GoOn(w) /\ UNCHANGED <<now, evidence, restarts>>
        BY <1>12 DEF ClaimLost, FailRun, Owns
    <2>3. /\ run' \in Seq(Run) /\ OwnRuns'
          /\ pass' \in [Workers -> PassState]
          /\ \A u \in Workers : PassUnderWay(pass'[u], now', run')
        BY <1>10, <2>1, <2>2
    <2> QED
        BY <2>2, <2>3 DEF evidence
<1>13. CASE UNCHANGED vars
    BY <1>13 DEF vars, evidence, OwnRuns
<1> QED
    BY <1>1, <1>3, <1>4, <1>5, <1>6, <1>7, <1>8, <1>9, <1>11, <1>12, <1>13
    DEF Next, PassStep

\* The first state is well formed.
LEMMA InitTypeOK == Init => TypeOK /\ OwnRuns
<1> SUFFICES ASSUME Init PROVE TypeOK /\ OwnRuns
    OBVIOUS
<1>1. now \in Times
    BY DaysAssumption DEF Init, Times
<1>2. run \in Seq(Run)
    BY DEF Init
<1>3. pass \in [Workers -> PassState] /\ \A w \in Workers : pass[w].phase = "idle"
    BY IdlePassOK DEF Init
<1>4. restarts \in [Workers -> 0..MaxRestarts]
    BY DailyCatalogAssumption DEF Init
<1>5. \A w \in Workers : PassUnderWay(pass[w], now, run)
    BY <1>3 DEF PassUnderWay
<1> QED
    BY <1>1, <1>2, <1>3, <1>4, <1>5 DEF Init, TypeOK, OwnRuns, Owns

\* Type correctness, with the ownership of runs it needs.
THEOREM TypeCorrect == Spec => []TypeOK
<1>1. Spec => [](TypeOK /\ OwnRuns)
    <2>1. Init => TypeOK /\ OwnRuns
        BY InitTypeOK
    <2>2. TypeOK /\ OwnRuns /\ [Next]_vars => (TypeOK /\ OwnRuns)'
        BY StepTypeOK
    <2> QED
        BY <2>1, <2>2, PTL DEF Spec
<1> QED
    BY <1>1, PTL

----------------------------------------------------------------------------
\* The evidence.

\* A day without a scan has no snapshots; the evidence of a day with one is sound.
EvidenceSound ==
    \A c \in Channels, d \in Days :
        IF scan[c][d] = NULL
        THEN \A v \in Videos : snapshot[c][d][v] = NULL
        ELSE [scan |-> scan[c][d], snapshots |-> snapshot[c][d]] \in SoundEvidence

CatalogsSound ==
    \A w \in Workers : pass[w].phase = "persisting" => SoundCatalog(pass[w].catalog)

\* Only winning a claim touches the evidence.
LEMMA EvidenceChanges ==
    ASSUME [Next]_vars
    PROVE  UNCHANGED evidence \/ \E w \in Workers : ClaimWon(w)
BY DEF Next, vars, Tick, PassStep, RunIfDue, Restart, ListEnabled, ListFails, FindsScan,
       FindsNoScan, QueryFails, RunStarts, CollectSucceeds, CollectCrossesMidnight,
       CollectFails, ClaimLost, PersistFails, FailRun, FailRunFails

\* What winning a claim leaves for its channel and day is sound.
LEMMA ClaimSound ==
    ASSUME TypeOK, EvidenceSound, CatalogsSound, NEW w \in Workers, ClaimWon(w)
    PROVE  LET c == pass[w].chan
               d == Day(pass[w].at)
           IN  /\ [scan |-> scan'[c][d], snapshots |-> snapshot'[c][d]] \in SoundEvidence
               /\ scan'[c][d] \in Scan
               /\ \A v \in Videos : snapshot'[c][d][v] # NULL <=> v \in pass[w].catalog.listed
<1> DEFINE q == pass[w]
           c == q.chan
           d == Day(q.at)
           k == q.catalog
           shots == snapshot'[c][d]
           r == [scan |-> scan'[c][d], snapshots |-> shots]
           counted == {v \in k.listed : k.views[v] # NULL}
<1> SUFFICES /\ r \in SoundEvidence
             /\ scan'[c][d] \in Scan
             /\ \A v \in Videos : shots[v] # NULL <=> v \in k.listed
    OBVIOUS
<1>1. q.phase = "persisting"
    BY DEF ClaimWon
<1>2. c \in Channels /\ q.at \in Times /\ d \in Days /\ k \in Catalog
    BY <1>1, PersistingDay
<1>3. /\ scan[c][d] = NULL /\ scan'[c][d] = ScanOf(q)
      /\ shots = SnapshotsOf(q)
      /\ snapshot' \in [Channels -> [Days -> [Videos -> Snapshot \cup {NULL}]]]
    BY ClaimWrites
<1>4. ScanOf(q) \in Scan
    BY <1>2, ScanOfOK
<1>5. \A v \in Videos : snapshot[c][d][v] = NULL
    BY <1>2, <1>3 DEF EvidenceSound
<1>6. SoundCatalog(k)
    BY <1>1 DEF CatalogsSound
<1>7. \A v \in Videos :
        shots[v] = IF v \in k.listed THEN [capturedAt |-> q.at, views |-> k.views[v]] ELSE NULL
    BY <1>2, <1>3, <1>5 DEF SnapshotsOf
<1>8. \A v \in Videos : [capturedAt |-> q.at, views |-> k.views[v]] \in Snapshot
    BY <1>2 DEF Catalog, Snapshot
<1>9. k.listed \subseteq Videos
    BY <1>2 DEF Catalog
<1>10. \A v \in Videos : shots[v] # NULL <=> v \in k.listed
    BY <1>7, <1>8, CatalogNullAssumption
<1>11. r \in Evidence /\ r.scan = ScanOf(q) /\ r.snapshots = shots
    <2>1. shots \in [Videos -> Snapshot \cup {NULL}]
        BY <1>2, <1>3
    <2> QED
        BY <1>3, <1>4, <2>1 DEF Evidence
<1>12. ScanOf(q) = [capturedAt |-> q.at, total |-> k.total,
                    withViews |-> Cardinality(counted), status |-> k.status]
    BY DEF ScanOf
<1> HIDE DEF r, shots, q, c, d, k, counted
<1>13. ListedIn(r) = k.listed
    BY <1>9, <1>10, <1>11 DEF ListedIn
<1>14. \A v \in k.listed :
         shots[v].capturedAt = q.at /\ shots[v].views = k.views[v]
    <2>1. SUFFICES ASSUME NEW v \in k.listed
                   PROVE  shots[v].capturedAt = q.at /\ shots[v].views = k.views[v]
        OBVIOUS
    <2>2. shots[v] = [capturedAt |-> q.at, views |-> k.views[v]]
        BY <1>7, <1>9
    <2> QED
        BY <2>2
<1>15. ViewedIn(r) = counted
    BY <1>11, <1>13, <1>14 DEF ViewedIn, counted
<1>16. /\ r.scan.capturedAt = q.at /\ r.scan.total = k.total
       /\ r.scan.withViews = Cardinality(counted) /\ r.scan.status = k.status
    BY <1>11, <1>12
<1>17. ASSUME k.status = "COMPLETE"
       PROVE  counted = k.listed /\ Cardinality(k.listed) = k.total
    BY <1>6, <1>17 DEF SoundCatalog, counted
<1>18. r \in SoundEvidence
    BY <1>11, <1>13, <1>14, <1>15, <1>16, <1>17 DEF SoundEvidence
<1> QED
    BY <1>3, <1>4, <1>10, <1>18

\* The evidence stays sound.
LEMMA StepEvidence ==
    ASSUME TypeOK, EvidenceSound, CatalogsSound, [Next]_vars
    PROVE  EvidenceSound'
<1>1. CASE UNCHANGED evidence
    BY <1>1 DEF evidence, EvidenceSound
<1>2. ASSUME NEW w \in Workers, ClaimWon(w) PROVE EvidenceSound'
    <2> DEFINE c == pass[w].chan
               d == Day(pass[w].at)
    <2>1. /\ [scan |-> scan'[c][d], snapshots |-> snapshot'[c][d]] \in SoundEvidence
          /\ scan'[c][d] # NULL
        BY <1>2, ClaimSound, CatalogNullAssumption
    <2>2. \A b \in Channels, e \in Days :
            ~(b = c /\ e = d) => scan'[b][e] = scan[b][e] /\ snapshot'[b][e] = snapshot[b][e]
        BY <1>2, ClaimWrites
    <2> HIDE DEF c, d
    <2>3. SUFFICES ASSUME NEW b \in Channels, NEW e \in Days
                   PROVE  IF scan'[b][e] = NULL
                          THEN \A v \in Videos : snapshot'[b][e][v] = NULL
                          ELSE [scan |-> scan'[b][e], snapshots |-> snapshot'[b][e]]
                                 \in SoundEvidence
        BY DEF EvidenceSound
    <2>4. CASE b = c /\ e = d
        BY <2>1, <2>4
    <2>5. CASE ~(b = c /\ e = d)
        BY <2>2, <2>5 DEF EvidenceSound
    <2> QED
        BY <2>4, <2>5
<1> QED
    BY <1>1, <1>2, EvidenceChanges

\* A loop that goes on persists nothing yet.
LEMMA GoesOnPhases ==
    ASSUME TypeOK, CatalogsSound, NEW w \in Workers, GoOn(w)
    PROVE  CatalogsSound'
<1>1. pass[w].todo \subseteq Channels /\ now \in Times
    BY DEF TypeOK, PassState
<1>2. NextChannel(pass[w]).phase # "persisting"
    BY <1>1, NextChannelOK
<1>3. pass'[w].phase # "persisting" /\ \A u \in Workers \ {w} : pass'[u] = pass[u]
    BY <1>2 DEF GoOn, TypeOK
<1> QED
    BY <1>3 DEF CatalogsSound, SoundCatalog

\* Catalogues waiting to be stored stay sound.
LEMMA StepCatalogs ==
    ASSUME TypeOK, CatalogsSound, [Next]_vars
    PROVE  CatalogsSound'
<1>1. ASSUME NEW w \in Workers, NEW q, pass' = [pass EXCEPT ![w] = q],
             q.phase = "persisting" => SoundCatalog(q.catalog)
      PROVE  CatalogsSound'
    <2>1. pass'[w] = q /\ \A u \in Workers \ {w} : pass'[u] = pass[u]
        BY <1>1 DEF TypeOK
    <2> QED
        BY <1>1, <2>1 DEF CatalogsSound, SoundCatalog
<1>2. \A w \in Workers : pass[w] \in PassState
    BY DEF TypeOK
<1>3. ASSUME NEW w \in Workers, RunIfDue(w) \/ ListFails(w) \/ Restart(w)
      PROVE  CatalogsSound'
    <2>1. PICK q \in {IdlePass, [IdlePass EXCEPT !.phase = "listing"]} :
              pass' = [pass EXCEPT ![w] = q]
        BY <1>3 DEF RunIfDue, ListFails, Restart
    <2>2. q.phase # "persisting"
        BY <2>1 DEF IdlePass
    <2> QED
        BY <1>1, <2>1, <2>2
<1>4. ASSUME NEW w \in Workers, ListEnabled(w) PROVE CatalogsSound'
    <2>1. PICK S \in SUBSET Channels :
              pass' = [pass EXCEPT ![w] = NextChannel([@ EXCEPT !.todo = S])]
        BY <1>4 DEF ListEnabled
    <2> DEFINE p == [pass[w] EXCEPT !.todo = S]
    <2>2. p.todo \subseteq Channels /\ now \in Times
        BY <1>2, <2>1 DEF PassState, TypeOK
    <2>3. NextChannel(p).phase # "persisting"
        BY <2>2, NextChannelOK
    <2>4. pass' = [pass EXCEPT ![w] = NextChannel(p)]
        BY <2>1
    <2> HIDE DEF p
    <2> QED
        BY <1>1, <2>3, <2>4
<1>5. ASSUME NEW w \in Workers, FindsNoScan(w) PROVE CatalogsSound'
    <2> DEFINE q == [pass[w] EXCEPT !.phase = "starting", !.at = now]
    <2>1. pass' = [pass EXCEPT ![w] = q] /\ q.phase # "persisting"
        BY <1>2, <1>5 DEF FindsNoScan, PassState
    <2> HIDE DEF q
    <2> QED
        BY <1>1, <2>1
<1>6. ASSUME NEW w \in Workers, RunStarts(w) PROVE CatalogsSound'
    <2> DEFINE q == [pass[w] EXCEPT !.phase = "collecting", !.run = Len(run) + 1]
    <2>1. pass' = [pass EXCEPT ![w].phase = "collecting", ![w].run = Len(run) + 1]
        BY <1>6 DEF RunStarts
    <2>2. pass' = [pass EXCEPT ![w] = q] /\ q.phase # "persisting"
        BY <1>2, <2>1 DEF PassState
    <2> HIDE DEF q
    <2> QED
        BY <1>1, <2>2
<1>7. ASSUME NEW w \in Workers,
             CollectCrossesMidnight(w) \/ CollectFails(w) \/ PersistFails(w)
      PROVE  CatalogsSound'
    <2> DEFINE q == [pass[w] EXCEPT !.phase = "failing"]
    <2>1. pass' = [pass EXCEPT ![w] = q] /\ q.phase # "persisting"
        BY <1>2, <1>7 DEF CollectCrossesMidnight, CollectFails, PersistFails, PassState
    <2> HIDE DEF q
    <2> QED
        BY <1>1, <2>1
<1>8. ASSUME NEW w \in Workers, CollectSucceeds(w) PROVE CatalogsSound'
    <2>1. PICK a \in Answers :
              pass' = [pass EXCEPT ![w].phase = "persisting", ![w].at = now,
                                   ![w].catalog = CatalogOf(a)]
        BY <1>8 DEF CollectSucceeds
    <2> DEFINE q == [pass[w] EXCEPT !.phase = "persisting", !.at = now,
                                    !.catalog = CatalogOf(a)]
    <2>2. pass' = [pass EXCEPT ![w] = q] /\ q.catalog = CatalogOf(a)
        BY <1>2, <2>1 DEF PassState
    <2>3. SoundCatalog(CatalogOf(a))
        BY CatalogOfOK
    <2> HIDE DEF q
    <2> QED
        BY <1>1, <2>2, <2>3
<1>9. ASSUME NEW w \in Workers,
             FindsScan(w) \/ QueryFails(w) \/ ClaimWon(w) \/ ClaimLost(w)
               \/ FailRun(w) \/ FailRunFails(w)
      PROVE  CatalogsSound'
    <2>1. GoOn(w)
        BY <1>9 DEF FindsScan, QueryFails, ClaimWon, ClaimLost, FailRun, FailRunFails
    <2> QED
        BY <2>1, GoesOnPhases
<1>10. CASE UNCHANGED pass
    BY <1>10 DEF CatalogsSound, SoundCatalog
<1> QED
    BY <1>3, <1>4, <1>5, <1>6, <1>7, <1>8, <1>9, <1>10 DEF Next, PassStep, Tick, vars

\* The tables before the first scan.
LEMMA InitEvidence == Init => EvidenceSound /\ CatalogsSound
BY IdlePassOK DEF Init, EvidenceSound, CatalogsSound

\* The evidence is sound in every state.
LEMMA EvidenceAlwaysSound == Spec => [](TypeOK /\ EvidenceSound /\ CatalogsSound)
<1>1. Init => EvidenceSound /\ CatalogsSound
    BY InitEvidence
<1>2. TypeOK /\ EvidenceSound /\ CatalogsSound /\ [Next]_vars
        => EvidenceSound' /\ CatalogsSound'
    BY StepEvidence, StepCatalogs
<1> QED
    BY <1>1, <1>2, TypeCorrect, PTL DEF Spec

----------------------------------------------------------------------------
\* A day's evidence is one row, published once.

rowsOf == [k \in Channels \X Days |-> EvidenceOf(k[1], k[2])]

\* A day has a row once it is scanned.
LEMMA RowOf ==
    ASSUME TypeOK, EvidenceSound, NEW c \in Channels, NEW d \in Days
    PROVE  /\ scan[c][d] = NULL => EvidenceOf(c, d) = NULL
           /\ scan[c][d] # NULL =>
                /\ EvidenceOf(c, d) = [scan |-> scan[c][d], snapshots |-> snapshot[c][d]]
                /\ EvidenceOf(c, d) \in SoundEvidence
                /\ EvidenceOf(c, d) # NULL
<1>1. CASE scan[c][d] = NULL
    BY <1>1 DEF EvidenceSound, EvidenceOf
<1>2. CASE scan[c][d] # NULL
    <2>1. EvidenceOf(c, d) = [scan |-> scan[c][d], snapshots |-> snapshot[c][d]]
        BY <1>2 DEF EvidenceOf
    <2>2. EvidenceOf(c, d) \in SoundEvidence
        BY <1>2, <2>1 DEF EvidenceSound
    <2>3. SoundEvidence \subseteq Evidence
        BY DEF SoundEvidence
    <2> QED
        BY <1>2, <2>1, <2>2, <2>3, CatalogNullAssumption
<1> QED
    BY <1>1, <1>2

\* Winning a claim publishes the row of its channel and day.
LEMMA ClaimPublishes ==
    ASSUME TypeOK, EvidenceSound, TypeOK', EvidenceSound', NEW w \in Workers, ClaimWon(w)
    PROVE  Canonical!Next
<1>1. pass[w].phase = "persisting"
    BY DEF ClaimWon
<1>2. PICK c \in Channels, d \in Days : c = pass[w].chan /\ d = Day(pass[w].at)
    BY <1>1, PersistingDay
<1>3. /\ scan[c][d] = NULL /\ scan'[c][d] = ScanOf(pass[w])
      /\ \A b \in Channels, e \in Days :
           ~(b = c /\ e = d) => scan'[b][e] = scan[b][e] /\ snapshot'[b][e] = snapshot[b][e]
    BY <1>2, ClaimWrites
<1>4. scan'[c][d] # NULL
    <2>1. pass[w].catalog \in Catalog /\ pass[w].at \in Times
        BY <1>1, PersistingDay
    <2> QED
        BY <1>3, <2>1, ScanOfOK, CatalogNullAssumption
<1>5. EvidenceOf(c, d) = NULL
    BY <1>3, RowOf
<1>6. ASSUME NEW b \in Channels, NEW e \in Days
      PROVE  /\ EvidenceOf(b, e)' \in SoundEvidence \cup {NULL}
             /\ scan'[b][e] # NULL => EvidenceOf(b, e)' # NULL
    <2>1. CASE scan'[b][e] = NULL
        BY <2>1 DEF EvidenceSound, EvidenceOf
    <2>2. CASE scan'[b][e] # NULL
        <3>1. EvidenceOf(b, e)' = [scan |-> scan'[b][e], snapshots |-> snapshot'[b][e]]
            BY <2>2 DEF EvidenceOf
        <3>2. EvidenceOf(b, e)' \in SoundEvidence
            BY <2>2, <3>1 DEF EvidenceSound
        <3>3. SoundEvidence \subseteq Evidence
            BY DEF SoundEvidence
        <3> QED
            BY <3>2, <3>3, CatalogNullAssumption
    <2> QED
        BY <2>1, <2>2
<1>7. EvidenceOf(c, d)' # NULL
    BY <1>4, <1>6
<1>8. ASSUME NEW b \in Channels, NEW e \in Days, ~(b = c /\ e = d)
      PROVE  EvidenceOf(b, e)' = EvidenceOf(b, e)
    BY <1>3, <1>8 DEF EvidenceOf
<1> DEFINE k == <<c, d>>
<1>9. k \in Channels \X Days /\ k[1] = c /\ k[2] = d
    OBVIOUS
<1>10. rowsOf[k] = NULL /\ rowsOf'[k] # NULL
    BY <1>5, <1>7, <1>9 DEF rowsOf
<1>11. rowsOf' \in [Channels \X Days -> SoundEvidence \cup {NULL}]
    BY <1>6 DEF rowsOf
<1>12. \A j \in (Channels \X Days) \ {k} : rowsOf'[j] = rowsOf[j]
    BY <1>8, <1>9 DEF rowsOf
<1> HIDE DEF k
<1> QED
    BY <1>9, <1>10, <1>11, <1>12 DEF Canonical!Next, Canonical!Publish, rowsOf

\* The evidence of a channel's day appears whole, once, sound, and never changes:
\* DailyCatalog implements CanonicalRows.
THEOREM EvidenceCanonical == Spec => EvidenceIsCanonical
<1>1. Init => Canonical!Init
    BY DEF Init, Canonical!Init, EvidenceOf
<1>2. ASSUME TypeOK, EvidenceSound, TypeOK', EvidenceSound', [Next]_vars
      PROVE  [Canonical!Next]_rowsOf
    <2>1. CASE UNCHANGED evidence
        BY <2>1 DEF evidence, rowsOf, EvidenceOf
    <2>2. CASE \E w \in Workers : ClaimWon(w)
        BY <1>2, <2>2, ClaimPublishes
    <2> QED
        BY <1>2, <2>1, <2>2, EvidenceChanges
<1> QED
    BY <1>1, <1>2, EvidenceAlwaysSound, PTL DEF Spec, EvidenceIsCanonical, Canonical!Spec, rowsOf

----------------------------------------------------------------------------
\* What runs tell, and which runs leave a scan.

RunsSound == RunsTellTheTruth /\ CollectedWithinTheDay

\* A run that is settled beside a scan of its channel and day tells its status.
LEMMA RunSettledSound ==
    ASSUME TypeOK, OwnRuns, RunsSound, UNCHANGED evidence, NEW w \in Workers,
           Owns(pass[w]), NEW s \in {"SUCCESS", "PARTIAL", "FAILED"},
           run' = Settled(pass[w], s),
           s # "FAILED" =>
             LET row == scan[run[pass[w].run].chan][Day(run[pass[w].run].startedAt)]
             IN  row # NULL /\ s = RunStatus(row.status)
    PROVE  RunsSound'
<1> DEFINE k == pass[w].run
<1>1. /\ k \in 1..Len(run) /\ Len(run') = Len(run) /\ run'[k].status = s
      /\ run'[k].chan = run[k].chan /\ run'[k].startedAt = run[k].startedAt
      /\ \A i \in 1..Len(run) : i # k => run'[i] = run[i]
    BY RunsSettled DEF RunsKept
<1>2. run[k].status = "RUNNING"
    BY DEF TypeOK, PassUnderWay, Owns
<1>3. scan' = scan
    BY DEF evidence
<1> HIDE DEF k
<1>4. RunsTellTheTruth'
    <2>1. SUFFICES ASSUME NEW i \in 1..Len(run'), run'[i].status \in {"SUCCESS", "PARTIAL"}
                   PROVE  LET row == scan'[run'[i].chan][Day(run'[i].startedAt)]
                          IN  row # NULL /\ run'[i].status = RunStatus(row.status)
        BY DEF RunsTellTheTruth, Day, RunStatus
    <2>2. CASE i = k
        BY <1>1, <1>3, <2>1, <2>2 DEF k
    <2>3. CASE i # k
        BY <1>1, <1>3, <2>1, <2>3 DEF RunsSound, RunsTellTheTruth
    <2> QED
        BY <2>2, <2>3
<1>5. CollectedWithinTheDay'
    <2>1. SUFFICES ASSUME NEW c \in Channels, NEW d \in Days, scan[c][d] # NULL
                   PROVE  /\ Day(scan[c][d].capturedAt) = d
                          /\ \E i \in 1..Len(run') :
                               /\ run'[i].chan = c
                               /\ run'[i].status \in {"SUCCESS", "PARTIAL"}
                               /\ Day(run'[i].startedAt) = d
                               /\ run'[i].startedAt <= scan[c][d].capturedAt
        BY <1>3 DEF CollectedWithinTheDay, Day
    <2>2. /\ Day(scan[c][d].capturedAt) = d
          /\ \E i \in 1..Len(run) :
               /\ run[i].chan = c
               /\ run[i].status \in {"SUCCESS", "PARTIAL"}
               /\ Day(run[i].startedAt) = d
               /\ run[i].startedAt <= scan[c][d].capturedAt
        BY <2>1 DEF RunsSound, CollectedWithinTheDay
    <2> QED
        BY <1>1, <1>2, <2>2
<1> QED
    BY <1>4, <1>5 DEF RunsSound

\* Runs go on telling the truth, and scans go on being of their day.
LEMMA StepRuns ==
    ASSUME TypeOK, OwnRuns, RunsSound, [Next]_vars
    PROVE  RunsSound'
<1>1. CASE UNCHANGED <<evidence, run>>
    BY <1>1 DEF evidence, RunsSound, RunsTellTheTruth, CollectedWithinTheDay, Day, RunStatus
<1>2. ASSUME NEW w \in Workers, RunStarts(w) PROVE RunsSound'
    <2> DEFINE new == [worker |-> w, chan |-> pass[w].chan, startedAt |-> pass[w].at,
                       status |-> "RUNNING"]
    <2>1. pass[w].chan \in Channels /\ pass[w].at \in Times
        <3>1. pass[w].chan \in Channels /\ pass[w].at \in StartTime..now /\ now \in Times
            BY <1>2 DEF RunStarts, TypeOK, PassUnderWay
        <3> QED
            BY <3>1, DaysAssumption DEF Times
    <2>2. new \in Run /\ new.status = "RUNNING"
        BY <2>1 DEF Run
    <2>3. run \in Seq(Run) /\ run' = Append(run, new) /\ scan' = scan
        BY <1>2 DEF RunStarts, TypeOK, evidence
    <2> HIDE DEF new
    <2>4. /\ Len(run') = Len(run) + 1 /\ Len(run) \in Nat
          /\ run'[Len(run) + 1] = new
          /\ \A i \in 1..Len(run) : run'[i] = run[i]
        BY <2>2, <2>3
    <2>5. RunsTellTheTruth'
        <3>1. SUFFICES ASSUME NEW i \in 1..Len(run'), run'[i].status \in {"SUCCESS", "PARTIAL"}
                       PROVE  LET row == scan[run'[i].chan][Day(run'[i].startedAt)]
                              IN  row # NULL /\ run'[i].status = RunStatus(row.status)
            BY <2>3 DEF RunsTellTheTruth, Day, RunStatus
        <3>2. i # Len(run) + 1
            BY <2>2, <2>4, <3>1
        <3>3. i \in 1..Len(run) /\ run'[i] = run[i]
            BY <2>4, <3>2
        <3> QED
            BY <3>1, <3>3 DEF RunsSound, RunsTellTheTruth
    <2>6. CollectedWithinTheDay'
        <3>1. SUFFICES ASSUME NEW c \in Channels, NEW d \in Days, scan[c][d] # NULL
                       PROVE  /\ Day(scan[c][d].capturedAt) = d
                              /\ \E i \in 1..Len(run') :
                                   /\ run'[i].chan = c
                                   /\ run'[i].status \in {"SUCCESS", "PARTIAL"}
                                   /\ Day(run'[i].startedAt) = d
                                   /\ run'[i].startedAt <= scan[c][d].capturedAt
            BY <2>3 DEF CollectedWithinTheDay, Day
        <3>2. PICK i \in 1..Len(run) :
                   /\ run[i].chan = c
                   /\ run[i].status \in {"SUCCESS", "PARTIAL"}
                   /\ Day(run[i].startedAt) = d
                   /\ run[i].startedAt <= scan[c][d].capturedAt
            BY <3>1 DEF RunsSound, CollectedWithinTheDay
        <3>3. i \in 1..Len(run') /\ run'[i] = run[i]
            BY <2>4
        <3> QED
            BY <3>1, <3>2, <3>3 DEF RunsSound, CollectedWithinTheDay
    <2> QED
        BY <2>5, <2>6 DEF RunsSound
<1>3. ASSUME NEW w \in Workers, FailRun(w) PROVE RunsSound'
    <2>1. Owns(pass[w]) /\ run' = Settled(pass[w], "FAILED") /\ UNCHANGED evidence
        BY <1>3 DEF FailRun, Owns
    <2> QED
        BY <2>1, RunSettledSound
<1>4. ASSUME NEW w \in Workers, pass[w].phase = "persisting"
      PROVE  /\ Owns(pass[w]) /\ pass[w].run \in 1..Len(run)
             /\ run[pass[w].run].chan = pass[w].chan
             /\ run[pass[w].run].status = "RUNNING"
             /\ Day(run[pass[w].run].startedAt) = Day(pass[w].at)
             /\ run[pass[w].run].startedAt <= pass[w].at
    BY <1>4 DEF TypeOK, PassUnderWay, Owns
<1>5. ASSUME NEW w \in Workers, ClaimLost(w) PROVE RunsSound'
    <2> DEFINE row == scan[pass[w].chan][Day(pass[w].at)]
               s == RunStatus(row.status)
    <2>1. /\ row # NULL /\ pass[w].phase = "persisting"
          /\ run' = Settled(pass[w], s) /\ UNCHANGED evidence
        BY <1>5 DEF ClaimLost, Claims, CanonicalCoverage
    <2>2. s \in {"SUCCESS", "PARTIAL", "FAILED"}
        BY DEF RunStatus
    <2>3. row = scan[run[pass[w].run].chan][Day(run[pass[w].run].startedAt)]
        BY <1>4, <2>1
    <2> QED
        BY <1>4, <2>1, <2>2, <2>3, RunSettledSound
<1>6. ASSUME NEW w \in Workers, ClaimWon(w) PROVE RunsSound'
    <2> DEFINE q == pass[w]
               k == q.run
               c == q.chan
               d == Day(q.at)
               s == RunStatus(q.catalog.status)
    <2>1. q.phase = "persisting" /\ run' = Settled(q, s)
        BY <1>6 DEF ClaimWon
    <2>2. /\ Owns(q) /\ k \in 1..Len(run) /\ run[k].chan = c /\ run[k].status = "RUNNING"
          /\ Day(run[k].startedAt) = d /\ run[k].startedAt <= q.at
        BY <1>4, <2>1
    <2>3. s \in {"SUCCESS", "PARTIAL"}
        BY DEF RunStatus
    <2>4. /\ Len(run') = Len(run) /\ run'[k].status = s
          /\ run'[k].chan = run[k].chan /\ run'[k].startedAt = run[k].startedAt
          /\ \A i \in 1..Len(run) : i # k => run'[i] = run[i]
        BY <2>1, <2>2, <2>3, RunsSettled DEF RunsKept
    <2>5. /\ c \in Channels /\ d \in Days /\ q.catalog \in Catalog /\ q.at \in Times
        BY <2>1, PersistingDay
    <2>6. /\ scan[c][d] = NULL /\ scan'[c][d] = ScanOf(q)
          /\ \A b \in Channels, e \in Days : ~(b = c /\ e = d) => scan'[b][e] = scan[b][e]
        BY <1>6, ClaimWrites
    <2>7. /\ scan'[c][d] # NULL /\ scan'[c][d].capturedAt = q.at
          /\ scan'[c][d].status = q.catalog.status
        BY <2>5, <2>6, ScanOfOK, CatalogNullAssumption DEF ScanOf
    <2>8. \A i \in 1..Len(run) : run[i].chan \in Channels /\ Day(run[i].startedAt) \in Days
        <3>1. \A i \in 1..Len(run) : run[i] \in Run
            BY DEF TypeOK
        <3>2. \A i \in 1..Len(run) : run[i].chan \in Channels /\ run[i].startedAt \in Times
            BY <3>1 DEF Run
        <3> QED
            BY <3>2, DayType
    <2>9. /\ Day(q.at) = d /\ s = RunStatus(q.catalog.status)
        OBVIOUS
    <2> HIDE DEF q, k, c, d, s
    <2>10. RunsTellTheTruth'
        <3>1. SUFFICES ASSUME NEW i \in 1..Len(run'), run'[i].status \in {"SUCCESS", "PARTIAL"}
                       PROVE  LET row == scan'[run'[i].chan][Day(run'[i].startedAt)]
                              IN  row # NULL /\ run'[i].status = RunStatus(row.status)
            BY DEF RunsTellTheTruth, Day, RunStatus
        <3>2. CASE i = k
            BY <2>2, <2>4, <2>7, <2>9, <3>2
        <3>3. CASE i # k
            <4>1. i \in 1..Len(run) /\ run'[i] = run[i]
                BY <2>4, <3>3
            <4>2. /\ scan[run[i].chan][Day(run[i].startedAt)] # NULL
                  /\ run[i].status = RunStatus(scan[run[i].chan][Day(run[i].startedAt)].status)
                BY <3>1, <4>1 DEF RunsSound, RunsTellTheTruth
            <4>3. scan'[run[i].chan][Day(run[i].startedAt)]
                    = scan[run[i].chan][Day(run[i].startedAt)]
                BY <2>6, <2>8, <4>1, <4>2
            <4> QED
                BY <4>1, <4>2, <4>3
        <3> QED
            BY <3>2, <3>3
    <2>11. CollectedWithinTheDay'
        <3>1. SUFFICES ASSUME NEW b \in Channels, NEW e \in Days, scan'[b][e] # NULL
                       PROVE  /\ Day(scan'[b][e].capturedAt) = e
                              /\ \E i \in 1..Len(run') :
                                   /\ run'[i].chan = b
                                   /\ run'[i].status \in {"SUCCESS", "PARTIAL"}
                                   /\ Day(run'[i].startedAt) = e
                                   /\ run'[i].startedAt <= scan'[b][e].capturedAt
            BY DEF CollectedWithinTheDay, Day
        <3>2. CASE b = c /\ e = d
            BY <2>2, <2>3, <2>4, <2>7, <2>9, <3>2
        <3>3. CASE ~(b = c /\ e = d)
            <4>1. scan'[b][e] = scan[b][e]
                BY <2>6, <3>3
            <4>2. PICK i \in 1..Len(run) :
                       /\ run[i].chan = b
                       /\ run[i].status \in {"SUCCESS", "PARTIAL"}
                       /\ Day(run[i].startedAt) = e
                       /\ run[i].startedAt <= scan[b][e].capturedAt
                BY <3>1, <4>1 DEF RunsSound, CollectedWithinTheDay
            <4>3. i \in 1..Len(run') /\ run'[i] = run[i]
                BY <2>2, <2>4, <4>2
            <4>4. Day(scan[b][e].capturedAt) = e
                BY <3>1, <4>1 DEF RunsSound, CollectedWithinTheDay
            <4> QED
                BY <4>1, <4>2, <4>3, <4>4
        <3> QED
            BY <3>2, <3>3
    <2> QED
        BY <2>10, <2>11 DEF RunsSound
<1>7. UNCHANGED <<evidence, run>> \/ \E w \in Workers :
        RunStarts(w) \/ FailRun(w) \/ ClaimLost(w) \/ ClaimWon(w)
    BY DEF Next, vars, Tick, PassStep, RunIfDue, Restart, ListEnabled, ListFails, FindsScan,
           FindsNoScan, QueryFails, CollectSucceeds, CollectCrossesMidnight,
           CollectFails, PersistFails, FailRunFails
<1> QED
    BY <1>1, <1>2, <1>3, <1>5, <1>6, <1>7

\* Runs tell the truth and scans are of their day, in every state.
LEMMA RunsAlwaysSound == Spec => []RunsSound
<1>1. Init => TypeOK /\ OwnRuns
    BY InitTypeOK
<1>2. Init => RunsSound
    BY DEF Init, RunsSound, RunsTellTheTruth, CollectedWithinTheDay
<1>3. TypeOK /\ OwnRuns /\ [Next]_vars => TypeOK' /\ OwnRuns'
    BY StepTypeOK
<1>4. TypeOK /\ OwnRuns /\ RunsSound /\ [Next]_vars => RunsSound'
    BY StepRuns
<1> QED
    BY <1>1, <1>2, <1>3, <1>4, PTL DEF Spec

\* A run that ended SUCCESS or PARTIAL tells the coverage of the scan that stands.
THEOREM SettledRunsTell == Spec => []RunsTellTheTruth
<1>1. RunsSound => RunsTellTheTruth
    BY DEF RunsSound
<1> QED
    BY <1>1, RunsAlwaysSound, PTL

\* No collection that crossed midnight leaves a scan.
THEOREM ScansOfTheirDay == Spec => []CollectedWithinTheDay
<1>1. RunsSound => CollectedWithinTheDay
    BY DEF RunsSound
<1> QED
    BY <1>1, RunsAlwaysSound, PTL

----------------------------------------------------------------------------
\* Who collects.

\* What a pass may yet have collected with success: what it is about to start or has
\* started, and the day that a search begun on an earlier one may start a run of.
MayCollect(q, c, d) ==
    /\ q.chan = c
    /\ \/ q.phase = "finding" /\ Day(q.at) < d
       \/ q.phase \in {"starting", "collecting", "persisting"} /\ Day(q.at) = d

SucceededFor(w, c, d) ==
    \E i \in 1..Len(run) :
        Succeeded(i) /\ run[i].worker = w /\ run[i].chan = c /\ Day(run[i].startedAt) = d

\* A worker that has collected a channel's day is not about to do it again.
Collected ==
    /\ CollectedOnce
    /\ \A w \in Workers : Owns(pass[w]) => run[pass[w].run].worker = w
    /\ \A i \in 1..Len(run) : run[i].startedAt <= now
    /\ \A w \in Workers, c \in Channels, d \in Days :
         SucceededFor(w, c, d) => ~MayCollect(pass[w], c, d)

\* A pass that goes on, or ends, is not about to collect a day that has come.
LEMMA GoesOnFresh ==
    ASSUME TypeOK, NEW w \in Workers, GoOn(w), NEW c \in Channels, NEW d \in Days,
           d <= Day(now)
    PROVE  /\ pass' = [pass EXCEPT ![w] = NextChannel(pass[w])]
           /\ ~MayCollect(NextChannel(pass[w]), c, d)
           /\ ~Owns(NextChannel(pass[w]))
<1>1. pass[w].todo \subseteq Channels /\ now \in Times
    BY DEF TypeOK, PassState
<1>2. /\ NextChannel(pass[w]).phase \in {"idle", "finding"}
      /\ NextChannel(pass[w]).phase = "finding" => NextChannel(pass[w]).at = now
    BY <1>1, NextChannelOK
<1>3. Day(now) \in Int /\ d \in Int
    BY <1>1, DayType DEF Days
<1> QED
    BY <1>2, <1>3 DEF GoOn, MayCollect, Owns

\* The day of a run has come.
LEMMA RunDays ==
    ASSUME TypeOK, Collected, NEW i \in 1..Len(run)
    PROVE  /\ run[i] \in Run
           /\ Day(run[i].startedAt) \in Days
           /\ Day(run[i].startedAt) <= Day(now)
<1>1. run[i] \in Run /\ now \in Times
    BY DEF TypeOK
<1>2. run[i].startedAt \in Times /\ run[i].startedAt <= now
    BY <1>1 DEF Collected, Run
<1> QED
    BY <1>1, <1>2, DayType, DayMonotone

\* A step of one pass that settles no run keeps what is collected, unless it has the
\* pass collect anew what it has collected.
LEMMA PassMoves ==
    ASSUME TypeOK, Collected, NEW w \in Workers, NEW q, UNCHANGED <<now, run>>,
           pass' = [pass EXCEPT ![w] = q],
           Owns(q) => Owns(pass[w]) /\ q.run = pass[w].run,
           \A c \in Channels, d \in Days :
             SucceededFor(w, c, d) /\ d <= Day(now) => ~MayCollect(q, c, d)
    PROVE  Collected'
<1>1. /\ pass'[w] = q
      /\ \A u \in Workers : u # w => pass'[u] = pass[u]
    BY DEF TypeOK
<1>2. ASSUME NEW u \in Workers, Owns(pass'[u]) PROVE run'[pass'[u].run].worker = u
    BY <1>1, <1>2 DEF Collected
<1>3. ASSUME NEW u \in Workers, NEW c \in Channels, NEW d \in Days, SucceededFor(u, c, d)
      PROVE  ~MayCollect(pass'[u], c, d)
    <2>1. d <= Day(now)
        BY <1>3, RunDays DEF SucceededFor
    <2> QED
        BY <1>1, <1>3, <2>1 DEF Collected
<1>4. \A u, c, d : SucceededFor(u, c, d)' <=> SucceededFor(u, c, d)
    BY DEF SucceededFor, Succeeded, Day
<1>5. \A u, c, d : MayCollect(pass[u], c, d)' <=> MayCollect(pass'[u], c, d)
    BY DEF MayCollect, Day
<1>6. CollectedOnce'
    BY DEF Collected, CollectedOnce, Succeeded, Day
<1>7. \A u \in Workers : Owns(pass[u])' <=> Owns(pass'[u])
    BY DEF Owns
<1>8. \A i \in 1..Len(run') : run'[i].startedAt <= now'
    BY DEF Collected
<1>9. \A u \in Workers, c \in Channels, d \in Days :
        SucceededFor(u, c, d)' => ~MayCollect(pass[u], c, d)'
    BY <1>3, <1>4, <1>5
<1> QED
    BY <1>2, <1>6, <1>7, <1>8, <1>9 DEF Collected

\* Settling a run: with success, it was the first of its worker, channel and day.
LEMMA RunSettledOnce ==
    ASSUME TypeOK, OwnRuns, Collected, NEW w \in Workers, Owns(pass[w]), now' = now,
           NEW s \in {"SUCCESS", "PARTIAL", "FAILED"}, run' = Settled(pass[w], s),
           s # "FAILED" => pass[w].phase = "persisting", GoOn(w)
    PROVE  Collected'
<1> DEFINE k == pass[w].run
           q == NextChannel(pass[w])
<1>1. /\ k \in 1..Len(run) /\ Len(run') = Len(run) /\ run'[k].status = s
      /\ \A i \in 1..Len(run) : i # k => run'[i] = run[i]
      /\ \A i \in 1..Len(run) : /\ run'[i].worker = run[i].worker
                                /\ run'[i].chan = run[i].chan
                                /\ run'[i].startedAt = run[i].startedAt
    BY RunsSettled DEF RunsKept
<1>2. run[k].worker = w /\ run[k].status = "RUNNING" /\ run[k].chan = pass[w].chan
    BY DEF TypeOK, PassUnderWay, Owns, Collected
<1>3. /\ pass'[w] = q /\ ~Owns(q)
      /\ \A u \in Workers : u # w => pass'[u] = pass[u]
    <2>1. 0 \in Days /\ 0 <= Day(now)
        BY DayType, DaysAssumption DEF TypeOK, Days
    <2>2. pass[w].chan \in Channels
        BY DEF TypeOK, PassUnderWay, Owns
    <2> QED
        BY <2>1, <2>2, GoesOnFresh DEF TypeOK
<1>4. \A c \in Channels, d \in Days : d <= Day(now) => ~MayCollect(q, c, d)
    BY GoesOnFresh
<1>5. \A i \in 1..Len(run) : run[i] \in Run /\ Day(run[i].startedAt) \in Days
                               /\ Day(run[i].startedAt) <= Day(now)
    BY RunDays
<1> HIDE DEF k, q
<1>6. ASSUME NEW i \in 1..Len(run), i # k, Succeeded(i), s # "FAILED",
             run[i].worker = w, run[i].chan = run[k].chan,
             Day(run[i].startedAt) = Day(run[k].startedAt)
      PROVE  FALSE
    <2>1. pass[w].phase = "persisting" /\ Day(run[k].startedAt) = Day(pass[w].at)
        BY <1>6 DEF TypeOK, PassUnderWay, k
    <2>2. MayCollect(pass[w], run[k].chan, Day(run[k].startedAt))
        BY <1>2, <2>1 DEF MayCollect
    <2>3. SucceededFor(w, run[k].chan, Day(run[k].startedAt))
        BY <1>6 DEF SucceededFor
    <2>4. run[k].chan \in Channels /\ Day(run[k].startedAt) \in Days
        BY <1>1, <1>5 DEF Run
    <2> QED
        BY <2>2, <2>3, <2>4 DEF Collected
<1>7. \A i \in 1..Len(run) : Succeeded(i)' => (i # k /\ Succeeded(i)) \/ (i = k /\ s # "FAILED")
    BY <1>1 DEF Succeeded
<1>8. CollectedOnce'
    <2>1. SUFFICES ASSUME NEW i \in 1..Len(run), NEW j \in 1..Len(run),
                          Succeeded(i)', Succeeded(j)', run[i].worker = run[j].worker,
                          run[i].chan = run[j].chan,
                          Day(run[i].startedAt) = Day(run[j].startedAt)
                   PROVE  i = j
        BY <1>1 DEF CollectedOnce, Day
    <2>2. CASE i = k
        BY <1>2, <1>6, <1>7, <2>1, <2>2
    <2>3. CASE j = k
        BY <1>2, <1>6, <1>7, <2>1, <2>3
    <2>4. CASE i # k /\ j # k
        BY <1>7, <2>1, <2>4 DEF Collected, CollectedOnce
    <2> QED
        BY <2>2, <2>3, <2>4
<1>9. ASSUME NEW u \in Workers, Owns(pass'[u]) PROVE run'[pass'[u].run].worker = u
    <2>1. u # w /\ pass'[u] = pass[u] /\ Owns(pass[u])
        BY <1>3, <1>9
    <2>2. pass[u].run \in 1..Len(run) /\ run[pass[u].run].worker = u
        BY <2>1 DEF TypeOK, PassUnderWay, Owns, Collected
    <2> QED
        BY <1>1, <2>1, <2>2
<1>10. ASSUME NEW u \in Workers, NEW c \in Channels, NEW d \in Days, NEW i \in 1..Len(run),
              Succeeded(i)', run[i].worker = u, run[i].chan = c, Day(run[i].startedAt) = d
       PROVE  ~MayCollect(pass'[u], c, d)
    <2>1. CASE u = w
        BY <1>3, <1>4, <1>5, <1>10, <2>1
    <2>2. CASE u # w
        <3>1. i # k /\ Succeeded(i)
            BY <1>2, <1>7, <1>10, <2>2
        <3>2. SucceededFor(u, c, d)
            BY <1>10, <3>1 DEF SucceededFor
        <3> QED
            BY <1>3, <2>2, <3>2 DEF Collected
    <2> QED
        BY <2>1, <2>2
<1>11. ASSUME NEW u \in Workers, NEW c \in Channels, NEW d \in Days, SucceededFor(u, c, d)'
       PROVE  ~MayCollect(pass[u], c, d)'
    <2>1. PICK i \in 1..Len(run) : /\ Succeeded(i)' /\ run[i].worker = u /\ run[i].chan = c
                                   /\ Day(run[i].startedAt) = d
        BY <1>1, <1>11 DEF SucceededFor, Day
    <2> QED
        BY <1>10, <2>1 DEF MayCollect, Day
<1>12. \A u \in Workers : Owns(pass[u])' => run'[pass'[u].run].worker = u
    BY <1>9 DEF Owns
<1>13. \A i \in 1..Len(run') : run'[i].startedAt <= now'
    BY <1>1 DEF Collected
<1> QED
    BY <1>8, <1>11, <1>12, <1>13 DEF Collected

\* A search that finds no scan is not of a day the worker has collected, but for the
\* search of an earlier day.
LEMMA SearchFresh ==
    ASSUME TypeOK, OwnRuns, RunsSound, Collected, NEW w \in Workers, FindsNoScan(w),
           NEW c \in Channels, NEW d \in Days, SucceededFor(w, c, d)
    PROVE  ~(pass[w].chan = c /\ Day(now) = d)
<1>1. SUFFICES ASSUME pass[w].chan = c, Day(now) = d PROVE FALSE
    OBVIOUS
<1>2. scan[c][d] # NULL
    BY DEF SucceededFor, Succeeded, RunsSound, RunsTellTheTruth
<1>3. /\ pass[w].phase = "finding" /\ scan[c][Day(pass[w].at)] = NULL
    BY <1>1 DEF FindsNoScan, Scanned
<1>4. pass[w].at \in Times /\ now \in Times /\ pass[w].at <= now
    <2>1. now \in Times /\ pass[w].at \in StartTime..now
        BY <1>3 DEF TypeOK, PassUnderWay
    <2> QED
        BY <2>1, DaysAssumption DEF Times
<1>5. Day(pass[w].at) < d
    BY <1>1, <1>2, <1>3, <1>4, DayType, DayMonotone
<1> QED
    BY <1>1, <1>3, <1>5 DEF MayCollect, Collected

\* No step has a worker collect what it has collected.
LEMMA StepCollected ==
    ASSUME TypeOK, OwnRuns, RunsSound, Collected, [Next]_vars
    PROVE  Collected'
<1>1. ASSUME Tick \/ UNCHANGED vars PROVE Collected'
    <2>1. /\ UNCHANGED <<run, pass>> /\ now \in Times /\ now' \in Int /\ now <= now'
        BY <1>1, DaysAssumption DEF Tick, vars, TypeOK, Times
    <2>2. \A i \in 1..Len(run) : run[i].startedAt \in Times /\ run[i].startedAt <= now
        BY RunDays DEF Collected, Run
    <2>3. \A i \in 1..Len(run) : run[i].startedAt <= now'
        BY <2>1, <2>2, DaysAssumption DEF Times
    <2> QED
        BY <2>1, <2>3 DEF Collected, CollectedOnce, SucceededFor, Succeeded, MayCollect, Owns, Day
<1>2. ASSUME NEW w \in Workers, RunIfDue(w) \/ ListFails(w) \/ Restart(w) PROVE Collected'
    <2>1. PICK q \in {IdlePass, [IdlePass EXCEPT !.phase = "listing"]} :
              pass' = [pass EXCEPT ![w] = q]
        BY <1>2 DEF RunIfDue, ListFails, Restart
    <2>2. q.phase \in {"idle", "listing"}
        BY <2>1 DEF IdlePass
    <2>3. UNCHANGED <<now, run>>
        BY <1>2 DEF RunIfDue, ListFails, Restart
    <2>4. ~Owns(q) /\ \A c, d : ~MayCollect(q, c, d)
        BY <2>2 DEF Owns, MayCollect
    <2> QED
        BY <2>1, <2>3, <2>4, PassMoves
<1>3. ASSUME NEW w \in Workers, ListEnabled(w) PROVE Collected'
    <2>1. PICK S \in SUBSET Channels :
              pass' = [pass EXCEPT ![w] = NextChannel([@ EXCEPT !.todo = S])]
        BY <1>3 DEF ListEnabled
    <2> DEFINE p == [pass[w] EXCEPT !.todo = S]
               q == NextChannel(p)
    <2>2. p.todo \subseteq Channels /\ now \in Times
        BY <2>1 DEF TypeOK, PassState
    <2>3. q.phase \in {"idle", "finding"} /\ (q.phase = "finding" => q.at = now)
        BY <2>2, NextChannelOK
    <2>4. pass' = [pass EXCEPT ![w] = q] /\ UNCHANGED <<now, run>>
        BY <1>3, <2>1 DEF ListEnabled
    <2> HIDE DEF p, q
    <2>5. Day(now) \in Int /\ Days \subseteq Int
        BY <2>2, DayType DEF Days
    <2>6. ~Owns(q) /\ \A c \in Channels, d \in Days : d <= Day(now) => ~MayCollect(q, c, d)
        BY <2>3, <2>5 DEF Owns, MayCollect
    <2> QED
        BY <2>4, <2>6, PassMoves
<1>4. ASSUME NEW w \in Workers, FindsScan(w) \/ QueryFails(w) \/ FailRunFails(w)
      PROVE  Collected'
    <2> DEFINE q == NextChannel(pass[w])
    <2>1. GoOn(w) /\ UNCHANGED <<now, run>>
        BY <1>4 DEF FindsScan, QueryFails, FailRunFails
    <2>2. pass' = [pass EXCEPT ![w] = q]
        BY <2>1 DEF GoOn
    <2>3. \A c \in Channels, d \in Days : d <= Day(now) => ~MayCollect(q, c, d)
        BY <2>1, GoesOnFresh
    <2>4. ~Owns(q)
        <3>1. now \in Times /\ pass[w].todo \subseteq Channels
            BY DEF TypeOK, PassState
        <3> QED
            BY <3>1, NextChannelOK DEF Owns
    <2> HIDE DEF q
    <2> QED
        BY <2>1, <2>2, <2>3, <2>4, PassMoves
<1>5. ASSUME NEW w \in Workers, FindsNoScan(w) PROVE Collected'
    <2> DEFINE q == [pass[w] EXCEPT !.phase = "starting", !.at = now]
    <2>1. pass' = [pass EXCEPT ![w] = q] /\ UNCHANGED <<now, run>>
        BY <1>5 DEF FindsNoScan, TypeOK, PassState
    <2>2. q.phase = "starting" /\ q.at = now /\ q.chan = pass[w].chan
        BY DEF TypeOK, PassState
    <2> HIDE DEF q
    <2>3. ~Owns(q) /\ \A c, d : MayCollect(q, c, d) => pass[w].chan = c /\ Day(now) = d
        BY <2>2 DEF Owns, MayCollect
    <2>4. \A c \in Channels, d \in Days : SucceededFor(w, c, d) => ~MayCollect(q, c, d)
        BY <1>5, <2>3, SearchFresh
    <2> QED
        BY <2>1, <2>3, <2>4, PassMoves
<1>6. ASSUME NEW w \in Workers, CollectCrossesMidnight(w) \/ CollectFails(w) \/ PersistFails(w)
      PROVE  Collected'
    <2> DEFINE q == [pass[w] EXCEPT !.phase = "failing"]
    <2>1. pass' = [pass EXCEPT ![w] = q] /\ Owns(pass[w]) /\ UNCHANGED <<now, run>>
        BY <1>6 DEF CollectCrossesMidnight, CollectFails, PersistFails, Owns, TypeOK
    <2>2. q.phase = "failing" /\ q.run = pass[w].run
        BY DEF TypeOK, PassState
    <2> HIDE DEF q
    <2>3. \A c, d : ~MayCollect(q, c, d)
        BY <2>2 DEF MayCollect
    <2> QED
        BY <2>1, <2>2, <2>3, PassMoves
<1>7. ASSUME NEW w \in Workers, CollectSucceeds(w) PROVE Collected'
    <2>1. PICK a \in Answers :
              pass' = [pass EXCEPT ![w].phase = "persisting", ![w].at = now,
                                   ![w].catalog = CatalogOf(a)]
        BY <1>7 DEF CollectSucceeds
    <2> DEFINE q == [pass[w] EXCEPT !.phase = "persisting", !.at = now,
                                    !.catalog = CatalogOf(a)]
    <2>2. pass' = [pass EXCEPT ![w] = q] /\ UNCHANGED <<now, run>>
        BY <1>7, <2>1 DEF CollectSucceeds
    <2>3. /\ q.phase = "persisting" /\ q.at = now
          /\ q.chan = pass[w].chan /\ q.run = pass[w].run
        BY DEF TypeOK, PassState
    <2> HIDE DEF q
    <2>4. /\ pass[w].phase = "collecting" /\ Owns(pass[w])
          /\ Day(now) = Day(pass[w].at)
        BY <1>7 DEF CollectSucceeds, SameDay, Owns
    <2>5. \A c, d : MayCollect(q, c, d) => MayCollect(pass[w], c, d)
        BY <2>3, <2>4 DEF MayCollect
    <2>6. \A c \in Channels, d \in Days : SucceededFor(w, c, d) => ~MayCollect(q, c, d)
        BY <2>5 DEF Collected
    <2> QED
        BY <2>2, <2>3, <2>4, <2>6, PassMoves
<1>8. ASSUME NEW w \in Workers, RunStarts(w) PROVE Collected'
    <2> DEFINE new == [worker |-> w, chan |-> pass[w].chan, startedAt |-> pass[w].at,
                       status |-> "RUNNING"]
               q == [pass[w] EXCEPT !.phase = "collecting", !.run = Len(run) + 1]
    <2>1. pass[w].phase = "starting" /\ run' = Append(run, new) /\ now' = now
        BY <1>8 DEF RunStarts
    <2>2. pass' = [pass EXCEPT ![w] = q]
        BY <1>8 DEF RunStarts
    <2>3. /\ pass[w].chan \in Channels /\ pass[w].at \in StartTime..now /\ now \in Times
          /\ pass[w] \in PassState
        BY <2>1 DEF TypeOK, PassUnderWay
    <2>4. /\ new \in Run /\ new.worker = w /\ new.status = "RUNNING"
          /\ new.startedAt = pass[w].at
        BY <2>3, DaysAssumption DEF Run, Times
    <2>5. /\ q.phase = "collecting" /\ q.at = pass[w].at /\ q.chan = pass[w].chan
          /\ q.run = Len(run) + 1
        BY <2>3 DEF PassState
    <2> HIDE DEF new, q
    <2>6. /\ Len(run') = Len(run) + 1 /\ Len(run) \in Nat
          /\ run'[Len(run) + 1] = new
          /\ \A i \in 1..Len(run) : run'[i] = run[i]
        BY <2>1, <2>4 DEF TypeOK
    <2>7. /\ pass'[w] = q
          /\ \A u \in Workers : u # w => pass'[u] = pass[u]
        BY <2>2 DEF TypeOK
    <2>8. \A i \in 1..Len(run') : Succeeded(i)' => i \in 1..Len(run) /\ Succeeded(i)
        BY <2>4, <2>6 DEF Succeeded
    <2>9. CollectedOnce'
        BY <2>6, <2>8 DEF Collected, CollectedOnce, Day
    <2>10. \A u \in Workers : Owns(pass[u])' => run'[pass'[u].run].worker = u
        <3>1. ASSUME NEW u \in Workers, u # w, Owns(pass[u])
              PROVE  pass[u].run \in 1..Len(run) /\ run[pass[u].run].worker = u
            BY <3>1 DEF TypeOK, PassUnderWay, Owns, Collected
        <3> QED
            BY <2>4, <2>5, <2>6, <2>7, <3>1 DEF Owns
    <2>11. \A i \in 1..Len(run') : run'[i].startedAt <= now'
        BY <2>1, <2>3, <2>4, <2>6 DEF Collected
    <2>12. ASSUME NEW u \in Workers, NEW c \in Channels, NEW d \in Days, SucceededFor(u, c, d)'
           PROVE  ~MayCollect(pass[u], c, d)'
        <3>1. SucceededFor(u, c, d)
            BY <2>6, <2>8, <2>12 DEF SucceededFor, Day
        <3>2. ~MayCollect(pass[u], c, d)
            BY <3>1 DEF Collected
        <3> QED
            BY <2>1, <2>5, <2>7, <3>2 DEF MayCollect, Day
    <2> QED
        BY <2>9, <2>10, <2>11, <2>12 DEF Collected
<1>9. ASSUME NEW w \in Workers, FailRun(w) \/ ClaimLost(w) \/ ClaimWon(w) PROVE Collected'
    <2>1. PICK s \in {"SUCCESS", "PARTIAL", "FAILED"} :
              /\ run' = Settled(pass[w], s)
              /\ s # "FAILED" => pass[w].phase = "persisting"
        BY <1>9 DEF FailRun, ClaimLost, ClaimWon, RunStatus
    <2>2. Owns(pass[w]) /\ GoOn(w) /\ now' = now
        BY <1>9 DEF FailRun, ClaimLost, ClaimWon, Owns
    <2> QED
        BY <2>1, <2>2, RunSettledOnce
<1> QED
    BY <1>1, <1>2, <1>3, <1>4, <1>5, <1>6, <1>7, <1>8, <1>9 DEF Next, PassStep

\* No worker has a channel's day collected with success twice, complete or not.
THEOREM CollectedOnceByEach == Spec => []CollectedOnce
<1>1. Init => TypeOK /\ OwnRuns
    BY InitTypeOK
<1>2. Init => RunsSound
    BY DEF Init, RunsSound, RunsTellTheTruth, CollectedWithinTheDay
<1>3. Init => Collected
    BY DEF Init, IdlePass, Collected, CollectedOnce, SucceededFor, Owns
<1>4. TypeOK /\ OwnRuns /\ [Next]_vars => TypeOK' /\ OwnRuns'
    BY StepTypeOK
<1>5. TypeOK /\ OwnRuns /\ RunsSound /\ [Next]_vars => RunsSound'
    BY StepRuns
<1>6. TypeOK /\ OwnRuns /\ RunsSound /\ Collected /\ [Next]_vars => Collected'
    BY StepCollected
<1>7. Collected => CollectedOnce
    BY DEF Collected
<1> QED
    BY <1>1, <1>2, <1>3, <1>4, <1>5, <1>6, <1>7, PTL DEF Spec
=============================================================================
