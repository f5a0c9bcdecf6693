------------------------ MODULE ChannelHealthProofs ------------------------
(***************************************************************************)
(* Theorems about ChannelHealth, for every number of channels, passes that *)
(* overlap, probe answers, window size and retry delay:                    *)
(*   TypeCorrect        []TypeOK                                           *)
(*   RowsSound          []SoundRows, whence RowCoherent, DeletionConfirmed *)
(*                      and FirstUnavailableRecorded                       *)
(* and, of the scenarios whose passes do not overlap:                      *)
(*   IncidentsDeleteNothing  an open circuit blocks deletions              *)
(*   LonePassesTell          []LonePasses                                  *)
(*                                                                         *)
(* Passes write rows back from listings that may be stale, so what the     *)
(* rows satisfy has to be known of every listed row too: that is the       *)
(* strengthening.                                                          *)
(***************************************************************************)
EXTENDS MCChannelHealthScenarios, SequenceTheorems, TLAPS

----------------------------------------------------------------------------
\* The pure state machine.

\* An outage is dated, and a failure counted, within the domains of a row.
LEMMA TransitionType ==
    ASSUME NEW h \in HealthState, NEW s \in Signals, NEW t \in Times
    PROVE  TransitionChannelHealth(h, s, t) \in HealthState
<1>1. StrongFailureCount(s) \in 0..3
    BY SMT DEF StrongFailureCount
<1>2. CountFailure(h.failures) \in 0..FailureCap
    BY HealthAssumption, SMT DEF CountFailure, HealthState
<1>3. \A first : FailedAvailability(h, s, first, t) \in Availabilities
    BY DEF FailedAvailability, Availabilities
<1>4. FailedTransition(h, s, t) \in HealthState
    BY <1>2, <1>3 DEF FailedTransition, HealthState, MaybeTime
<1>5. AliveTransition(h, t) \in HealthState
    <2>1. 0 \in 0..FailureCap /\ "ACTIVE" \in Availabilities
        BY HealthAssumption DEF Availabilities
    <2> QED
        BY <2>1 DEF AliveTransition, HealthState, MaybeTime
<1> QED
    BY <1>4, <1>5 DEF TransitionChannelHealth

\* The window never holds more than WindowSize checks.
LEMMA RecordType ==
    ASSUME NEW w \in Seq(BOOLEAN), Len(w) <= WindowSize, NEW failure \in BOOLEAN
    PROVE  /\ Record(w, failure) \in Seq(BOOLEAN)
           /\ Len(Record(w, failure)) <= WindowSize
<1> DEFINE longer == Append(w, failure)
<1>1. /\ longer \in Seq(BOOLEAN)
      /\ Len(longer) = Len(w) + 1
      /\ longer # <<>>
    OBVIOUS
<1>2. Record(w, failure) = IF Len(longer) > WindowSize THEN Tail(longer) ELSE longer
    BY DEF Record
<1> HIDE DEF longer
<1>3. Tail(longer) \in Seq(BOOLEAN) /\ Len(Tail(longer)) = Len(w)
    BY <1>1, HeadTailProperties
<1>4. CASE Len(longer) > WindowSize
    BY <1>2, <1>3, <1>4
<1>5. CASE ~(Len(longer) > WindowSize)
    BY <1>1, <1>2, <1>5, ChannelHealthAssumption
<1> QED
    BY <1>4, <1>5

\* A check in the pass q, of a channel it lists, is written in its domain.
LEMMA CommitTypes ==
    ASSUME NEW q \in PassState, q.phase = "answered", CheckUnderWay(q)
    PROVE  /\ q.chan \in Channels
           /\ q.listed[q.chan] \in HealthState
           /\ Transition(q) \in HealthState
           /\ \A hc \in HealthChecks : AppendCheck(hc, q) \in HealthChecks
           /\ \A n \in 0..2 : CountStrong(n, q) \in 0..2
<1>1. /\ q.chan \in Channels
      /\ q.at \in Times
      /\ q.sig \in Signals
      /\ q.listed[q.chan] \in HealthState
    BY DEF CheckUnderWay, PassState
<1>2. Transition(q) \in HealthState
    BY <1>1, TransitionType DEF Transition
<1>3. \A t \in MaybeTime : Latest(t, q.at) \in Times
    BY <1>1 DEF Latest, MaybeTime
<1>4. Verdict(q) \in Availabilities
    BY <1>2 DEF Verdict, HealthState
<1>5. ASSUME NEW hc \in HealthChecks
      PROVE  AppendCheck(hc, q) \in HealthChecks
    <2>1. /\ hc.failing \in SUBSET Times
          /\ hc.lastStrong \in MaybeTime
          /\ hc.independent \in BOOLEAN
          /\ hc.newestAt \in MaybeTime
          /\ hc.newest \in Availabilities
        BY DEF HealthChecks
    <2>2. hc.failing \cup {q.at} \in SUBSET Times
        BY <1>1, <2>1
    <2>3. (hc.independent \/ (IsFailing(q) /\ StrongFailureCount(q.sig) >= 2)) \in BOOLEAN
        OBVIOUS
    <2>4. Times \subseteq MaybeTime
        BY DEF MaybeTime
    <2> QED
        BY <1>3, <1>4, <2>1, <2>2, <2>3, <2>4, Zenon DEF AppendCheck, HealthChecks
<1>6. \A n \in 0..2 : CountStrong(n, q) \in 0..2
    BY SMT DEF CountStrong, StrongFailureCount
<1> QED
    BY <1>1, <1>2, <1>5, <1>6
----------------------------------------------------------------------------
\* Type correctness.

\* An idle pass is well formed.
LEMMA IdlePassType == IdlePass \in PassState /\ CheckUnderWay(IdlePass)
<1>1. NoAnswer \in Signals
    BY DEF NoAnswer, Signals, PublicPageStatuses, YtdlpStatuses, RssStatuses
<1>2. [c \in Channels |-> NULL] \in [Channels -> HealthState \cup {NULL}]
    OBVIOUS
<1> QED
    BY <1>1, <1>2 DEF IdlePass, PassState, CheckUnderWay, MaybeTime

\* The initial state is well formed.
LEMMA InitTypes == Init => TypeOK
<1> SUFFICES ASSUME Init PROVE TypeOK
    OBVIOUS
<1> USE DEF Init
<1>1. NewRow \in Row
    BY HealthAssumption DEF NewRow, Row, HealthState, MaybeTime, Availabilities, Activities
<1>2. NoHealthChecks \in HealthChecks
    BY DEF NoHealthChecks, HealthChecks, MaybeTime, Availabilities
<1>3. /\ now \in Times
      /\ queued \in [Channels -> SUBSET RunIds]
      /\ restarts \in 0..MaxRestarts
      /\ strongSinceAlive \in [Channels -> 0..2]
    BY ChannelHealthAssumption DEF Times
<1>4. window \in Seq(BOOLEAN) /\ Len(window) <= WindowSize
    BY ChannelHealthAssumption
<1>5. stats \in StatsState /\ stats.phase # "collecting"
    BY DEF IdleStats, StatsState, MaybeTime
<1> QED
    BY <1>1, <1>2, <1>3, <1>4, <1>5, IdlePassType DEF TypeOK

\* Every step keeps the tables and the passes well formed.
LEMMA NextTypes == TypeOK /\ [Next]_vars => TypeOK'
<1> SUFFICES ASSUME TypeOK, [Next]_vars PROVE TypeOK'
    OBVIOUS
<1> USE DEF TypeOK
<1>1. CASE Tick
    BY <1>1, ChannelHealthAssumption DEF Tick, table, Times
<1>2. ASSUME NEW c \in Channels, CreateChannel(c)
      PROVE  TypeOK'
    <2>1. [row[c] EXCEPT !.lifecycle = "enabled"] \in Row
        BY ZenonT(40) DEF Row
    <2> QED
        BY <1>2, <2>1 DEF CreateChannel
<1>3. ASSUME NEW c \in Channels, ArchiveChannel(c)
      PROVE  TypeOK'
    <2>1. [row[c].health EXCEPT !.availability = "ARCHIVED"] \in HealthState
        <3>1. row[c].health \in HealthState
            BY DEF Row
        <3> QED
            BY <3>1 DEF HealthState, Availabilities
    <2>2. row' = [row EXCEPT ![c] =
                    [row[c] EXCEPT
                       !.lifecycle = "archived",
                       !.health = [row[c].health EXCEPT !.availability = "ARCHIVED"]]]
        BY <1>3 DEF ArchiveChannel, Row
    <2>3. row' \in [Channels -> Row]
        BY <2>1, <2>2 DEF Row
    <2> QED
        BY <1>3, <2>3 DEF ArchiveChannel
<1>4. ASSUME NEW c \in Channels, RequestHealthCheck(c)
      PROVE  TypeOK'
    <2>1. queued' \in [Channels -> SUBSET RunIds]
        BY <1>4, ChannelHealthAssumption DEF RequestHealthCheck
    <2> QED
        BY <1>4, <2>1 DEF RequestHealthCheck
<1>5. ASSUME NEW p \in Passes, StartPass(p)
      PROVE  TypeOK'
    <2>1. [c \in Channels |-> IF c \in Enabled THEN row[c].health ELSE NULL]
            \in [Channels -> HealthState \cup {NULL}]
        BY DEF Row
    <2>2. pass'[p] \in PassState /\ CheckUnderWay(pass'[p])
        BY <1>5, <2>1, IdlePassType DEF StartPass, PassState, CheckUnderWay
    <2> QED
        BY <1>5, <2>2 DEF StartPass, table
<1>6. ASSUME NEW p \in Passes, Advance(p)
      PROVE  TypeOK'
    <2>1. window' \in Seq(BOOLEAN) /\ Len(window') <= WindowSize
        <3>1. IsProviderFailure(pass[p].sig) \in BOOLEAN
            BY DEF IsProviderFailure
        <3> QED
            BY <1>6, <3>1, RecordType DEF Advance
    <2>2. pass' \in [Passes -> PassState] /\ \A r \in Passes : CheckUnderWay(pass'[r])
        <3>1. CASE pass' = [pass EXCEPT ![p] = IdlePass]
            BY <3>1, IdlePassType
        <3>2. CASE \E c \in Todo(p) :
                     pass' = [pass EXCEPT ![p] =
                                [IdlePass EXCEPT !.phase = "probing", !.chan = c, !.at = now,
                                                 !.listed = pass[p].listed]]
            <4>1. PICK c \in Todo(p) :
                     pass' = [pass EXCEPT ![p] =
                                [IdlePass EXCEPT !.phase = "probing", !.chan = c, !.at = now,
                                                 !.listed = pass[p].listed]]
                BY <3>2
            <4>2. pass'[p] \in PassState /\ CheckUnderWay(pass'[p])
                BY <4>1, IdlePassType DEF PassState, CheckUnderWay, Todo, MaybeTime
            <4> QED
                BY <4>1, <4>2
        <3> QED
            BY <1>6, <3>1, <3>2 DEF Advance
    <2> QED
        BY <1>6, <2>1, <2>2 DEF Advance, table
<1>7. ASSUME NEW p \in Passes, ProbesAnswer(p)
      PROVE  TypeOK'
    <2>1. CircuitOpen \in BOOLEAN
        BY DEF CircuitOpen, EvaluateHealthCircuit
    <2>2. PICK s \in Answers :
            pass' = [pass EXCEPT ![p].phase = "answered", ![p].sig = s,
                                 ![p].incident = CircuitOpen]
        BY <1>7 DEF ProbesAnswer
    <2>3. pass'[p] = [pass[p] EXCEPT !.phase = "answered", !.sig = s,
                                     !.incident = CircuitOpen]
        BY <2>2
    <2>4. pass'[p] \in PassState
        BY <2>1, <2>3, ChannelHealthAssumption DEF PassState
    <2>5. CheckUnderWay(pass'[p])
        BY <1>7, <2>3 DEF ProbesAnswer, PassState, CheckUnderWay
    <2> QED
        BY <1>7, <2>2, <2>4, <2>5 DEF ProbesAnswer, table
<1>8. ASSUME NEW p \in Passes, Commit(p)
      PROVE  TypeOK'
    <2> DEFINE q == pass[p]
               c == q.chan
    <2>1. q \in PassState /\ q.phase = "answered" /\ CheckUnderWay(q)
        BY <1>8 DEF Commit
    <2>2. c \in Channels /\ q.at \in Times
        BY <2>1 DEF CheckUnderWay
    <2>3. row' \in [Channels -> Row]
        <3>1. Transition(q) \in HealthState /\ q.at \in MaybeTime
            BY <2>1, <2>2, CommitTypes DEF MaybeTime
        <3>2. ASSUME NEW h \in HealthState, NEW t \in MaybeTime
              PROVE  [row[c] EXCEPT !.health = h, !.lastHealthCheckAt = t] \in Row
            <4>1. row[c] \in Row
                BY <2>2
            <4> QED
                BY <4>1 DEF Row
        <3>3. row' = [row EXCEPT ![c] = [row[c] EXCEPT !.health = Transition(q),
                                                       !.lastHealthCheckAt = q.at]]
            BY <1>8, <2>2 DEF Commit, Row
        <3> QED
            BY <2>2, <3>1, <3>2, <3>3
    <2>4. queued' \in [Channels -> SUBSET RunIds]
        BY <1>8, <2>2, ChannelHealthAssumption DEF Commit, TakeQueued
    <2>5. healthChecks' \in [Channels -> HealthChecks]
        BY <1>8, <2>1, <2>2, CommitTypes DEF Commit
    <2>6. strongSinceAlive' \in [Channels -> 0..2]
        BY <1>8, <2>1, <2>2, CommitTypes DEF Commit
    <2>7. pass'[p] \in PassState /\ CheckUnderWay(pass'[p])
        BY <1>8, <2>1, IdlePassType DEF Commit, PassState, CheckUnderWay
    <2> QED
        BY <1>8, <2>3, <2>4, <2>5, <2>6, <2>7 DEF Commit
<1>9. ASSUME NEW p \in Passes, CommitFails(p)
      PROVE  TypeOK'
    <2>1. pass'[p] \in PassState /\ CheckUnderWay(pass'[p])
        BY <1>9, IdlePassType DEF CommitFails, PassState, CheckUnderWay
    <2> QED
        BY <1>9, <2>1 DEF CommitFails, table
<1>10. CASE StatsStep
    <2>1. CASE StatsList
        <3>1. stats' \in StatsState /\ stats'.phase # "collecting"
            BY <2>1 DEF StatsList, StatsState, IdleStats, Enabled, MaybeTime
        <3> QED
            BY <2>1, <3>1 DEF StatsList, table
    <2>2. CASE StatsNext
        <3>1. stats' \in StatsState
            BY <2>2 DEF StatsNext, StatsState, IdleStats, MaybeTime
        <3>2. stats'.phase = "collecting" => stats'.chan \in Channels /\ stats'.at \in Times
            BY <2>2 DEF StatsNext, StatsState, IdleStats
        <3> QED
            BY <2>2, <3>1, <3>2 DEF StatsNext, table
    <2>3. CASE StatsCommit
        <3>1. PICK upload \in Uploads :
                row' = [row EXCEPT ![stats.chan] = CurrentStats(@, upload, stats.at)]
            BY <2>3 DEF StatsCommit
        <3>2. DeriveActivityStatus(upload, stats.at) \in Activities
            BY DEF DeriveActivityStatus, Activities
        <3>3. stats.chan \in Channels /\ stats.at \in MaybeTime
            BY <2>3 DEF StatsCommit, MaybeTime
        <3>4. CurrentStats(row[stats.chan], upload, stats.at) \in Row
            <4>0. row[stats.chan].health \in HealthState
                BY <3>3 DEF Row
            <4>1. [row[stats.chan].health EXCEPT
                     !.activity = DeriveActivityStatus(upload, stats.at),
                     !.lastSeenAliveAt = stats.at] \in HealthState
                BY <3>2, <3>3, <4>0 DEF HealthState
            <4> QED
                BY <3>3, <4>1, ZenonT(40) DEF CurrentStats, Row
        <3>5. stats' \in StatsState /\ stats'.phase # "collecting"
            BY <2>3 DEF StatsCommit, StatsState, IdleStats, MaybeTime
        <3> QED
            BY <2>3, <3>1, <3>3, <3>4, <3>5 DEF StatsCommit
    <2>4. CASE StatsPartial
        BY <2>4 DEF StatsPartial, StatsState, IdleStats, MaybeTime, table
    <2> QED
        BY <1>10, <2>1, <2>2, <2>3, <2>4 DEF StatsStep
<1>11. CASE WorkerRestart
    <2>1. stats' \in StatsState /\ stats'.phase # "collecting"
        BY <1>11 DEF WorkerRestart, IdleStats, StatsState, MaybeTime
    <2>2. window' \in Seq(BOOLEAN) /\ Len(window') <= WindowSize
        BY <1>11, ChannelHealthAssumption DEF WorkerRestart
    <2>3. restarts' \in 0..MaxRestarts
        BY <1>11, ChannelHealthAssumption DEF WorkerRestart
    <2> QED
        BY <1>11, <2>1, <2>2, <2>3, IdlePassType DEF WorkerRestart, table
<1>12. CASE UNCHANGED vars
    BY <1>12 DEF vars
<1> QED
    BY <1>1, <1>2, <1>3, <1>4, <1>5, <1>6, <1>7, <1>8, <1>9, <1>10, <1>11, <1>12
       DEF Next, ApiStep, HealthStep

\* Every reachable state is well typed: the window stays bounded, a check under
\* way always has the listed row it judges, a row never leaves its domain.
THEOREM TypeCorrect == Spec => []TypeOK
BY InitTypes, NextTypes, PTL DEF Spec

----------------------------------------------------------------------------
\* Soundness of the rows.

\* More checks on record never take evidence away.
LEMMA AppendKeepsSound ==
    ASSUME NEW q \in PassState, NEW hc \in HealthChecks, NEW h \in HealthState,
           q.at \in Times, Sound(h, hc)
    PROVE  Sound(h, AppendCheck(hc, q))
<1> DEFINE hd == AppendCheck(hc, q)
<1>1. hc.failing \subseteq hd.failing
    BY DEF AppendCheck
<1>2. hc.independent => hd.independent
    BY DEF AppendCheck
<1>3. hc.lastStrong # NULL => hd.lastStrong # NULL /\ hd.lastStrong >= hc.lastStrong
    BY HealthAssumption DEF AppendCheck, Latest, HealthChecks, MaybeTime, Times
<1>4. hd.lastStrong \in MaybeTime
    BY DEF AppendCheck, Latest, HealthChecks, MaybeTime
<1>5. DeletionEvidence(hc) => DeletionEvidence(hd)
    <2> SUFFICES ASSUME NEW t \in hc.failing, hc.lastStrong # NULL,
                        hc.lastStrong - t >= RetryDelay
                 PROVE  hd.lastStrong # NULL /\ hd.lastStrong - t >= RetryDelay
        BY <1>1, <1>2 DEF DeletionEvidence
    <2> HIDE DEF hd
    <2>1. t \in Int /\ hc.lastStrong \in Int /\ hd.lastStrong \in Int
        BY <1>3, <1>4 DEF HealthChecks, MaybeTime, Times
    <2> QED
        BY <1>3, <2>1, HealthAssumption
<1> QED
    BY <1>1, <1>5 DEF Sound

\* What a check concludes from a sound listed row is sound once it is on record.
LEMMA TransitionSound ==
    ASSUME NEW q \in PassState, NEW hc \in HealthChecks, NEW h \in HealthState,
           q.at \in Times, h = q.listed[q.chan], Sound(h, hc)
    PROVE  Sound(Transition(q), AppendCheck(hc, q))
<1> DEFINE hd == AppendCheck(hc, q)
           n == StrongFailureCount(q.sig)
<1>1. Sound(h, hd)
    BY AppendKeepsSound
<1>2. CASE q.incident \/ h.availability = "ARCHIVED"
    BY <1>1, <1>2 DEF Transition, TransitionChannelHealth
<1>3. CASE ~q.incident /\ h.availability # "ARCHIVED" /\ HasPositive(q.sig)
    <2>1. Transition(q) = AliveTransition(h, q.at)
        BY <1>3 DEF Transition, TransitionChannelHealth
    <2>2. /\ Transition(q).availability = "ACTIVE"
          /\ Transition(q).failures = 0
          /\ Transition(q).firstUnavailableAt = NULL
        BY <2>1 DEF AliveTransition, HealthState
    <2> QED
        BY <2>2 DEF Sound, Coherent
<1>4. CASE ~q.incident /\ h.availability # "ARCHIVED" /\ ~HasPositive(q.sig)
    <2> DEFINE first == IF h.firstUnavailableAt = NULL THEN q.at ELSE h.firstUnavailableAt
               r == Transition(q)
    <2>1. /\ r.availability = FailedAvailability(h, q.sig, first, q.at)
          /\ r.failures = IF n > 0 THEN CountFailure(h.failures) ELSE h.failures
          /\ r.firstUnavailableAt = first
        BY <1>4 DEF Transition, TransitionChannelHealth, FailedTransition, HealthState
    <2>2. hd.failing = hc.failing \cup {q.at}
        BY <1>4 DEF AppendCheck, IsFailing
    <2>3. first \in hd.failing /\ first \in Times /\ first # NULL
        BY <2>2, HealthAssumption DEF Sound, HealthState, HealthChecks, MaybeTime, Times
    <2>4. n > 0 => r.failures >= 1
        BY <2>1, HealthAssumption DEF CountFailure, HealthState
    <2>5. ASSUME r.availability = "DELETED_OR_TERMINATED"
          PROVE  n > 0 /\ DeletionEvidence(hd)
        <3>1. DeletionConfirmedBy(h, q.sig, first, q.at)
            BY <2>1, <2>5 DEF FailedAvailability
        <3>2. n > 0 /\ (n >= 2 \/ q.at - first >= RetryDelay)
            BY <3>1 DEF DeletionConfirmedBy
        <3>3. CASE n >= 2
            BY <1>4, <3>2, <3>3 DEF DeletionEvidence, AppendCheck, IsFailing
        <3>4. CASE q.at - first >= RetryDelay
            <4>1. hd.lastStrong = Latest(hc.lastStrong, q.at)
                BY <1>4, <3>2 DEF AppendCheck, IsStrong, IsFailing, StrongFailureCount
            <4>2. hd.lastStrong \in Times /\ hd.lastStrong >= q.at
                BY <4>1 DEF Latest, HealthChecks, MaybeTime, Times
            <4> HIDE DEF hd, first
            <4>3. hd.lastStrong # NULL /\ hd.lastStrong - first >= RetryDelay
                BY <2>3, <3>4, <4>2, HealthAssumption DEF Times
            <4> QED
                BY <2>3, <3>2, <4>3 DEF DeletionEvidence
        <3> QED
            BY <3>2, <3>3, <3>4
    <2>6. r.availability = "NOT_FOUND" => n > 0
        BY <2>1 DEF FailedAvailability
    <2>7. r.availability # "ACTIVE"
        BY <2>1 DEF FailedAvailability
    <2> HIDE DEF hd, first, r, n
    <2>8. Coherent(r)
        BY <2>1, <2>3, <2>4, <2>5, <2>6, <2>7 DEF Coherent
    <2>9. Sound(r, hd)
        BY <2>1, <2>3, <2>5, <2>8 DEF Sound
    <2> QED
        BY <2>9 DEF hd, r
<1> QED
    BY <1>2, <1>3, <1>4

\* The stats loop and the archive leave the health evidence of a row alone.
LEMMA SameEvidenceSound ==
    ASSUME NEW h, NEW k, NEW hc, Sound(h, hc),
           k.failures = h.failures,
           k.firstUnavailableAt = h.firstUnavailableAt,
           k.availability \in {h.availability, "ARCHIVED"}
    PROVE  Sound(k, hc)
BY DEF Sound, Coherent

\* There are no rows at first.
LEMMA InitSound == Init => SoundRows
<1> SUFFICES ASSUME Init PROVE SoundRows
    OBVIOUS
<1>1. \A c \in Channels : Sound(row[c].health, healthChecks[c])
    BY DEF Init, NewRow, NoHealthChecks, Sound, Coherent
<1>2. \A p \in Passes, c \in Channels : pass[p].listed[c] = NULL
    BY DEF Init, IdlePass
<1> QED
    BY <1>1, <1>2 DEF SoundRows

\* Every step keeps the rows sound.
LEMMA NextSound == TypeOK /\ SoundRows /\ [Next]_vars => SoundRows'
<1> SUFFICES ASSUME TypeOK, SoundRows, [Next]_vars PROVE SoundRows'
    OBVIOUS
<1>0. /\ row \in [Channels -> Row]
      /\ healthChecks \in [Channels -> HealthChecks]
      /\ pass \in [Passes -> PassState]
    BY DEF TypeOK
\* A step that writes no check and no health evidence, and after which a pass
\* lists only what it listed before, or the rows as they are.
<1>a. ASSUME UNCHANGED healthChecks,
             \A c \in Channels : Sound(row'[c].health, healthChecks[c]),
             \A p \in Passes, c \in Channels :
                 pass'[p].listed[c] \in {NULL, pass[p].listed[c], row[c].health}
      PROVE  SoundRows'
    BY <1>a DEF SoundRows
<1>1. CASE Tick
    BY <1>1 DEF Tick, table, SoundRows
<1>2. ASSUME NEW c \in Channels, CreateChannel(c)
      PROVE  SoundRows'
    <2>1. \A d \in Channels : row'[d].health = row[d].health
        BY <1>0, <1>2 DEF CreateChannel, Row
    <2> QED
        BY <1>2, <2>1 DEF CreateChannel, SoundRows
<1>3. ASSUME NEW c \in Channels, ArchiveChannel(c)
      PROVE  SoundRows'
    <2>1. \A d \in Channels :
             /\ row'[d].health.failures = row[d].health.failures
             /\ row'[d].health.firstUnavailableAt = row[d].health.firstUnavailableAt
             /\ row'[d].health.availability \in {row[d].health.availability, "ARCHIVED"}
        BY <1>0, <1>3 DEF ArchiveChannel, Row, HealthState
    <2>2. \A d \in Channels : Sound(row'[d].health, healthChecks[d])
        BY <2>1, SameEvidenceSound DEF SoundRows
    <2> QED
        BY <1>3, <1>a, <2>2 DEF ArchiveChannel
<1>4. ASSUME NEW c \in Channels, RequestHealthCheck(c)
      PROVE  SoundRows'
    BY <1>4 DEF RequestHealthCheck, SoundRows
<1>5. ASSUME NEW p \in Passes, StartPass(p)
      PROVE  SoundRows'
    <2>1. \A r \in Passes, c \in Channels :
             pass'[r].listed[c] \in {NULL, pass[r].listed[c], row[c].health}
        BY <1>0, <1>5 DEF StartPass, IdlePass
    <2>2. UNCHANGED <<row, healthChecks>>
        BY <1>5 DEF StartPass, table
    <2> QED
        BY <1>a, <2>1, <2>2 DEF SoundRows
<1>6. ASSUME NEW p \in Passes, Advance(p)
      PROVE  SoundRows'
    <2>1. \A r \in Passes, c \in Channels :
             pass'[r].listed[c] \in {NULL, pass[r].listed[c], row[c].health}
        <3>1. CASE pass' = [pass EXCEPT ![p] = IdlePass]
            BY <1>0, <3>1 DEF IdlePass
        <3>2. CASE \E c \in Todo(p) :
                     pass' = [pass EXCEPT ![p] =
                                [IdlePass EXCEPT !.phase = "probing", !.chan = c, !.at = now,
                                                 !.listed = pass[p].listed]]
            BY <1>0, <3>2 DEF IdlePass
        <3> QED
            BY <1>6, <3>1, <3>2 DEF Advance
    <2>2. UNCHANGED <<row, healthChecks>>
        BY <1>6 DEF Advance, table
    <2> QED
        BY <1>a, <2>1, <2>2 DEF SoundRows
<1>7. ASSUME NEW p \in Passes, ProbesAnswer(p)
      PROVE  SoundRows'
    <2>1. \A r \in Passes, c \in Channels : pass'[r].listed[c] = pass[r].listed[c]
        BY <1>0, <1>7 DEF ProbesAnswer, PassState
    <2>2. UNCHANGED <<row, healthChecks>>
        BY <1>7 DEF ProbesAnswer, table
    <2> QED
        BY <1>a, <2>1, <2>2 DEF SoundRows
<1>8. ASSUME NEW p \in Passes, Commit(p)
      PROVE  SoundRows'
    <2> DEFINE q == pass[p]
               c == q.chan
    <2>1. /\ q \in PassState
          /\ c \in Channels
          /\ q.at \in Times
          /\ q.listed[c] \in HealthState
          /\ q.listed[c] # NULL
        BY <1>8, CommitTypes DEF Commit, TypeOK, CheckUnderWay
    <2>2. healthChecks[c] \in HealthChecks /\ row[c].health \in HealthState
        BY <1>0, <2>1 DEF Row
    <2>3. /\ healthChecks' = [healthChecks EXCEPT ![c] = AppendCheck(@, q)]
          /\ row'[c].health = Transition(q)
          /\ \A d \in Channels \ {c} : row'[d] = row[d]
        BY <1>0, <1>8, <2>1 DEF Commit, Row
    <2>4. Sound(row'[c].health, healthChecks'[c])
        <3>1. Sound(q.listed[c], healthChecks[c])
            BY <2>1 DEF SoundRows
        <3> QED
            BY <1>0, <2>1, <2>2, <2>3, <3>1, TransitionSound
    <2>5. \A r \in Passes, d \in Channels :
             pass'[r].listed[d] \in {NULL, pass[r].listed[d]}
        BY <1>0, <1>8, <2>1 DEF Commit, IdlePass, PassState
    <2>6. ASSUME NEW r \in Passes, pass[r].listed[c] # NULL
          PROVE  Sound(pass[r].listed[c], healthChecks'[c])
        <3>1. pass[r].listed[c] \in HealthState
            BY <1>0, <2>1, <2>6 DEF PassState
        <3>2. Sound(pass[r].listed[c], healthChecks[c])
            BY <2>1, <2>6 DEF SoundRows
        <3> QED
            BY <1>0, <2>1, <2>2, <2>3, <3>1, <3>2, AppendKeepsSound
    <2>7. \A d \in Channels \ {c} : healthChecks'[d] = healthChecks[d]
        BY <1>0, <2>3
    <2> HIDE DEF q, c
    <2> QED
        BY <2>3, <2>4, <2>5, <2>6, <2>7 DEF SoundRows
<1>9. ASSUME NEW p \in Passes, CommitFails(p)
      PROVE  SoundRows'
    <2>1. \A r \in Passes, c \in Channels :
             pass'[r].listed[c] \in {NULL, pass[r].listed[c], row[c].health}
        BY <1>0, <1>9 DEF CommitFails, IdlePass, PassState
    <2>2. UNCHANGED <<row, healthChecks>>
        BY <1>9 DEF CommitFails, table
    <2> QED
        BY <1>a, <2>1, <2>2 DEF SoundRows
<1>10. CASE StatsStep
    <2>1. CASE StatsCommit
        <3>1. PICK upload \in Uploads :
                row' = [row EXCEPT ![stats.chan] = CurrentStats(@, upload, stats.at)]
            BY <2>1 DEF StatsCommit
        <3>2. \A d \in Channels :
                 /\ row'[d].health.failures = row[d].health.failures
                 /\ row'[d].health.firstUnavailableAt = row[d].health.firstUnavailableAt
                 /\ row'[d].health.availability = row[d].health.availability
            BY <1>0, <3>1 DEF CurrentStats, Row, HealthState
        <3>3. \A d \in Channels : Sound(row'[d].health, healthChecks[d])
            BY <3>2, SameEvidenceSound DEF SoundRows
        <3> QED
            BY <1>a, <2>1, <3>3 DEF StatsCommit
    <2>2. CASE StatsList \/ StatsNext \/ StatsPartial
        BY <2>2 DEF StatsList, StatsNext, StatsPartial, table, SoundRows
    <2> QED
        BY <1>10, <2>1, <2>2 DEF StatsStep
<1>11. CASE WorkerRestart
    <2>1. \A r \in Passes, c \in Channels : pass'[r].listed[c] = NULL
        BY <1>11 DEF WorkerRestart, IdlePass
    <2> QED
        BY <1>11, <1>a, <2>1 DEF WorkerRestart, table, SoundRows
<1>12. CASE UNCHANGED vars
    BY <1>12 DEF vars, SoundRows
<1> QED
    BY <1>1, <1>2, <1>3, <1>4, <1>5, <1>6, <1>7, <1>8, <1>9, <1>10, <1>11, <1>12
       DEF Next, ApiStep, HealthStep

\* Rows and listed rows are sound in every reachable state, however many passes
\* overlap.
THEOREM RowsSound == Spec => []SoundRows
<1>1. TypeOK /\ SoundRows /\ [Next]_vars => SoundRows'
    BY NextSound
<1> QED
    BY <1>1, InitSound, TypeCorrect, PTL DEF Spec

\* No false delete: every channel shown deleted has the evidence on record.
THEOREM NoFalseDelete == Spec => []DeletionConfirmed
<1>1. SoundRows => DeletionConfirmed
    BY DEF SoundRows, Sound, DeletionConfirmed
<1> QED
    BY <1>1, RowsSound, PTL

\* Availability, failure counter and start of the outage never disagree.
THEOREM RowsCoherent == Spec => []RowCoherent
<1>1. SoundRows => RowCoherent
    BY DEF SoundRows, Sound, RowCoherent
<1> QED
    BY <1>1, RowsSound, PTL

\* The retry delay is measured from a failing check that is on record.
THEOREM OutagesOnRecord == Spec => []FirstUnavailableRecorded
<1>1. SoundRows => FirstUnavailableRecorded
    BY DEF SoundRows, Sound, FirstUnavailableRecorded
<1> QED
    BY <1>1, RowsSound, PTL


----------------------------------------------------------------------------
\* Passes that do not overlap, as one pass: what it listed as deleted still is, or was
\* archived since, and the circuit it read when the probes answered is still the circuit.
LonePass(p) ==
    /\ \A c \in Channels :
         /\ pass[p].listed[c] # NULL
         /\ pass[p].listed[c].availability = "DELETED_OR_TERMINATED"
         => Deleted(c) \/ row[c].lifecycle = "archived"
    /\ pass[p].phase = "answered" => pass[p].incident = CircuitOpen

LEMMA LonePassNext ==
    ASSUME NEW p0, Passes = {p0}, TypeOK, LonePass(p0), [Next]_vars
    PROVE  /\ LonePass(p0)'
           /\ [\A c \in Enabled : ~Deleted(c) /\ Deleted(c)' => ~CircuitOpen]_vars
<1>0. /\ row \in [Channels -> Row] /\ pass \in [Passes -> PassState] /\ p0 \in Passes
      /\ CheckUnderWay(pass[p0])
    BY DEF TypeOK
\* A step that keeps what was deleted so, makes no channel deleted, and leaves the pass
\* and the circuit alone.
<1>a. ASSUME UNCHANGED <<pass, window>>,
             \A c \in Channels :
                 /\ row'[c].health.availability \in {row[c].health.availability, "ARCHIVED"}
                 /\ row'[c].health.availability = row[c].health.availability
                      \/ row'[c].lifecycle = "archived"
                 /\ row[c].lifecycle = "archived" => row'[c].lifecycle = "archived"
      PROVE  /\ LonePass(p0)' /\ \A c \in Channels : Deleted(c)' => Deleted(c)
    BY <1>a DEF LonePass, Deleted, CircuitOpen
<1>1. ASSUME Tick \/ UNCHANGED vars
      PROVE  LonePass(p0)' /\ \A d \in Channels : Deleted(d)' => Deleted(d)
    <2>1. UNCHANGED <<row, pass, window>>
        BY <1>1 DEF Tick, vars, table
    <2> QED
        BY <1>a, <2>1
<1>2. ASSUME NEW c \in Channels, CreateChannel(c) \/ ArchiveChannel(c) \/ RequestHealthCheck(c)
      PROVE  LonePass(p0)' /\ \A d \in Channels : Deleted(d)' => Deleted(d)
    BY <1>0, <1>2, <1>a, SMTT(30) DEF CreateChannel, ArchiveChannel, RequestHealthCheck, Row, HealthState
<1>3. ASSUME StatsStep
      PROVE  LonePass(p0)' /\ \A d \in Channels : Deleted(d)' => Deleted(d)
    <2>1. CASE StatsCommit
        <3>1. PICK u \in Uploads : row' = [row EXCEPT ![stats.chan] = CurrentStats(@, u, stats.at)]
            BY <2>1 DEF StatsCommit
        <3>2. \A c \in Channels : /\ row'[c].health.availability = row[c].health.availability
                                  /\ row'[c].lifecycle = row[c].lifecycle
            BY <1>0, <3>1 DEF CurrentStats, Row, HealthState
        <3>3. UNCHANGED <<pass, window>>
            BY <2>1 DEF StatsCommit
        <3> QED
            BY <1>a, <3>2, <3>3
    <2>2. CASE StatsList \/ StatsNext \/ StatsPartial
        <3>1. UNCHANGED <<row, pass, window>>
            BY <2>2 DEF StatsList, StatsNext, StatsPartial, table
        <3> QED
            BY <1>a, <3>1
    <2> QED
        BY <1>3, <2>1, <2>2 DEF StatsStep
<1>4. CASE WorkerRestart
    BY <1>0, <1>4 DEF WorkerRestart, LonePass, IdlePass, Deleted, table
<1>5. CASE StartPass(p0)
    <2>1. /\ UNCHANGED <<row, window>> /\ pass'[p0].phase = "next"
          /\ \A c \in Channels : pass'[p0].listed[c] \in {NULL, row[c].health}
        BY <1>0, <1>5 DEF StartPass, IdlePass, table
    <2> QED
        BY <2>1 DEF LonePass, Deleted
<1>6. CASE Advance(p0)
    <2>1. UNCHANGED row
        BY <1>6 DEF Advance, table
    <2>2. \/ pass' = [pass EXCEPT ![p0] = IdlePass]
          \/ \E c \in Channels :
                pass' = [pass EXCEPT ![p0] = [IdlePass EXCEPT
                                                !.phase = "probing", !.chan = c, !.at = now,
                                                !.listed = pass[p0].listed]]
        BY <1>6 DEF Advance, Todo
    <2>3. /\ pass'[p0].phase # "answered"
          /\ \A c \in Channels : pass'[p0].listed[c] \in {NULL, pass[p0].listed[c]}
        <3>1. CASE pass' = [pass EXCEPT ![p0] = IdlePass]
            <4>1. pass'[p0] = IdlePass
                BY <1>0, <3>1
            <4> QED
                BY <4>1 DEF IdlePass
        <3>2. ASSUME NEW c \in Channels,
                     pass' = [pass EXCEPT ![p0] = [IdlePass EXCEPT
                                                     !.phase = "probing", !.chan = c, !.at = now,
                                                     !.listed = pass[p0].listed]]
              PROVE  pass'[p0].phase # "answered" /\ pass'[p0].listed = pass[p0].listed
            BY <1>0, <3>2 DEF IdlePass
        <3> QED
            BY <2>2, <3>1, <3>2
    <2> QED
        BY <2>1, <2>3 DEF LonePass, Deleted
<1>7. CASE ProbesAnswer(p0)
    <2>1. /\ UNCHANGED <<row, window>> /\ pass'[p0].incident = CircuitOpen
          /\ pass'[p0].listed = pass[p0].listed
        BY <1>0, <1>7 DEF ProbesAnswer, PassState, table
    <2> QED
        BY <2>1 DEF LonePass, Deleted, CircuitOpen
<1>8. CASE CommitFails(p0)
    <2>1. /\ UNCHANGED row /\ pass'[p0].phase # "answered"
          /\ pass'[p0].listed = [pass[p0].listed EXCEPT ![pass[p0].chan] = NULL]
        BY <1>0, <1>8 DEF CommitFails, IdlePass, table
    <2>2. \A c \in Channels : pass'[p0].listed[c] \in {NULL, pass[p0].listed[c]}
        BY <1>0, <2>1 DEF PassState
    <2> QED
        BY <2>1, <2>2 DEF LonePass, Deleted
<1>9. ASSUME Commit(p0)
      PROVE  LonePass(p0)' /\ \A c \in Enabled : ~Deleted(c) /\ Deleted(c)' => ~CircuitOpen
    <2> DEFINE q == pass[p0]
    <2>1. q.phase = "answered" /\ q.chan \in Channels /\ q.listed[q.chan] # NULL
        BY <1>0, <1>9 DEF Commit, CheckUnderWay
    <2>2. /\ row'[q.chan].health = Transition(q) /\ row'[q.chan].lifecycle = row[q.chan].lifecycle
          /\ \A c \in Channels \ {q.chan} : row'[c] = row[c]
        BY <1>0, <1>9, <2>1 DEF Commit, Row
    <2>3. /\ pass'[p0].phase = "committed" /\ pass'[p0].listed[q.chan] = NULL
          /\ \A c \in Channels \ {q.chan} : pass'[p0].listed[c] = q.listed[c]
        BY <1>0, <1>9, <2>1 DEF Commit, IdlePass, PassState
    <2>4. LonePass(p0)'
        BY <2>2, <2>3 DEF LonePass, Deleted
    <2>5. ASSUME NEW c \in Enabled, ~Deleted(c), Deleted(c)', CircuitOpen PROVE FALSE
        <3>1. c = q.chan /\ c \in Channels /\ row[c].lifecycle = "enabled"
            BY <2>2, <2>5 DEF Enabled, Deleted
        <3>2. Transition(q) = q.listed[c]
            BY <2>1, <2>5, <3>1 DEF LonePass, Transition
        <3>3. q.listed[c].availability = "DELETED_OR_TERMINATED"
            BY <2>2, <2>5, <3>1, <3>2 DEF Deleted
        <3> QED
            BY <2>1, <2>5, <3>1, <3>3 DEF LonePass
    <2> QED
        BY <2>4, <2>5
<1>10. /\ \A c \in Enabled : c \in Channels
    BY DEF Enabled
<1>12. ASSUME StartPass(p0) \/ Advance(p0) \/ ProbesAnswer(p0) \/ CommitFails(p0) \/ WorkerRestart
       PROVE  \A c \in Enabled : ~Deleted(c) /\ Deleted(c)' => ~CircuitOpen
    BY <1>12 DEF StartPass, Advance, ProbesAnswer, CommitFails, WorkerRestart, table, Deleted
<1>13. CASE HealthStep
    <2>1. \/ StartPass(p0) \/ Advance(p0) \/ ProbesAnswer(p0) \/ Commit(p0) \/ CommitFails(p0)
        BY <1>13 DEF HealthStep
    <2> QED
        BY <1>5, <1>6, <1>7, <1>8, <1>9, <1>12, <2>1
<1> QED
    BY <1>1, <1>2, <1>3, <1>4, <1>10, <1>12, <1>13, <1>a DEF Next, ApiStep

\* While passes do not overlap, as with one, no enabled channel becomes deleted in a step
\* taken while the provider circuit is open: neither by probes that answered before it
\* opened, nor by the row a pass listed when the incident is waited out
\* (ChannelHealthJob.run, HealthCircuitWindow).
THEOREM IncidentsDeleteNothing ==
    ASSUME NEW p0, Passes = {p0}
    PROVE  Spec => CircuitBlocksDeletion
<1>1. Init => LonePass(p0)
    BY DEF Init, LonePass, IdlePass
<1>2. TypeOK /\ LonePass(p0) /\ [Next]_vars =>
        /\ LonePass(p0)'
        /\ [\A c \in Enabled : ~Deleted(c) /\ Deleted(c)' => ~CircuitOpen]_vars
    BY LonePassNext
<1> QED
    BY <1>1, <1>2, TypeCorrect, PTL DEF Spec, CircuitBlocksDeletion
----------------------------------------------------------------------------
\* Passes one at a time: whatever a pass lists, and a row unless the API has archived it,
\* is backed by the signals gathered since the channel was last seen, and is what the
\* newest check on record concluded.
Told(h, c) ==
    /\ h.failures >= 1 => strongSinceAlive[c] >= 1
    /\ h.availability = "DELETED_OR_TERMINATED" => strongSinceAlive[c] = 2
    /\ h.availability = healthChecks[c].newest
    /\ h.availability # "ARCHIVED"

RowTold(c) ==
    \/ Told(row[c].health, c)
    \/ row[c].lifecycle = "archived" /\ row[c].health.availability = "ARCHIVED"

\* No check on record is newer than t.
NoneAfter(c, t) == healthChecks[c].newestAt # NULL => healthChecks[c].newestAt <= t

ListedTold(p) ==
    /\ pass[p].phase = "idle" => pass[p] = IdlePass
    /\ \A c \in Channels : pass[p].listed[c] # NULL => Told(pass[p].listed[c], c)
    /\ pass[p].phase \in {"probing", "answered"} =>
         NoneAfter(pass[p].chan, pass[p].at) /\ pass[p].at <= now

LoneRows ==
    /\ Alone
    /\ \A c \in Channels : RowTold(c) /\ NoneAfter(c, now)
    /\ \A p \in Passes : ListedTold(p)

\* Nothing is on record at first.
LEMMA InitLone == Init => LoneRows
<1> SUFFICES ASSUME Init PROVE LoneRows
    OBVIOUS
<1>1. \A c \in Channels : RowTold(c) /\ NoneAfter(c, now)
    BY DEF Init, RowTold, Told, NewRow, NoHealthChecks, NoneAfter
<1>2. \A p \in Passes : ListedTold(p)
    BY DEF Init, ListedTold, IdlePass
<1> QED
    BY <1>1, <1>2 DEF LoneRows, Alone, Init, IdlePass

\* A check of a listed row that is told leaves the row, and the check on record, told.
LEMMA TransitionTold ==
    ASSUME NEW q \in PassState, NEW h \in HealthState, NEW hc \in HealthChecks, NEW n \in 0..2,
           q.at \in Times, h = q.listed[q.chan],
           h.failures >= 1 => n >= 1,
           h.availability = "DELETED_OR_TERMINATED" => n = 2,
           h.availability # "ARCHIVED",
           hc.newestAt # NULL => hc.newestAt <= q.at
    PROVE  /\ Transition(q).failures >= 1 => CountStrong(n, q) >= 1
           /\ Transition(q).availability = "DELETED_OR_TERMINATED" => CountStrong(n, q) = 2
           /\ Transition(q).availability = AppendCheck(hc, q).newest
           /\ Transition(q).availability # "ARCHIVED"
           /\ AppendCheck(hc, q).newestAt = q.at
<1> DEFINE k == StrongFailureCount(q.sig)
           r == Transition(q)
<1>1. Latest(hc.newestAt, q.at) = q.at
    BY DEF Latest, HealthChecks, MaybeTime, Times
<1>2. AppendCheck(hc, q).newestAt = q.at /\ AppendCheck(hc, q).newest = r.availability
    BY <1>1 DEF AppendCheck, Verdict
<1>3. CASE q.incident
    BY <1>2, <1>3 DEF Transition, CountStrong
<1>4. CASE ~q.incident /\ HasPositive(q.sig)
    <2>1. r = AliveTransition(h, q.at) /\ CountStrong(n, q) = 0
        BY <1>4 DEF Transition, TransitionChannelHealth, CountStrong
    <2>2. r.availability = "ACTIVE" /\ r.failures = 0
        BY <2>1 DEF AliveTransition, HealthState
    <2> QED
        BY <1>2, <2>2
<1>5. CASE ~q.incident /\ ~HasPositive(q.sig)
    <2> DEFINE first == IF h.firstUnavailableAt = NULL THEN q.at ELSE h.firstUnavailableAt
    <2>1. /\ r.availability = FailedAvailability(h, q.sig, first, q.at)
          /\ r.failures = IF k > 0 THEN CountFailure(h.failures) ELSE h.failures
        BY <1>5 DEF Transition, TransitionChannelHealth, FailedTransition, HealthState
    <2>2. k \in 0..3
        BY SMT DEF StrongFailureCount
    <2>3. CountStrong(n, q) = IF n + k > 2 THEN 2 ELSE n + k
        BY <1>5 DEF CountStrong
    <2>4. r.availability = "DELETED_OR_TERMINATED" => k >= 2 \/ (k >= 1 /\ h.failures >= 1)
        <3>1. r.availability = "DELETED_OR_TERMINATED" => DeletionConfirmedBy(h, q.sig, first, q.at)
            BY <2>1 DEF FailedAvailability
        <3> QED
            BY <2>2, <3>1 DEF DeletionConfirmedBy
    <2>5. r.availability # "ARCHIVED"
        BY <2>1 DEF FailedAvailability
    <2> HIDE DEF k, r
    <2>6. r.failures >= 1 => CountStrong(n, q) >= 1
        BY <2>1, <2>2, <2>3
    <2>7. r.availability = "DELETED_OR_TERMINATED" => CountStrong(n, q) = 2
        BY <2>2, <2>3, <2>4
    <2> QED
        BY <1>2, <2>5, <2>6, <2>7 DEF r
<1> QED
    BY <1>3, <1>4, <1>5

\* What a step that writes no check has to keep.
LEMMA LoneKept ==
    ASSUME TypeOK, LoneRows, Alone',
           UNCHANGED <<healthChecks, strongSinceAlive>>, now' \in Times, now <= now',
           \A c \in Channels :
               \/ row'[c].health = row[c].health /\ row'[c].lifecycle = row[c].lifecycle
               \/ row'[c].health = row[c].health /\ row[c].lifecycle # "archived"
               \/ row'[c].lifecycle = "archived" /\ row'[c].health.availability = "ARCHIVED",
           \A p \in Passes : ListedTold(p)'
    PROVE  LoneRows'
<1>1. \A c \in Channels : RowTold(c)'
    BY DEF LoneRows, RowTold, Told
<1>2. \A c \in Channels : NoneAfter(c, now)'
    BY DEF LoneRows, NoneAfter, TypeOK, HealthChecks, MaybeTime, Times
<1> QED
    BY <1>1, <1>2 DEF LoneRows

\* Every step of passes that do not overlap keeps rows and listings told.
LEMMA NextLone ==
    ASSUME TypeOK, LoneRows, Alone',
           Tick \/ ApiStep \/ HealthStep \/ WorkerRestart \/ UNCHANGED vars
    PROVE  LoneRows'
<1>0. /\ row \in [Channels -> Row] /\ pass \in [Passes -> PassState] /\ now \in Times
      /\ healthChecks \in [Channels -> HealthChecks] /\ strongSinceAlive \in [Channels -> 0..2]
      /\ \A p \in Passes : CheckUnderWay(pass[p])
    BY DEF TypeOK
<1>a. now <= now
    BY <1>0 DEF Times
\* The passes left alone by a step that writes no check stay told.
<1>b. ASSUME UNCHANGED <<healthChecks, strongSinceAlive>>, now' \in Times, now <= now',
             NEW p \in Passes, pass'[p] = pass[p]
      PROVE  ListedTold(p)'
    <2>1. ListedTold(p) /\ CheckUnderWay(pass[p])
        BY <1>0 DEF LoneRows
    <2>2. pass[p].phase \in {"probing", "answered"} => pass[p].at <= now'
        BY <1>0, <1>b, <2>1 DEF ListedTold, CheckUnderWay, Times
    <2> QED
        BY <1>b, <2>1, <2>2 DEF ListedTold, Told, NoneAfter
\* So does a pass that is idle, or lists only what it listed or the rows in use.
<1>c. ASSUME UNCHANGED <<healthChecks, strongSinceAlive>>, NEW p \in Passes,
             pass'[p].phase = "idle" => pass'[p] = IdlePass,
             \A c \in Channels : \/ pass'[p].listed[c] \in {NULL, pass[p].listed[c]}
                                 \/ pass'[p].listed[c] = row[c].health
                                      /\ row[c].lifecycle # "archived",
             pass'[p].phase \in {"probing", "answered"} =>
                NoneAfter(pass'[p].chan, pass'[p].at) /\ pass'[p].at <= now'
      PROVE  ListedTold(p)'
    BY <1>c DEF LoneRows, ListedTold, RowTold, Told, NoneAfter
<1>1. CASE Tick
    <2>1. now' \in Times /\ now <= now'
        BY <1>0, <1>1, ChannelHealthAssumption DEF Tick, Times
    <2>2. UNCHANGED <<row, healthChecks, strongSinceAlive, pass>>
        BY <1>1 DEF Tick, table
    <2>3. \A p \in Passes : ListedTold(p)'
        BY <1>b, <2>1, <2>2
    <2> QED
        BY <2>1, <2>2, <2>3, LoneKept
<1>2. CASE ApiStep
    <2>1. PICK c \in Channels : CreateChannel(c) \/ ArchiveChannel(c) \/ RequestHealthCheck(c)
        BY <1>2 DEF ApiStep
    <2>2. UNCHANGED <<now, healthChecks, strongSinceAlive, pass>>
        BY <2>1 DEF CreateChannel, ArchiveChannel, RequestHealthCheck
    <2>3. \A d \in Channels :
             \/ row'[d].health = row[d].health /\ row'[d].lifecycle = row[d].lifecycle
             \/ row'[d].health = row[d].health /\ row[d].lifecycle # "archived"
             \/ row'[d].lifecycle = "archived" /\ row'[d].health.availability = "ARCHIVED"
        <3>1. CASE CreateChannel(c)
            BY <1>0, <3>1 DEF CreateChannel, Row
        <3>2. CASE ArchiveChannel(c)
            <4>1. /\ row'[c].lifecycle = "archived" /\ row'[c].health.availability = "ARCHIVED"
                  /\ \A d \in Channels \ {c} : row'[d] = row[d]
                BY <1>0, <3>2 DEF ArchiveChannel, Row, HealthState
            <4> QED
                BY <4>1
        <3>3. CASE RequestHealthCheck(c)
            BY <3>3 DEF RequestHealthCheck
        <3> QED
            BY <2>1, <3>1, <3>2, <3>3
    <2>4. \A p \in Passes : ListedTold(p)'
        BY <1>0, <1>a, <1>b, <2>2
    <2> QED
        BY <1>0, <1>a, <2>2, <2>3, <2>4, LoneKept
<1>3. ASSUME NEW p \in Passes, StartPass(p) PROVE LoneRows'
    <2>1. /\ UNCHANGED <<now, row, healthChecks, strongSinceAlive>>
          /\ \A r \in Passes \ {p} : pass'[r] = pass[r]
          /\ pass'[p].phase = "next"
          /\ \A c \in Channels : \/ pass'[p].listed[c] = NULL
                                 \/ pass'[p].listed[c] = row[c].health
                                      /\ row[c].lifecycle # "archived"
        BY <1>0, <1>3 DEF StartPass, IdlePass, Enabled, table
    <2>2. ListedTold(p)'
        BY <1>c, <2>1
    <2>3. \A r \in Passes : ListedTold(r)'
        BY <1>0, <1>a, <1>b, <2>1, <2>2
    <2> QED
        BY <1>0, <1>a, <2>1, <2>3, LoneKept
<1>4. ASSUME NEW p \in Passes, Advance(p) PROVE LoneRows'
    <2>1. UNCHANGED <<now, row, healthChecks, strongSinceAlive>>
        BY <1>4, Zenon DEF Advance, table
    <2>2. \/ pass' = [pass EXCEPT ![p] = IdlePass]
          \/ \E c \in Channels :
                pass' = [pass EXCEPT ![p] = [IdlePass EXCEPT
                                               !.phase = "probing", !.chan = c, !.at = now,
                                               !.listed = pass[p].listed]]
        BY <1>4, Zenon DEF Advance, Todo
    <2>3. ListedTold(p)' /\ \A r \in Passes \ {p} : pass'[r] = pass[r]
        <3>1. CASE pass' = [pass EXCEPT ![p] = IdlePass]
            <4>1. pass'[p] = IdlePass
                BY <1>0, <3>1
            <4>2. /\ \A c \in Channels : pass'[p].listed[c] = NULL
                  /\ pass'[p].phase \notin {"probing", "answered"}
                BY <4>1 DEF IdlePass
            <4> QED
                BY <1>0, <1>c, <2>1, <3>1, <4>1, <4>2
        <3>2. ASSUME NEW c \in Channels,
                     pass' = [pass EXCEPT ![p] = [IdlePass EXCEPT
                                                    !.phase = "probing", !.chan = c, !.at = now,
                                                    !.listed = pass[p].listed]]
              PROVE  ListedTold(p)' /\ \A r \in Passes \ {p} : pass'[r] = pass[r]
            <4>1. /\ pass'[p].phase = "probing" /\ pass'[p].chan = c /\ pass'[p].at = now
                  /\ pass'[p].listed = pass[p].listed
                BY <1>0, <3>2 DEF IdlePass
            <4>2. NoneAfter(pass'[p].chan, pass'[p].at) /\ pass'[p].at <= now'
                BY <1>a, <2>1, <4>1 DEF LoneRows
            <4>3. ListedTold(p)'
                BY <1>c, <2>1, <4>1, <4>2
            <4> QED
                BY <1>0, <3>2, <4>3
        <3> QED
            BY <2>2, <3>1, <3>2, Zenon
    <2>4. \A r \in Passes : ListedTold(r)'
        BY <1>0, <1>a, <1>b, <2>1, <2>3
    <2> QED
        BY <1>0, <1>a, <2>1, <2>4, LoneKept
<1>5. ASSUME NEW p \in Passes, ProbesAnswer(p) PROVE LoneRows'
    <2>1. /\ UNCHANGED <<now, row, healthChecks, strongSinceAlive>>
          /\ \A r \in Passes \ {p} : pass'[r] = pass[r]
          /\ pass[p].phase = "probing" /\ pass'[p].phase = "answered"
          /\ pass'[p].listed = pass[p].listed
          /\ pass'[p].chan = pass[p].chan /\ pass'[p].at = pass[p].at
        BY <1>0, <1>5 DEF ProbesAnswer, PassState, table
    <2>2. NoneAfter(pass'[p].chan, pass'[p].at) /\ pass'[p].at <= now'
        BY <2>1 DEF LoneRows, ListedTold
    <2>3. ListedTold(p)'
        BY <1>c, <2>1, <2>2
    <2>4. \A r \in Passes : ListedTold(r)'
        BY <1>0, <1>a, <1>b, <2>1, <2>3
    <2> QED
        BY <1>0, <1>a, <2>1, <2>4, LoneKept
<1>6. ASSUME NEW p \in Passes, CommitFails(p) PROVE LoneRows'
    <2>1. /\ UNCHANGED <<now, row, healthChecks, strongSinceAlive>>
          /\ \A r \in Passes \ {p} : pass'[r] = pass[r]
          /\ pass'[p].phase = "next"
          /\ \A c \in Channels : pass'[p].listed[c] \in {NULL, pass[p].listed[c]}
        BY <1>0, <1>6 DEF CommitFails, IdlePass, PassState, table
    <2>2. ListedTold(p)'
        BY <1>c, <2>1
    <2>3. \A r \in Passes : ListedTold(r)'
        BY <1>0, <1>a, <1>b, <2>1, <2>2
    <2> QED
        BY <1>0, <1>a, <2>1, <2>3, LoneKept
<1>7. ASSUME NEW p \in Passes, NEW c \in Channels, Commit(p), pass[p].chan = c
      PROVE  LoneRows'
    <2> DEFINE q == pass[p]
               h == q.listed[c]
    <2>1. /\ q \in PassState /\ q.phase = "answered" /\ q.chan = c
          /\ q.at \in Times /\ h # NULL /\ h \in HealthState
        BY <1>0, <1>7, CommitTypes DEF Commit, CheckUnderWay
    <2>2. Told(h, c) /\ NoneAfter(c, q.at) /\ q.at <= now
        BY <2>1 DEF LoneRows, ListedTold
    <2>3. /\ healthChecks' = [healthChecks EXCEPT ![c] = AppendCheck(@, q)]
          /\ strongSinceAlive' = [strongSinceAlive EXCEPT ![c] = CountStrong(@, q)]
          /\ now' = now
        BY <1>7, <2>1 DEF Commit
    <2>4. /\ row'[c].health = Transition(q)
          /\ \A d \in Channels \ {c} : row'[d] = row[d]
        BY <1>0, <1>7, <2>1 DEF Commit, Row
    <2>5. /\ pass'[p].phase = "committed" /\ pass'[p].listed[c] = NULL
          /\ \A d \in Channels \ {c} : pass'[p].listed[d] = q.listed[d]
          /\ \A r \in Passes \ {p} : pass'[r] = pass[r]
        BY <1>0, <1>7, <2>1 DEF Commit, IdlePass, PassState
    <2>6. Told(row[c].health, c)' /\ healthChecks'[c].newestAt = q.at
        <3>1. healthChecks[c] \in HealthChecks /\ strongSinceAlive[c] \in 0..2
            BY <1>0, <2>1
        <3>2. /\ healthChecks'[c] = AppendCheck(healthChecks[c], q)
              /\ strongSinceAlive'[c] = CountStrong(strongSinceAlive[c], q)
            BY <1>0, <2>1, <2>3
        <3> HIDE DEF q
        <3> QED
            BY <2>1, <2>2, <2>4, <3>1, <3>2, TransitionTold DEF Told, NoneAfter
    <2>7. \A d \in Channels \ {c} : /\ healthChecks'[d] = healthChecks[d]
                                    /\ strongSinceAlive'[d] = strongSinceAlive[d]
        BY <1>0, <2>3
    <2> HIDE DEF q, h
    <2>8. \A d \in Channels : RowTold(d)' /\ NoneAfter(d, now)'
        <3>1. RowTold(c)' /\ NoneAfter(c, now)'
            BY <2>2, <2>3, <2>6 DEF RowTold, NoneAfter, Told
        <3>2. ASSUME NEW d \in Channels \ {c} PROVE RowTold(d)' /\ NoneAfter(d, now)'
            BY <2>3, <2>4, <2>7 DEF LoneRows, RowTold, NoneAfter, Told
        <3> QED
            BY <3>1, <3>2
    <2>9. ListedTold(p)'
        <3>1. \A d \in Channels : pass'[p].listed[d] # NULL => Told(pass[p].listed[d], d)'
            BY <2>5, <2>7 DEF LoneRows, ListedTold, Told, q
        <3> QED
            BY <2>5, <3>1 DEF ListedTold, Told
    <2>10. ASSUME NEW r \in Passes \ {p} PROVE ListedTold(r)'
        <3>1. pass[r] = IdlePass
            BY <2>1 DEF LoneRows, Alone, ListedTold, q
        <3>2. pass'[r] = IdlePass
            BY <2>5, <3>1
        <3> QED
            BY <3>2 DEF ListedTold, IdlePass
    <2> QED
        BY <2>8, <2>9, <2>10 DEF LoneRows
<1>8. CASE WorkerRestart
    <2>1. /\ UNCHANGED <<now, row, healthChecks, strongSinceAlive>>
          /\ \A p \in Passes : pass'[p] = IdlePass
        BY <1>8 DEF WorkerRestart, table
    <2>2. \A p \in Passes : ListedTold(p)'
        <3> SUFFICES ASSUME NEW p \in Passes PROVE ListedTold(p)'
            OBVIOUS
        <3>1. pass'[p] = IdlePass
            BY <2>1
        <3>2. /\ pass'[p].phase \notin {"probing", "answered"}
              /\ \A c \in Channels : pass'[p].listed[c] = NULL
            BY <3>1 DEF IdlePass
        <3> QED
            BY <3>1, <3>2 DEF ListedTold
    <2> QED
        BY <1>0, <1>a, <2>1, <2>2, LoneKept
<1>9. CASE UNCHANGED vars
    BY <1>9 DEF vars, LoneRows, Alone, RowTold, ListedTold, Told, NoneAfter
<1>10. CASE HealthStep
    <2>1. \A p \in Passes : Commit(p) => pass[p].chan \in Channels
        BY <1>0 DEF Commit, CheckUnderWay
    <2> QED
        BY <1>3, <1>4, <1>5, <1>6, <1>7, <1>10, <2>1 DEF HealthStep
<1> QED
    BY <1>1, <1>2, <1>8, <1>9, <1>10

\* While passes do not overlap, an archive at any moment, failed transactions and restarts
\* included: a channel shown deleted had two strong signals since it was last seen alive,
\* for a recovery resets the evidence; and an enabled channel shows what its newest check
\* on record concluded (transitionChannelHealth, ChannelHealthJob.run).
THEOREM LonePassesTell == ScenarioSpec => []LonePasses
<1> DEFINE Inv == TypeOK /\ (~overlap => LoneRows)
<1>1. ScenarioInit => Inv
    <2>1. Init => TypeOK
        BY InitTypes
    <2> QED
        BY <2>1, InitLone DEF ScenarioInit
<1>2. Inv /\ [ScenarioNext]_scenarioVars => Inv'
    <2> SUFFICES ASSUME Inv, [ScenarioNext]_scenarioVars PROVE Inv'
        OBVIOUS
    <2>1. [Next]_vars
        BY DEF ScenarioNext, scenarioVars, Next
    <2>2. TypeOK'
        BY <2>1, NextTypes
    <2>3. ASSUME ~overlap' PROVE LoneRows'
        <3>1. CASE UNCHANGED scenarioVars
            BY <2>3, <3>1, NextLone DEF scenarioVars, vars, LoneRows, Alone
        <3>2. CASE ScenarioNext
            <4>1. UNCHANGED overlap
                BY <3>2 DEF ScenarioNext, KeepsScenario
            <4>2. Tick \/ ApiStep \/ HealthStep \/ WorkerRestart
                BY <2>3, <3>2, <4>1 DEF ScenarioNext
            <4>3. Alone'
                BY <2>3, <3>2, <4>1 DEF ScenarioNext, KeepsScenario
            <4> QED
                BY <2>3, <4>1, <4>2, <4>3, NextLone
        <3> QED
            BY <3>1, <3>2
    <2> QED
        BY <2>2, <2>3
<1>3. Inv => LonePasses
    <2> SUFFICES ASSUME ~overlap, LoneRows PROVE RecoveryResets /\ NewestCheckShown
        BY DEF LonePasses
    <2> QED
        BY DEF LoneRows, RowTold, Told, RecoveryResets, NewestCheckShown, Enabled
<1> QED
    BY <1>1, <1>2, <1>3, PTL DEF ScenarioSpec
=============================================================================
