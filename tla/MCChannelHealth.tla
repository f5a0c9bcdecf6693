-------------------------- MODULE MCChannelHealth --------------------------
(***************************************************************************)
(* Small instances of ChannelHealth for TLC, and what a test of the          *)
(* repository says of it, refuted by a run (README, "Findings").            *)
(***************************************************************************)
EXTENDS ChannelHealth, TLC

Answer(page, ytdlp, rss) == [publicPage |-> page, ytdlp |-> ytdlp, rss |-> rss]

\* One answer of each kind the state machine and the circuit tell apart.
KeyAnswers ==
    {Answer("PUBLIC_PAGE_RENDERED", "YTDLP_ERROR", "RSS_OK"),          \* positive
     Answer("PUBLIC_PAGE_NOT_FOUND", "YTDLP_NOT_FOUND", "RSS_MISSING"), \* two strong
     Answer("PUBLIC_PAGE_TERMINATED", "NETWORK_ERROR", "RSS_MISSING"),  \* one strong
     Answer("PUBLIC_PAGE_BLOCKED", "TIMEOUT", "RSS_MISSING")}           \* provider failure

\* Without the answer that deletes at once.
ThreeAnswers == {s \in KeyAnswers : StrongFailureCount(s) < 2}

\* Only what moves the circuit.
CircuitAnswers == {s \in KeyAnswers : StrongFailureCount(s) = 0}

NoUploads == {}
PassSymmetry == Permutations(Passes)
OneUpload == {0}
TwoAnswers == {s \in ThreeAnswers : ~IsProviderFailure(s)}

\* The instance whose question is not about the stats loop leaves it idle.
HealthOnlyNext == Tick \/ ApiStep \/ HealthStep \/ WorkerRestart
HealthOnlySpec == Init /\ [][HealthOnlyNext]_vars

\* The liveness instance has neither the stats loop nor, at MaxTime = 0, a clock to tick:
\* RetryDelay is 0, so a retry is always due.  Checks are queued for the last channel,
\* which a pass comes to after the others.
TimelessApiStep ==
    \/ \E c \in Channels : CreateChannel(c) \/ ArchiveChannel(c)
    \/ RequestHealthCheck(ChannelCount)

TimelessNext == TimelessApiStep \/ HealthStep \/ WorkerRestart
TimelessFairSpec == Init /\ [][TimelessNext]_vars /\ Fairness

\* "never changes archived channels" (state-machine.spec.ts:97): an archived
\* channel stays ARCHIVED.
ArchivedStaysArchived ==
    \A c \in Channels :
        row[c].lifecycle = "archived" => row[c].health.availability = "ARCHIVED"
=============================================================================
