--------------------------- MODULE HealthSignals ---------------------------
(***************************************************************************)
(* The pure part of channel health: what one answer of the three probes    *)
(* means (packages/shared/src/channel-health/signals.ts), when a window of *)
(* answers opens the provider circuit (circuit-breaker.ts), how a channel's *)
(* health state moves on an answer (state-machine.ts), and the activity    *)
(* derived from the last upload (channel-history.ts).                      *)
(*                                                                         *)
(* Instants are integers (ticks); an absent instant is NULL.               *)
(***************************************************************************)
EXTENDS Integers, Sequences, FiniteSets

CONSTANTS
    NULL,                \* the absent instant
    RetryDelay,          \* HEALTH_RETRY_DELAY_MS, in ticks
    MinSamples,          \* DEFAULT_CIRCUIT_BREAKER_OPTIONS.minimumSamples
    ActiveUploadTicks,   \* activeUploadDays, in ticks
    FailureCap           \* bound: failures are counted up to FailureCap

ASSUME HealthAssumption ==
    /\ NULL \notin Int
    /\ RetryDelay \in Nat
    /\ MinSamples \in Nat \ {0}
    /\ ActiveUploadTicks \in Nat
    /\ FailureCap \in Nat \ {0}

PublicPageStatuses ==
    {"PUBLIC_PAGE_RENDERED", "PUBLIC_PAGE_NOT_FOUND", "PUBLIC_PAGE_TERMINATED",
     "PUBLIC_PAGE_BLOCKED", "NETWORK_ERROR", "TIMEOUT"}
YtdlpStatuses ==
    {"YTDLP_OK", "YTDLP_NOT_FOUND", "YTDLP_ERROR", "NETWORK_ERROR", "TIMEOUT"}
RssStatuses == {"RSS_OK", "RSS_MISSING", "NETWORK_ERROR", "TIMEOUT"}

\* ChannelHealthSignals: what one check learns from its three probes.
Signals ==
    [publicPage : PublicPageStatuses, ytdlp : YtdlpStatuses, rss : RssStatuses]

PositiveSignals == {"PUBLIC_PAGE_RENDERED", "YTDLP_OK", "RSS_OK"}
StrongFailureSignals ==
    {"PUBLIC_PAGE_NOT_FOUND", "PUBLIC_PAGE_TERMINATED", "YTDLP_NOT_FOUND"}
TransientFailureSignals ==
    {"PUBLIC_PAGE_BLOCKED", "YTDLP_ERROR", "NETWORK_ERROR", "TIMEOUT"}

Probes == {"publicPage", "ytdlp", "rss"}

HasPositive(s) == \E i \in Probes : s[i] \in PositiveSignals
HasTransientFailure(s) == \E i \in Probes : s[i] \in TransientFailureSignals

\* No provider's RSS status is a strong failure, so at most two probes count.
StrongFailureCount(s) ==
    (IF s.publicPage \in StrongFailureSignals THEN 1 ELSE 0)
      + (IF s.ytdlp \in StrongFailureSignals THEN 1 ELSE 0)
      + (IF s.rss \in StrongFailureSignals THEN 1 ELSE 0)

----------------------------------------------------------------------------
\* The circuit breaker.

\* An answer that says something about the providers and nothing about the
\* channel: some probe failed in transit and none was positive or strong.
IsProviderFailure(s) ==
    /\ HasTransientFailure(s)
    /\ \A i \in Probes : s[i] \notin PositiveSignals \cup StrongFailureSignals

\* The window holds, for each recent check, whether it was a provider failure.
\* The default failureRatio of 0.5 is kept as twice the failures.
EvaluateHealthCircuit(window) ==
    LET failures == Cardinality({i \in DOMAIN window : window[i]})
    IN  /\ Len(window) >= MinSamples
        /\ 2 * failures >= Len(window)

----------------------------------------------------------------------------
\* The channel health state machine.

Availabilities ==
    {"ACTIVE", "DELETED_OR_TERMINATED", "NOT_FOUND", "CHECK_FAILED", "UNKNOWN", "ARCHIVED"}
Activities == {"ACTIVE_RECENT", "DORMANT", "NO_UPLOAD_HISTORY", "UNKNOWN"}

\* Slip: the second strong failure deletes at once.
DeletionWithoutDelay(state, s, first, checkedAt) ==
    /\ StrongFailureCount(s) > 0
    /\ StrongFailureCount(s) >= 2 \/ state.failures >= 1

DeletionConfirmedBy(state, s, first, checkedAt) ==
    /\ StrongFailureCount(s) > 0
    /\ \/ StrongFailureCount(s) >= 2
       \/ /\ state.failures >= 1
          /\ checkedAt - first >= RetryDelay

FailedAvailability(state, s, first, checkedAt) ==
    CASE DeletionConfirmedBy(state, s, first, checkedAt) -> "DELETED_OR_TERMINATED"
      [] ~DeletionConfirmedBy(state, s, first, checkedAt) /\ StrongFailureCount(s) > 0 -> "NOT_FOUND"
      [] StrongFailureCount(s) = 0 /\ HasTransientFailure(s) -> "UNKNOWN"
      [] OTHER -> "CHECK_FAILED"

\* The code only ever asks whether the count is at least one.
CountFailure(n) == IF n < FailureCap THEN n + 1 ELSE n

\* Slip: the outage is dated from the last time the channel was seen.
FailedSinceLastSeen(state, s, checkedAt) ==
    LET first == IF state.lastSeenAliveAt = NULL THEN checkedAt ELSE state.lastSeenAliveAt
    IN  [state EXCEPT
           !.availability = FailedAvailability(state, s, first, checkedAt),
           !.failures = IF StrongFailureCount(s) > 0 THEN CountFailure(@) ELSE @,
           !.firstUnavailableAt = first]

\* A check none of whose probes saw the channel.
FailedTransition(state, s, checkedAt) ==
    LET first == IF state.firstUnavailableAt = NULL THEN checkedAt
                                                    ELSE state.firstUnavailableAt
    IN  [state EXCEPT
           !.availability = FailedAvailability(state, s, first, checkedAt),
           !.failures = IF StrongFailureCount(s) > 0 THEN CountFailure(@) ELSE @,
           !.firstUnavailableAt = first]

\* Slip: a recovery leaves the failure evidence in place.
AliveWithoutReset(state, checkedAt) ==
    [state EXCEPT !.availability = "ACTIVE", !.lastSeenAliveAt = checkedAt]

AliveTransition(state, checkedAt) ==
    [state EXCEPT !.availability = "ACTIVE",
                  !.failures = 0,
                  !.firstUnavailableAt = NULL,
                  !.lastSeenAliveAt = checkedAt]

TransitionChannelHealth(state, s, checkedAt) ==
    IF state.availability = "ARCHIVED" THEN state
    ELSE IF HasPositive(s) THEN AliveTransition(state, checkedAt)
    ELSE FailedTransition(state, s, checkedAt)

----------------------------------------------------------------------------
DeriveActivityStatus(lastUploadAt, at) ==
    IF lastUploadAt = NULL THEN "NO_UPLOAD_HISTORY"
    ELSE IF at - lastUploadAt <= ActiveUploadTicks THEN "ACTIVE_RECENT"
    ELSE "DORMANT"

=============================================================================
