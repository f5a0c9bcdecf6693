--------------------------- MODULE LoginThrottle ---------------------------
(***************************************************************************)
(* The failure bucket of one login identifier (packages/auth/src/          *)
(* rate-limit.ts): failures are counted in a fixed window, and at the limit *)
(* the identifier is locked for a while.  A missing bucket is NULL.        *)
(*                                                                         *)
(* The caller passes its own captured instant, which may be older than the *)
(* one another caller has already written.                                 *)
(***************************************************************************)
EXTENDS Integers

CONSTANTS
    NULL,            \* an absent bucket, row or instant
    MaxAttempts,     \* policy.maxAttempts
    WindowTicks,     \* policy.windowMinutes, in ticks
    LockTicks        \* policy.lockMinutes, in ticks

ASSUME ThrottleAssumption ==
    /\ NULL \notin Int
    /\ MaxAttempts \in Nat \ {0}
    /\ WindowTicks \in Nat \ {0}
    /\ LockTicks \in Nat \ {0}

IsBlocked(bucket, at) ==
    /\ bucket # NULL
    /\ bucket.blockedUntil # NULL
    /\ bucket.blockedUntil > at

\* Slip: the attempt that follows the limit is the one that locks.
LateLock(count, at) == IF count > MaxAttempts THEN at + LockTicks ELSE NULL

LockFor(count, at) == IF count >= MaxAttempts THEN at + LockTicks ELSE NULL

StartWindow(at) ==
    [attemptCount |-> 1, windowStartedAt |-> at, blockedUntil |-> LockFor(1, at)]

CountAttempt(bucket, at) ==
    [bucket EXCEPT !.attemptCount = @ + 1,
                   !.blockedUntil = LockFor(bucket.attemptCount + 1, at)]

\* Slip: a failure is counted over a lock that is still running.
NextWithoutLock(bucket, at) ==
    IF bucket = NULL \/ at >= bucket.windowStartedAt + WindowTicks THEN StartWindow(at)
    ELSE CountAttempt(bucket, at)

\* nextThrottleState.
NextThrottleState(bucket, at) ==
    IF IsBlocked(bucket, at) THEN bucket
    ELSE IF bucket = NULL \/ at >= bucket.windowStartedAt + WindowTicks THEN StartWindow(at)
    ELSE CountAttempt(bucket, at)

=============================================================================
