---------------------------- MODULE YtdlpRunner -----------------------------
(***************************************************************************)
(* runProcess of packages/collectors/ytdlp: one yt-dlp child, its output     *)
(* bounded, its time bounded, and one promise that settles once, whichever   *)
(* of the child's events, the timer and the bound comes first; and           *)
(* ConcurrencyLimiter, which lets a bounded number of calls run.             *)
(***************************************************************************)
EXTENDS Basics, Integers, Sequences, FiniteSets

CONSTANTS
    Calls,          \* the calls of run
    MaxActive,      \* the limiter's limit
    MaxOutput,      \* maxOutputBytes, in chunks
    TimeoutAt       \* timeoutMs, in instants of the call

\* How the promise settles.
Outcomes == {"resolved", "failed", "overflow", "timeout", "error"}

ASSUME RunnerAssumption ==
    /\ MaxActive \in Nat \ {0} /\ MaxOutput \in Nat /\ TimeoutAt \in Nat
    /\ NULL \notin Nat \cup Outcomes

VARIABLES
    active,         \* calls let through and not released
    waiters,        \* calls that wait, in order
    call            \* call[c]: the call's promise, timer, child and what it wrote

runnerVars == <<active, waiters, call>>

NewCall ==
    [stage |-> "new", settled |-> NULL, timer |-> NULL, child |-> "none", killed |-> FALSE,
     output |-> 0]

RunnerInit ==
    /\ active = 0
    /\ waiters = <<>>
    /\ call = [c \in Calls |-> NewCall]

Spawned(c) ==
    [call EXCEPT ![c] = [NewCall EXCEPT !.stage = "running", !.timer = 0, !.child = "alive"]]

\* acquire: at once below the limit, else in line.
Acquires(c) ==
    /\ call[c].stage = "new"
    /\ IF active < MaxActive
       THEN active' = active + 1 /\ call' = Spawned(c) /\ UNCHANGED waiters
       ELSE /\ waiters' = Append(waiters, c)
            /\ call' = [call EXCEPT ![c].stage = "waiting"]
            /\ UNCHANGED active

\* Slip: the place is given up and the first in line does not take it.
ReleasesNothing(calls) ==
    active' = active - 1 /\ waiters' = waiters /\ call' = calls

\* release, as the promise settles: the first in line takes the place.
Releases(calls) ==
    IF waiters = <<>>
    THEN active' = active - 1 /\ waiters' = waiters /\ call' = calls
    ELSE /\ active' = active
         /\ waiters' = Tail(waiters)
         /\ call' = [calls EXCEPT ![Head(waiters)] =
              [NewCall EXCEPT !.stage = "running", !.timer = 0, !.child = "alive"]]

\* Only the first event settles the promise and stops the timer.
Settles(c, how, state) ==
    IF call[c].settled # NULL
    THEN call' = [call EXCEPT ![c] = state] /\ UNCHANGED <<active, waiters>>
    ELSE Releases([call EXCEPT ![c] =
             [state EXCEPT !.settled = how, !.timer = NULL, !.stage = "done"]])

\* A chunk on either pipe: beyond the bound the child is killed.
Outputs(c) ==
    /\ call[c].child = "alive" /\ ~call[c].killed
    /\ call[c].output < MaxOutput
    /\ call' = [call EXCEPT ![c].output = @ + 1]
    /\ UNCHANGED <<active, waiters>>

\* A killed child's last chunks may still come.
OutputOverflows(c) ==
    /\ call[c].child = "alive"
    /\ call[c].output = MaxOutput
    /\ Settles(c, "overflow", [call[c] EXCEPT !.killed = TRUE])

TimerTicks(c) ==
    /\ call[c].timer # NULL /\ call[c].timer < TimeoutAt
    /\ call' = [call EXCEPT ![c].timer = @ + 1]
    /\ UNCHANGED <<active, waiters>>

TimesOut(c) ==
    /\ call[c].timer = TimeoutAt
    /\ Settles(c, "timeout", [call[c] EXCEPT !.killed = TRUE])

\* The executable is not there or cannot start: no child.
SpawnFails(c) ==
    /\ call[c].child = "alive" /\ call[c].output = 0 /\ ~call[c].killed
    /\ Settles(c, "error", [call[c] EXCEPT !.child = "none"])

\* The child ends, on its own or killed; its exit code tells success.
Closes(c) ==
    /\ call[c].child = "alive"
    /\ \E how \in (IF call[c].killed THEN {"failed"} ELSE {"resolved", "failed"}) :
         Settles(c, how, [call[c] EXCEPT !.child = "ended"])

RunnerNext ==
    \E c \in Calls :
        \/ Acquires(c) \/ Outputs(c) \/ OutputOverflows(c) \/ TimerTicks(c) \/ TimesOut(c)
        \/ SpawnFails(c) \/ Closes(c)

RunnerSpec == RunnerInit /\ [][RunnerNext]_runnerVars

----------------------------------------------------------------------------
\* No call waits while there is room, no more than the limit run, no child outlives
\* its call without having been killed, and none has its timer left behind.
NothingLeaks ==
    /\ active = Cardinality({c \in Calls : call[c].stage = "running"})
    /\ active <= MaxActive
    /\ waiters # <<>> => active = MaxActive
    /\ \A c \in Calls : call[c].stage = "done" =>
         /\ call[c].timer = NULL
         /\ call[c].child = "alive" => call[c].killed
=============================================================================
