----------------------------- MODULE Heartbeat ------------------------------
(***************************************************************************)
(* The heartbeats of the workers and who reads them: HeartbeatService        *)
(* (apps/worker/src/heartbeat) writes its row every interval, HealthService  *)
(* of the API takes the freshest running row for all the workers, and the    *)
(* container's healthcheck the row of its own worker.                        *)
(*                                                                         *)
(* What is hard: a write may fail, be slow or hang, and lands at the         *)
(* database's instant, not the worker's; a shutdown waits for it a bounded   *)
(* while; the reader gives up at a deadline.                                 *)
(***************************************************************************)
EXTENDS Basics, Integers

CONSTANTS
    WorkerIds,
    StaleAfter,     \* WORKER_HEARTBEAT_STALE_SECONDS
    ShutdownWait,   \* DEFAULT_WORKER_SHUTDOWN_TIMEOUT_MS
    LastInstant     \* bound on the clock

ASSUME HeartbeatAssumption ==
    /\ StaleAfter \in Nat /\ ShutdownWait \in Nat /\ LastInstant \in Nat
    /\ NULL \notin Int

VARIABLES
    instant,
    heartbeat,      \* heartbeat[w]: instant of the row of w
    worker,         \* worker[w]: the service's state, and of its write
    alive,          \* alive[w]: the last instant the process of w was there
    check,          \* the health read of the API
    verdict         \* who answered last at this instant, and what

heartbeatVars == <<instant, heartbeat, worker, alive, check, verdict>>

Stopped == [state |-> "stopped", writing |-> FALSE, deadline |-> NULL]

HeartbeatInit ==
    /\ instant = 0
    /\ heartbeat = [w \in WorkerIds |-> NULL]
    /\ worker = [w \in WorkerIds |-> Stopped]
    /\ alive = [w \in WorkerIds |-> NULL]
    /\ check = FALSE
    /\ verdict = NULL

\* onApplicationBootstrap: the first write before the first timer.
Bootstraps(w) ==
    /\ worker[w].state = "stopped" /\ ~worker[w].writing
    /\ worker' = [worker EXCEPT ![w] = [state |-> "running", writing |-> TRUE, deadline |-> NULL]]
    /\ alive' = [alive EXCEPT ![w] = instant]
    /\ UNCHANGED <<instant, heartbeat, check, verdict>>

\* The timer is set again only when a write has ended.
TimerFires(w) ==
    /\ worker[w].state = "running" /\ ~worker[w].writing
    /\ worker' = [worker EXCEPT ![w].writing = TRUE]
    /\ UNCHANGED <<instant, heartbeat, alive, check, verdict>>

\* The row takes the database's instant.
WriteLands(w) ==
    /\ worker[w].writing
    /\ heartbeat' = [heartbeat EXCEPT ![w] = instant]
    /\ worker' = [worker EXCEPT ![w].writing = FALSE]
    /\ UNCHANGED <<instant, alive, check, verdict>>

WriteFails(w) ==
    /\ worker[w].writing
    /\ worker' = [worker EXCEPT ![w].writing = FALSE]
    /\ UNCHANGED <<instant, heartbeat, alive, check, verdict>>

\* onApplicationShutdown: no timer any more, and a bounded wait for the write.
ShutsDown(w) ==
    /\ worker[w].state = "running"
    /\ worker' = [worker EXCEPT ![w] = [@ EXCEPT !.state = "stopping",
                                                 !.deadline = instant + ShutdownWait]]
    /\ UNCHANGED <<instant, heartbeat, alive, check, verdict>>

\* The connection closes when the write has ended or was waited for long enough.
Disconnects(w) ==
    /\ worker[w].state = "stopping"
    /\ ~worker[w].writing \/ instant = worker[w].deadline
    /\ worker' = [worker EXCEPT ![w] = Stopped]
    /\ UNCHANGED <<instant, heartbeat, alive, check, verdict>>

Crashes(w) ==
    /\ worker[w].state # "stopped"
    /\ worker' = [worker EXCEPT ![w] = Stopped]
    /\ UNCHANGED <<instant, heartbeat, alive, check, verdict>>

\* Time does not go past a shutdown that is due to end.
HeartbeatTick ==
    /\ instant < LastInstant
    /\ \A w \in WorkerIds : worker[w].state = "stopping" => instant < worker[w].deadline
    /\ instant' = instant + 1
    /\ alive' = [w \in WorkerIds |-> IF worker[w].state = "stopped" THEN alive[w] ELSE instant + 1]
    /\ verdict' = NULL
    /\ UNCHANGED <<heartbeat, worker, check>>

----------------------------------------------------------------------------
\* Slip: a row is fresh whatever its age.
EverFresh(w) == heartbeat[w] # NULL

Fresh(w) == heartbeat[w] # NULL /\ heartbeat[w] >= instant - StaleAfter

\* getWorkerCheck: the freshest row of all, if it is fresh.
ApiAsks ==
    /\ ~check
    /\ check' = TRUE
    /\ UNCHANGED <<instant, heartbeat, worker, alive, verdict>>

ApiAnswers ==
    /\ check
    /\ check' = FALSE
    /\ verdict' = [by |-> "api", ok |-> \E w \in WorkerIds : Fresh(w)]
    /\ UNCHANGED <<instant, heartbeat, worker, alive>>

\* The read fails or its deadline passes: unavailable, and 503.
ApiGivesUp ==
    /\ check
    /\ check' = FALSE
    /\ verdict' = [by |-> "api", ok |-> FALSE]
    /\ UNCHANGED <<instant, heartbeat, worker, alive>>

\* evaluateWorkerHealth, in the worker's own container.
ContainerChecks(w) ==
    /\ verdict' = [by |-> w, ok |-> Fresh(w)]
    /\ UNCHANGED <<instant, heartbeat, worker, alive, check>>

HeartbeatNext ==
    \/ HeartbeatTick \/ ApiAsks \/ ApiAnswers \/ ApiGivesUp
    \/ \E w \in WorkerIds :
         \/ Bootstraps(w) \/ TimerFires(w) \/ WriteLands(w) \/ WriteFails(w)
         \/ ShutsDown(w) \/ Disconnects(w) \/ Crashes(w) \/ ContainerChecks(w)

HeartbeatSpec == HeartbeatInit /\ [][HeartbeatNext]_heartbeatVars

----------------------------------------------------------------------------
\* A verdict that all is well is of a process that was there less than the stale age
\* before it: neither a write that outlives its worker's shutdown nor, for a container,
\* the beats of another worker make a dead worker look alive.
HealthyMeansAlive ==
    verdict # NULL /\ verdict.ok =>
        \E w \in (IF verdict.by = "api" THEN WorkerIds ELSE {verdict.by}) :
            alive[w] # NULL /\ alive[w] >= instant - StaleAfter
=============================================================================
