--------------------------- MODULE MCWorkerLoops ----------------------------
(***************************************************************************)
(* The loops of the worker that share no table, side by side for TLC: the    *)
(* initial state chooses which one runs, and the others stay as they begin,  *)
(* so that their states add and do not multiply.                             *)
(***************************************************************************)
EXTENDS VideoMonitor, AiReports, Heartbeat, YtdlpRunner, TLC

CONSTANTS p1, p2

VARIABLE loop

vars == <<loop, monitorVars, reportsVars, heartbeatVars, runnerVars>>

\* A video two instants old at the start.
TheDates == {-2}

Init ==
    /\ loop \in {"monitor", "reports", "heartbeat", "runner"}
    /\ MonitorInit /\ ReportsInit /\ HeartbeatInit /\ RunnerInit
    /\ loop # "reports" => \A o \in Occurrences : report[o] = NULL

Next ==
    \/ loop = "monitor" /\ MonitorNext /\ UNCHANGED <<loop, reportsVars, heartbeatVars, runnerVars>>
    \/ loop = "reports" /\ ReportsNext /\ UNCHANGED <<loop, monitorVars, heartbeatVars, runnerVars>>
    \/ loop = "heartbeat" /\ HeartbeatNext /\ UNCHANGED <<loop, monitorVars, reportsVars, runnerVars>>
    \/ loop = "runner" /\ RunnerNext /\ UNCHANGED <<loop, monitorVars, reportsVars, heartbeatVars>>

Spec == Init /\ [][Next]_vars

PollSymmetry == Permutations({p1, p2})
=============================================================================
