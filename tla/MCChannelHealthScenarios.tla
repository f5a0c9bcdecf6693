--------------------- MODULE MCChannelHealthScenarios ----------------------
(***************************************************************************)
(* ChannelHealth for TLC in two scenarios: passes that overlap each other   *)
(* and the stats loop, for a shorter time and answers that leave the         *)
(* circuit alone; or passes one at a time, with the circuit and restarts,    *)
(* without the stats.                                                        *)
(***************************************************************************)
EXTENDS MCChannelHealth

VARIABLE overlap

scenarioVars == <<vars, overlap>>

Alone == \A p, q \in Passes : p # q => pass[p].phase = "idle" \/ pass[q].phase = "idle"

ScenarioInit == Init /\ overlap \in BOOLEAN

\* What a step of each scenario may lead to.
KeepsScenario ==
    /\ UNCHANGED overlap
    /\ IF overlap
       THEN /\ now' <= 1
            /\ restarts' = 0
            /\ \A p \in Passes : pass'[p].phase = "answered" => pass'[p].sig \in TwoAnswers
       ELSE Alone'

ScenarioNext ==
    \/ Tick /\ KeepsScenario
    \/ ApiStep /\ KeepsScenario
    \/ HealthStep /\ KeepsScenario
    \/ overlap /\ StatsStep /\ KeepsScenario
    \/ WorkerRestart /\ KeepsScenario

ScenarioSpec == ScenarioInit /\ [][ScenarioNext]_scenarioVars

\* Passes that do not overlap: a channel is deleted only on strong signals gathered since
\* it was last seen alive, and the row shows what its newest recorded check concluded.
LonePasses == ~overlap => RecoveryResets /\ NewestCheckShown
=============================================================================
