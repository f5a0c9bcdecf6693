----------------------------- MODULE AiReports ------------------------------
(***************************************************************************)
(* The AI reports of the worker (ai-report.scheduler.ts, .pipeline.ts and    *)
(* .job.ts): AiReportScheduler polls for the daily and weekly occurrences   *)
(* that are due, AiReportPipeline accounts for a run of one in sync_runs,    *)
(* and AiReportJob asks a provider for the report unless there is one.       *)
(*                                                                         *)
(* What is hard: polls overlap, for a generation takes minutes; what was    *)
(* tried and done is in memory only, and a restart forgets it; an           *)
(* occurrence is retried until it succeeds, and its report, once made, must *)
(* not be made again from later data.                                       *)
(*                                                                         *)
(* One action is one await-to-await stretch; transactions are Serializable. *)
(***************************************************************************)
EXTENDS Basics, Integers, Sequences, FiniteSets

CONSTANTS
    Providers,
    Polls,          \* identities of the polls under way at once
    DayLength,      \* instants in a day
    DailySlot,      \* instant of the day the daily report is scheduled at
    WeekLength,     \* days in a week
    WeeklySlot,     \* instant of the week's first day for the weekly report
    RetryAfter,     \* retryMs
    MemoryLimit,    \* 100 occurrences
    MaxTime,        \* bound on the clock
    MaxRuns,        \* bound on the runs of the pipeline
    MaxRestarts     \* bound on the restarts of the worker

ASSUME ReportsAssumption ==
    /\ DayLength \in Nat \ {0} /\ WeekLength \in Nat \ {0}
    /\ DailySlot \in 0..DayLength - 1 /\ WeeklySlot \in 0..DayLength - 1
    /\ RetryAfter \in Nat /\ MemoryLimit \in Nat
    /\ MaxTime \in Nat /\ MaxRuns \in Nat /\ MaxRestarts \in Nat
    /\ NULL \notin Providers

Kinds == {"DAILY", "WEEKLY"}
Day(t) == t \div DayLength
Slot(t) == t % DayLength

\* An occurrence: its kind and its local date. Its cutoff is the instant the
\* schedule gives that date.
Occurrence(kind, date) == [kind |-> kind, date |-> date]
Occurrences == {Occurrence(k, d) : k \in Kinds, d \in -WeekLength..Day(MaxTime)}

ReportRows == [print : {"current", "earlier"}, provider : Providers, readAt : 0..MaxTime]

ASSUME NullIsNoReport == NULL \notin ReportRows

VARIABLES
    time,
    report,         \* report[o]: the ai_reports table
    aiRuns,         \* the rows of ai_runs that tell a success, as a set
    syncRuns,       \* the pipeline's rows of sync_runs
    completed,      \* occurrences the scheduler knows to be done
    attempted,      \* attempted[o]: instant of its last attempt
    poll,           \* poll[p]: the polls under way, each at one occurrence
    restarts

reportTables == <<report, aiRuns, syncRuns>>
memory == <<completed, attempted>>
reportsVars == <<time, reportTables, memory, poll, restarts>>

NoPoll == [phase |-> "none"]

\* The table may hold a report of the prompts before, whose fingerprint is another.
ReportsInit ==
    /\ time = 0
    /\ report \in [Occurrences -> {NULL}]
         \cup {[o \in Occurrences |-> IF o = Occurrence("DAILY", 0)
                THEN [print |-> "earlier", provider |-> p, readAt |-> 0] ELSE NULL] :
                p \in Providers}
    /\ aiRuns = {}
    /\ syncRuns = <<>>
    /\ completed = {}
    /\ attempted = [o \in Occurrences |-> NULL]
    /\ poll = [p \in Polls |-> NoPoll]
    /\ restarts = 0

----------------------------------------------------------------------------
\* runDue: today's daily report once its time is past, and the last weekly one.
WeeklyDate(t) ==
    LET since == Day(t) % WeekLength
    IN  Day(t) - (IF since = 0 /\ Slot(t) < WeeklySlot THEN WeekLength ELSE since)

Due(t) ==
    (IF Slot(t) >= DailySlot THEN <<Occurrence("DAILY", Day(t))>> ELSE <<>>)
        \o <<Occurrence("WEEKLY", WeeklyDate(t))>>

Running == {poll[p].todo[1] : p \in {p \in Polls : poll[p].phase \notin {"none", "next"}}}

\* runOne's early return: done, under way, or tried too short a while ago.
MayRun(o, at) ==
    /\ o \notin completed
    /\ o \notin Running
    /\ attempted[o] # NULL => at - attempted[o] >= RetryAfter

\* A poll keeps the instant it began at for all its occurrences.
PollStarts(p) ==
    /\ poll[p] = NoPoll
    /\ poll' = [poll EXCEPT ![p] = [phase |-> "next", at |-> time, todo |-> Due(time)]]
    /\ UNCHANGED <<time, reportTables, memory, restarts>>

GoesOn(q) ==
    IF Len(q.todo) = 1 THEN NoPoll ELSE [phase |-> "next", at |-> q.at, todo |-> Tail(q.todo)]

PollSkips(p) ==
    /\ poll[p].phase = "next"
    /\ ~MayRun(poll[p].todo[1], poll[p].at)
    /\ poll' = [poll EXCEPT ![p] = GoesOn(@)]
    /\ UNCHANGED <<time, reportTables, memory, restarts>>

\* AiReportPipeline.run: a row of sync_runs first.
RunStarts(p) ==
    LET q == poll[p]
    IN  /\ q.phase = "next"
        /\ MayRun(q.todo[1], q.at)
        /\ attempted' = [attempted EXCEPT ![q.todo[1]] = q.at]
        /\ poll' = [poll EXCEPT ![p] = [phase |-> "creating", at |-> q.at, todo |-> q.todo]]
        /\ UNCHANGED <<time, reportTables, completed, restarts>>

\* Slip: an occurrence is done when it was run.
KnownAnyway(o, done) == completed \cup {o}

Known(o, done) == IF done THEN completed \cup {o} ELSE completed

\* Memory has at most MemoryLimit occurrences when a run ends, or it is cleared.
Ends(p, done) ==
    LET o == poll[p].todo[1]
        known == Known(o, done)
    IN  /\ completed' = IF Cardinality(known) > MemoryLimit THEN {} ELSE known
        /\ attempted' =
             IF Cardinality({x \in Occurrences : attempted[x] # NULL}) > MemoryLimit
             THEN [x \in Occurrences |-> NULL] ELSE attempted
        /\ poll' = [poll EXCEPT ![p] = GoesOn(@)]

\* The row cannot be created, and the scheduler catches it.
CreateFails(p) ==
    /\ poll[p].phase = "creating"
    /\ Ends(p, FALSE)
    /\ UNCHANGED <<time, reportTables, restarts>>

Creates(p) ==
    /\ poll[p].phase = "creating"
    /\ Len(syncRuns) < MaxRuns
    /\ syncRuns' = Append(syncRuns, [of |-> poll[p].todo[1], status |-> "RUNNING"])
    /\ poll' = [poll EXCEPT ![p] = [phase |-> "gathering", at |-> @.at, todo |-> @.todo,
                                    run |-> Len(syncRuns) + 1]]
    /\ UNCHANGED <<time, report, aiRuns, memory, restarts>>

\* The aggregate and the runtime settings are read; the run ends here when no
\* provider is configured or the data are insufficient.
Gathers(p) ==
    /\ poll[p].phase = "gathering"
    /\ poll' \in {[poll EXCEPT ![p] = [phase |-> "ending", at |-> @.at, todo |-> @.todo,
                                       run |-> @.run, status |-> "PARTIAL", done |-> FALSE]],
                  [poll EXCEPT ![p] = [phase |-> "finding", at |-> @.at, todo |-> @.todo,
                                       run |-> @.run, readAt |-> time]]}
    /\ UNCHANGED <<time, reportTables, memory, restarts>>

\* Slip: a report is looked for by its content, which later data change.
MatchesContent(r, readAt) == r # NULL /\ r.print = "current" /\ r.readAt = readAt

\* The fingerprint of a scheduled report is that of its occurrence and the prompts:
\* neither the data nor their instant are in it.
Matches(r, readAt) == r # NULL /\ r.print = "current"

\* AiReportJob.run.
FindsReport(p) ==
    LET q == poll[p]
    IN  /\ q.phase = "finding"
        /\ poll' = [poll EXCEPT ![p] =
             IF Matches(report[q.todo[1]], q.readAt)
             THEN [phase |-> "ending", at |-> q.at, todo |-> q.todo, run |-> q.run,
                   status |-> "SUCCESS", done |-> TRUE]
             ELSE [phase |-> "asking", at |-> q.at, todo |-> q.todo, run |-> q.run,
                   readAt |-> q.readAt]]
        /\ UNCHANGED <<time, reportTables, memory, restarts>>

\* A grounded answer of a provider: the run and the report, in one transaction.
StoresReport(p) ==
    LET q == poll[p]
        o == q.todo[1]
    IN  /\ q.phase = "asking"
        /\ \E provider \in Providers :
             /\ report' = [report EXCEPT ![o] =
                  [print |-> "current", provider |-> provider, readAt |-> q.readAt]]
             /\ aiRuns' = aiRuns \cup {[of |-> o, provider |-> provider]}
        /\ poll' = [poll EXCEPT ![p] =
             [phase |-> "ending", at |-> q.at, todo |-> q.todo, run |-> q.run,
              status |-> "SUCCESS", done |-> TRUE]]
        /\ UNCHANGED <<time, syncRuns, memory, restarts>>

\* No answer, one that is not grounded, or a transaction that failed: a row of
\* ai_runs tells the failure, and the report stays what it was.
StoresFailure(p) ==
    LET q == poll[p]
    IN  /\ q.phase = "asking"
        /\ poll' = [poll EXCEPT ![p] =
             [phase |-> "ending", at |-> q.at, todo |-> q.todo, run |-> q.run,
              status |-> "PARTIAL", done |-> FALSE]]
        /\ UNCHANGED <<time, reportTables, memory, restarts>>

\* Anything thrown meanwhile, or by the completion: the run is completed as FAILED.
PipelineThrows(p) ==
    LET q == poll[p]
    IN  /\ q.phase \in {"gathering", "finding", "asking", "ending"}
        /\ poll' = [poll EXCEPT ![p] =
             [phase |-> "failing", at |-> q.at, todo |-> q.todo, run |-> q.run]]
        /\ UNCHANGED <<time, reportTables, memory, restarts>>

Completes(p) ==
    LET q == poll[p]
    IN  /\ q.phase = "ending"
        /\ syncRuns' = [syncRuns EXCEPT ![q.run].status = q.status]
        /\ Ends(p, q.done)
        /\ UNCHANGED <<time, report, aiRuns, restarts>>

CompletesFailed(p) ==
    /\ poll[p].phase = "failing"
    /\ syncRuns' = [syncRuns EXCEPT ![poll[p].run].status = "FAILED"]
    /\ Ends(p, FALSE)
    /\ UNCHANGED <<time, report, aiRuns, restarts>>

\* The failure cannot be recorded: the run stays RUNNING.
CompletionFails(p) ==
    /\ poll[p].phase = "failing"
    /\ Ends(p, FALSE)
    /\ UNCHANGED <<time, reportTables, restarts>>

----------------------------------------------------------------------------
\* The worker stops and starts: polls and memory are lost, the tables stay.
WorkerRestarts ==
    /\ restarts < MaxRestarts
    /\ restarts' = restarts + 1
    /\ completed' = {}
    /\ attempted' = [o \in Occurrences |-> NULL]
    /\ poll' = [p \in Polls |-> NoPoll]
    /\ UNCHANGED <<time, reportTables>>

TimePasses ==
    /\ time < MaxTime
    /\ time' = time + 1
    /\ UNCHANGED <<reportTables, memory, poll, restarts>>

PollStep(p) ==
    \/ PollStarts(p) \/ PollSkips(p) \/ RunStarts(p) \/ CreateFails(p) \/ Creates(p)
    \/ Gathers(p) \/ FindsReport(p) \/ StoresReport(p) \/ StoresFailure(p)
    \/ PipelineThrows(p) \/ Completes(p) \/ CompletesFailed(p) \/ CompletionFails(p)

ReportsNext == WorkerRestarts \/ TimePasses \/ \E p \in Polls : PollStep(p)

ReportsSpec == ReportsInit /\ [][ReportsNext]_reportsVars

----------------------------------------------------------------------------
\* "A restart cannot overwrite a successful report with post-cutoff metadata drift":
\* a report of the current prompts never changes, however polls overlap, runs fail
\* after storing it, memory is cleared or the worker restarts.
ReportStands ==
    [][\A o \in Occurrences :
         report[o] # NULL /\ report[o].print = "current" => report'[o] = report[o]]_reportsVars

\* What is said to be done is done: an occurrence the scheduler no longer runs and a
\* run that succeeded have a report of the current prompts, and each such report a
\* run of its provider that tells it.
DoneMeansReported ==
    LET reported == {o \in Occurrences : report[o] # NULL /\ report[o].print = "current"}
    IN  /\ completed \subseteq reported
        /\ \A i \in DOMAIN syncRuns : syncRuns[i].status = "SUCCESS" => syncRuns[i].of \in reported
        /\ \A o \in reported :
             [of |-> o, provider |-> report[o].provider] \in aiRuns
=============================================================================
