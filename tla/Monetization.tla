---------------------------- MODULE Monetization ----------------------------
(***************************************************************************)
(* The monetization settings of the channels                                 *)
(* (ChannelsService.updateMonetization,                                      *)
(* packages/db/src/channel-monetization.repository.ts): one per channel and  *)
(* day of effect, of which the dashboard's revenue (Dashboard) takes, for    *)
(* each day, the latest that had taken effect.                               *)
(*                                                                         *)
(* An update takes the day before its transaction opens, so that midnight    *)
(* and the archiving of the channel may come between.                        *)
(***************************************************************************)
EXTENDS Dashboard

CONSTANTS
    PaidChannels, Rpms,
    LastDay,       \* bound on the days
    MaxUpdates     \* bound on the updates asked

VARIABLES
    day,        \* the day it is, from 0
    setting,    \* setting[c][e]: that of c effective from e, or NULL
    closed,     \* the channels archived
    update,     \* the update in progress, or answered
    updates     \* updates asked so far

moneyVars == <<day, setting, closed, update, updates>>

Days == 0..LastDay

MoneySettings == [from : Days, monetized : BOOLEAN, rpm : Rpms \cup {NULL}]
MoneyUpdates == [channel : PaidChannels, from : Days, today : Days, answer : MoneySettings \cup {NULL},
                 value : MoneySettings]

\* No record is mistaken for an absent one.
ASSUME MoneyAssumption ==
    /\ LastDay \in Nat
    /\ NULL \notin MoneySettings
    /\ NULL \notin MoneyUpdates

MoneyInit ==
    /\ day = 0
    /\ setting = [c \in PaidChannels |-> [e \in Days |-> NULL]]
    /\ closed = {}
    /\ update = NULL
    /\ updates = 0

\* What the dashboard computes from, of channels that gain the same every day.
MoneyTables ==
    [shown |-> PaidChannels, today |-> day, setting |-> setting,
     row |-> [c \in PaidChannels |-> [d \in Days |-> [count |-> NULL, delta |-> RpmUnit]]]]

MidnightPasses ==
    /\ day < LastDay
    /\ day' = day + 1
    /\ UNCHANGED <<setting, closed, update, updates>>

ClosesChannel(c) ==
    /\ closed' = closed \cup {c}
    /\ UNCHANGED <<day, setting, update, updates>>

\* A date to come, or a rate without monetization or the other way round, is refused.
AsksUpdate(c, e, rpm) ==
    /\ update = NULL /\ updates < MaxUpdates
    /\ e <= day
    /\ update' = [channel |-> c, from |-> e, today |-> day, answer |-> NULL,
                  value |-> [from |-> e, monetized |-> rpm # NULL, rpm |-> rpm]]
    /\ updates' = updates + 1
    /\ UNCHANGED <<day, setting, closed>>

\* Slip: the latest setting is changed, whatever the date given.
ChangesTheLatest(rows, e, value) ==
    LET there == {d \in DOMAIN rows : rows[d] # NULL}
    IN  [rows EXCEPT ![IF there = {} THEN e ELSE Max(there)] = value]

\* upsert, by channel and date.
Upserted(rows, e, value) == [rows EXCEPT ![e] = value]

\* The answer is the setting of the day the update was asked.
CommitsUpdate ==
    /\ update # NULL /\ update.answer = NULL
    /\ update.channel \notin closed
    /\ LET written == [setting EXCEPT ![update.channel] = Upserted(@, update.from, update.value)]
           latest == EffectiveSetting([setting |-> written], update.channel, update.today)
       IN  /\ setting' = written
           /\ update' = [update EXCEPT !.answer =
                           IF update.from < update.today THEN latest ELSE update.value]
    /\ UNCHANGED <<day, closed, updates>>

\* Answered, or refused for its channel, which is not there any more.
EndsUpdate ==
    /\ update # NULL
    /\ update.answer # NULL \/ update.channel \in closed
    /\ update' = NULL
    /\ UNCHANGED <<day, setting, closed, updates>>

MoneyNext ==
    \/ MidnightPasses \/ CommitsUpdate \/ EndsUpdate
    \/ \E c \in PaidChannels :
         ClosesChannel(c) \/ \E e \in Days, rpm \in Rpms \cup {NULL} : AsksUpdate(c, e, rpm)

MoneySpec == MoneyInit /\ [][MoneyNext]_moneyVars

----------------------------------------------------------------------------
\* The estimated revenue of a past day changes only by an update of its channel that
\* takes effect by then and that no later setting has replaced by then; and an update
\* answers the setting that holds on the day it was asked.
RevenueStands ==
    setting' # setting =>
        \A c \in PaidChannels, d \in Days :
            RevenueOn(MoneyTables', c, d) # RevenueOn(MoneyTables, c, d) =>
                /\ update # NULL /\ update.channel = c /\ update.from <= d
                /\ \A e \in update.from + 1..d : setting[c][e] = NULL

AnswersTheDay ==
    update' # NULL /\ update'.answer # NULL /\ update # update' =>
        update'.answer = SettingOn(MoneyTables', update.channel, update.today)

HistoryStands == RevenueStands /\ AnswersTheDay
=============================================================================
