-------------------------- MODULE DashboardScreen ---------------------------
(***************************************************************************)
(* The dashboard of the web client                                          *)
(* (apps/web/src/components/dashboard-screen.tsx): the user selects a group   *)
(* and a channel, each selection starts an effect of its own that loads a    *)
(* batch of requests at once and then again at every timer, and the answers  *)
(* are applied together when the last of the batch has come.                *)
(*                                                                         *)
(* A selection, and the end of the session, abort the effect, but a batch    *)
(* that is under way may still come: batches answer in any order.  React      *)
(* runs the effect of a new selection before the user sees it.              *)
(***************************************************************************)
EXTENDS Basics, Integers, FiniteSets

CONSTANTS
    ScreenGroups, ScreenChannels,
    Panels,        \* the requests of a batch but that of the options
    MaxBatches     \* bound on the batches asked

ScreenScopes == [group : ScreenGroups \cup {NULL}, channel : ScreenChannels \cup {NULL}]

\* No record is mistaken for an absent one.
ASSUME ScreenAssumption ==
    /\ MaxBatches \in Nat \ {0}
    /\ NULL \notin [scope : ScreenScopes, batch : 1..MaxBatches]

VARIABLES
    session,       \* the user is authenticated, and the screen mounted
    scope,         \* [group, channel], NULL for all
    batches,       \* in flight: [scope, effect, number, first]
    asked,         \* batches asked so far
    effect,        \* the number of the first batch of the current effect
    options,       \* NULL, or whose channels can be selected, if any
    shown,         \* shown[p]: NULL, or [scope, batch] its data are of
    failed,        \* failed[p]: the last request of p failed
    error,         \* a message says that a request failed
    loading,
    applied,       \* the latest batch of the effect whose answers were applied
    groupsList     \* "loading", "shown" or "failed"

screenVars == <<session, scope, batches, asked, effect, options, shown, failed, error, loading,
                applied, groupsList>>

Everything == [group |-> NULL, channel |-> NULL]

\* An effect starts: nothing is shown any more, and its first batch is asked.
Starts(s, rest) ==
    /\ scope' = s
    /\ effect' = asked + 1
    /\ asked' = asked + 1
    /\ batches' = rest \cup {[scope |-> s, effect |-> asked + 1, number |-> asked + 1, first |-> TRUE]}
    /\ shown' = [p \in Panels |-> NULL]
    /\ failed' = [p \in Panels |-> FALSE]
    /\ error' = FALSE
    /\ loading' = TRUE
    /\ applied' = NULL

ScreenInit ==
    /\ session = TRUE
    /\ scope = Everything
    /\ batches = {[scope |-> Everything, effect |-> 1, number |-> 1, first |-> TRUE]}
    /\ asked = 1 /\ effect = 1
    /\ options = NULL
    /\ shown = [p \in Panels |-> NULL]
    /\ failed = [p \in Panels |-> FALSE]
    /\ error = FALSE
    /\ loading = TRUE
    /\ applied = NULL
    /\ groupsList = "loading"

\* The group select is disabled while its list is not shown.
SelectsGroup(g) ==
    /\ session /\ groupsList = "shown" /\ g # scope.group
    /\ asked < MaxBatches
    /\ Starts([group |-> g, channel |-> NULL], batches)
    /\ options' = NULL
    /\ UNCHANGED <<session, groupsList>>

SelectsChannel(c) ==
    /\ session /\ ~loading /\ options # NULL /\ c # scope.channel
    /\ options.empty => c = NULL
    /\ asked < MaxBatches
    /\ Starts([scope EXCEPT !.channel = c], batches)
    /\ UNCHANGED <<session, options, groupsList>>

InFlight == {b \in batches : b.effect = effect}

\* Every minute, and every ten seconds of a bounded warm-up: one batch at a time.
TimerFires ==
    /\ session /\ InFlight = {}
    /\ asked < MaxBatches
    /\ asked' = asked + 1
    /\ batches' = batches \cup {[scope |-> scope, effect |-> effect, number |-> asked + 1, first |-> FALSE]}
    /\ UNCHANGED <<session, scope, effect, options, shown, failed, error, loading, applied, groupsList>>

\* The session is over: the screen is unmounted, and mounted anew when it is back.
LeavesScreen ==
    /\ session' = FALSE
    /\ effect' = 0
    /\ scope' = Everything
    /\ options' = NULL
    /\ shown' = [p \in Panels |-> NULL]
    /\ failed' = [p \in Panels |-> FALSE]
    /\ error' = FALSE
    /\ loading' = TRUE
    /\ applied' = NULL
    /\ groupsList' = "loading"
    /\ UNCHANGED asked

SignsOut == session /\ LeavesScreen /\ UNCHANGED batches

ComesBack ==
    /\ ~session /\ asked < MaxBatches
    /\ session' = TRUE
    /\ Starts(Everything, batches)
    /\ UNCHANGED <<options, groupsList>>

GroupsArrive(outcome) ==
    /\ session /\ groupsList = "loading"
    /\ groupsList' = outcome
    /\ UNCHANGED <<session, scope, batches, asked, effect, options, shown, failed, error, loading, applied>>

----------------------------------------------------------------------------
\* The answers of a batch: each panel "data" or "failed", with 401 and 404 told apart,
\* and the options, which have the selected channel or not.
Outcomes == {"data", "failed", "not_found", "unauthenticated"}

\* Slip: an answer is applied whatever the selection has become.
NeverTooLate(b) == session

\* controller.signal.aborted, and the generation.
StillWanted(b) == session /\ b.effect = effect

FailuresOf(b, result) == [p \in Panels |-> result[p] # "data"]

\* The data of a failed request are dropped in the first batch and kept in the others.
Applies(b, result, opts) ==
    /\ options' = IF opts = "data" THEN [group |-> b.scope.group, empty |-> FALSE] ELSE options
    /\ shown' = [p \in Panels |->
                   IF result[p] = "data" THEN [scope |-> b.scope, batch |-> b.number]
                   ELSE IF b.first THEN NULL ELSE shown[p]]
    /\ failed' = FailuresOf(b, result)
    /\ error' = (opts # "data" \/ \E p \in Panels : result[p] # "data")
    /\ loading' = FALSE
    /\ applied' = b.number
    /\ batches' = batches \ {b}
    /\ UNCHANGED <<session, scope, asked, effect, groupsList>>

\* The scope is gone: the channel is let go when the server says that it is not found,
\* which it says of a group too, or else the group with it; the groups are listed again.
Retreats(b) ==
    /\ asked < MaxBatches
    /\ \/ Starts(Everything, batches \ {b})
       \/ b.scope.channel # NULL /\ Starts([scope EXCEPT !.channel = NULL], batches \ {b})
    /\ options' = [group |-> NULL, empty |-> TRUE]
    /\ groupsList' = "loading"
    /\ UNCHANGED session

\* The options came without the selected channel.
LetsGoOfChannel(b) ==
    /\ asked < MaxBatches
    /\ Starts([scope EXCEPT !.channel = NULL], batches \ {b})
    /\ UNCHANGED <<session, options, groupsList>>

ComesTooLate(b) ==
    /\ ~StillWanted(b)
    /\ batches' = batches \ {b}
    /\ UNCHANGED <<session, scope, asked, effect, options, shown, failed, error, loading, applied,
                   groupsList>>

BatchArrives(b, result, opts, hasChannel) ==
    LET answers == {result[p] : p \in Panels} \cup {opts}
        lacks == b.scope.channel # NULL /\ opts = "data" /\ ~hasChannel
        lost == "unauthenticated" \in answers
        gone == b.scope # Everything /\ "not_found" \in answers
    IN  /\ StillWanted(b)
        /\ \/ lacks /\ LetsGoOfChannel(b)
           \/ ~lacks /\ lost /\ LeavesScreen /\ batches' = batches \ {b}
           \/ ~lacks /\ ~lost /\ gone /\ Retreats(b)
           \/ ~lacks /\ ~lost /\ ~gone /\ Applies(b, result, opts)

ScreenNext ==
    \/ \E g \in ScreenGroups \cup {NULL} : SelectsGroup(g)
    \/ \E c \in ScreenChannels \cup {NULL} : SelectsChannel(c)
    \/ TimerFires \/ SignsOut \/ ComesBack
    \/ \E outcome \in {"shown", "failed"} : GroupsArrive(outcome)
    \/ \E b \in batches :
         \/ ComesTooLate(b)
         \/ \E result \in [Panels -> Outcomes], opts \in Outcomes, has \in BOOLEAN :
              BatchArrives(b, result, opts, has)

ScreenSpec == ScreenInit /\ [][ScreenNext]_screenVars

----------------------------------------------------------------------------
\* What the dashboard shows is of the selection: a panel's data are of the latest batch
\* or marked as failed, a panel without data is loading or marked as failed, and so are
\* the channels that can be selected, for which the message of the batch stands.
ShowsTheSelection ==
    /\ \A p \in Panels :
         /\ shown[p] # NULL => shown[p].scope = scope /\ (shown[p].batch = applied \/ failed[p])
         /\ shown[p] = NULL => loading \/ failed[p]
    /\ ~loading => error \/ options = [group |-> scope.group, empty |-> FALSE]
=============================================================================
