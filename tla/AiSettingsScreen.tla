-------------------------- MODULE AiSettingsScreen --------------------------
(***************************************************************************)
(* The settings of the AI providers                                         *)
(* (apps/web/src/components/ai-settings-screen.tsx): a tab for each provider; *)
(* opening one reads the status of the providers and the models of that one, *)
(* a button reads the models again, and a save sends the model chosen, the   *)
(* flag and the key typed for the provider of the tab (AiService saves it).  *)
(*                                                                         *)
(* The tabs are never disabled. What opening a tab reads is ignored once      *)
(* another is open; what the button reads is not.                           *)
(***************************************************************************)
EXTENDS Basics, Integers, FiniteSets

CONSTANTS
    TabProviders, FirstTab,
    MaxReads       \* bound on the reads made

ASSUME TabAssumption == NULL \notin Nat /\ FirstTab \in TabProviders

VARIABLES
    tab,           \* the provider whose tab is open
    opening,       \* reads of tabs opened, under way: [provider, read]
    wanted,        \* the read that is not ignored, or NULL once it has come
    rereads,       \* reads of the button, under way: [provider, read, choice]
    discovering,
    reads,         \* reads made
    modelsOf,      \* whose models are listed, or NULL
    choice,        \* the model chosen: [of, how], or NULL
    flagOf,        \* whose flag is shown, or "typed"
    keyOf,         \* whose key is typed, or NULL
    saving,        \* a save under way: [provider, choice, flag, key], or NULL
    blind,         \* the status could not be read when the tab was opened
    crossed        \* a reread brought the models or the choice of another tab into this one

aiTabVars == <<tab, opening, wanted, rereads, discovering, reads, modelsOf, choice, flagOf, keyOf,
               saving, blind, crossed>>

Model(p, how) == [of |-> p, how |-> how]

\* chooseModel: the saved model, listed or not, or else one of the list, or none yet.
Chosen(p, listed, saved) ==
    IF saved # NULL THEN {saved}
    ELSE IF listed THEN {Model(p, "listed"), NULL} ELSE {NULL}

\* The effect of a tab: what the tab before showed is gone, but its flag.
OpensTab(p) ==
    /\ reads < MaxReads
    /\ tab' = p
    /\ reads' = reads + 1
    /\ opening' = opening \cup {[provider |-> p, read |-> reads + 1]}
    /\ wanted' = reads + 1
    /\ discovering' = TRUE
    /\ modelsOf' = NULL /\ choice' = NULL /\ keyOf' = NULL
    /\ blind' = FALSE /\ crossed' = FALSE
    /\ UNCHANGED <<rereads, flagOf, saving>>

AiTabInit ==
    /\ tab = FirstTab
    /\ opening = {[provider |-> FirstTab, read |-> 1]} /\ wanted = 1
    /\ rereads = {} /\ discovering = TRUE /\ reads = 1
    /\ modelsOf = NULL /\ choice = NULL /\ keyOf = NULL
    /\ flagOf = "typed" /\ saving = NULL
    /\ blind = FALSE /\ crossed = FALSE

Active(o) == o.read = wanted

\* Both reads have settled; the saved model is told by the status.
TabArrives(o, status, models) ==
    /\ opening' = opening \ {o}
    /\ IF ~Active(o) THEN UNCHANGED <<wanted, discovering, modelsOf, choice, flagOf, blind>>
       ELSE /\ wanted' = NULL
            /\ discovering' = FALSE
            /\ flagOf' = IF status THEN o.provider ELSE flagOf
            /\ blind' = ~status
            /\ modelsOf' = IF models THEN o.provider ELSE modelsOf
            /\ \E saved \in IF status THEN {NULL, Model(o.provider, "saved")} ELSE {NULL} :
                 choice' \in Chosen(o.provider, models, saved)
    /\ UNCHANGED <<tab, rereads, reads, keyOf, saving, crossed>>

----------------------------------------------------------------------------
\* refreshModels, with the choice as it was when the button was pressed.
Rereads ==
    /\ ~discovering /\ reads < MaxReads
    /\ reads' = reads + 1
    /\ discovering' = TRUE
    /\ rereads' = rereads \cup {[provider |-> tab, read |-> reads + 1, choice |-> choice]}
    /\ UNCHANGED <<tab, opening, wanted, modelsOf, choice, flagOf, keyOf, saving, blind, crossed>>

RereadArrives(r, models) ==
    /\ rereads' = rereads \ {r}
    /\ discovering' = FALSE
    /\ IF models
       THEN /\ modelsOf' = r.provider
            /\ choice' \in Chosen(r.provider, TRUE, r.choice)
            /\ crossed' = (crossed \/ r.provider # tab \/ (r.choice # NULL /\ r.choice.of # tab))
       ELSE UNCHANGED <<modelsOf, choice, crossed>>
    /\ UNCHANGED <<tab, opening, wanted, reads, flagOf, keyOf, saving, blind>>

ChoosesModel ==
    /\ \/ modelsOf # NULL /\ choice' = Model(modelsOf, "listed")
       \/ choice' = Model(tab, "typed")
    /\ UNCHANGED <<tab, opening, wanted, rereads, discovering, reads, modelsOf, flagOf, keyOf,
                   saving, blind, crossed>>

TypesFlagOrKey ==
    /\ \/ flagOf' = "typed" /\ UNCHANGED keyOf
       \/ keyOf' = tab /\ UNCHANGED flagOf
    /\ UNCHANGED <<tab, opening, wanted, rereads, discovering, reads, modelsOf, choice, saving, blind,
                   crossed>>

\* The button is disabled while the tab is opening; a model must be chosen.
SavesTab ==
    /\ saving = NULL /\ wanted = NULL /\ choice # NULL
    /\ saving' = [provider |-> tab, choice |-> choice, flag |-> flagOf, key |-> keyOf]
    /\ UNCHANGED <<tab, opening, wanted, rereads, discovering, reads, modelsOf, choice, flagOf, keyOf,
                   blind, crossed>>

SaveArrives ==
    /\ saving # NULL
    /\ saving' = NULL
    /\ keyOf' \in {NULL, keyOf}
    /\ UNCHANGED <<tab, opening, wanted, rereads, discovering, reads, modelsOf, choice, flagOf, blind,
                   crossed>>

AiTabNext ==
    \/ \E p \in TabProviders \ {tab} : OpensTab(p)
    \/ \E o \in opening, status, models \in BOOLEAN : TabArrives(o, status, models)
    \/ \E r \in rereads, models \in BOOLEAN : RereadArrives(r, models)
    \/ Rereads \/ ChoosesModel \/ TypesFlagOrKey \/ SavesTab \/ SaveArrives

AiTabSpec == AiTabInit /\ [][AiTabNext]_aiTabVars

----------------------------------------------------------------------------
\* What can be saved for a provider is its own: the models listed and the model chosen,
\* unless a reread brought those of another tab, the flag, unless the status could not be
\* read, and the key.
OffersItsOwn ==
    wanted = NULL =>
        /\ ~crossed => modelsOf \in {NULL, tab} /\ (choice = NULL \/ choice.of = tab)
        /\ ~blind => flagOf \in {tab, "typed"}
        /\ keyOf \in {NULL, tab}
=============================================================================
