----------------------------- MODULE AiService ------------------------------
(***************************************************************************)
(* The AI settings and classifications of the API                            *)
(* (apps/api/src/ai/ai.service.ts over packages/db/src/ai.repository.ts): a  *)
(* save reads the setting of its provider in one transaction and writes it,  *)
(* merged, with the model roles, in another; a classification reads its      *)
(* source, looks for an earlier answer of the same fingerprint, asks the     *)
(* provider, and stores the answer with its run, each in its own.            *)
(*                                                                         *)
(* The settings are those AiRouter builds its clients from.                 *)
(***************************************************************************)
EXTENDS Basics, Integers, FiniteSets

CONSTANTS
    Saves,          \* saves of the settings in progress, in several tabs
    KeyValues, Flags, ModelIds, ServiceProviders, ServiceRoles,
    MaxSaves,       \* bound on the saves
    Calls,          \* classifications of a channel in progress
    MaxSource       \* bound on the changes of the channel's data

ServiceSettings ==
    [key : KeyValues \cup {NULL}, enabled : Flags \cup {FALSE},
     models : [ServiceRoles -> ModelIds \cup {NULL}] \cup {NULL}]

SaveRecords ==
    [provider : ServiceProviders, key : KeyValues \cup {NULL}, enabled : Flags \cup {NULL},
     models : [ServiceRoles -> ModelIds \cup {NULL}] \cup {NULL}, existing : ServiceSettings \cup {NULL}]

CallRecords ==
    [phase : {"read", "asking", "answered"}, source : 0..MaxSource, answer : 0..MaxSource \cup {NULL}]

\* No flag or record is mistaken for an absent one.
ASSUME ServiceAssumption ==
    /\ MaxSource \in Nat
    /\ NULL \notin Flags \cup {FALSE}
    /\ NULL \notin ServiceSettings
    /\ NULL \notin SaveRecords
    /\ NULL \notin CallRecords

VARIABLES
    stored,         \* stored[p]: NULL or [key, enabled, models]
    role,           \* role[r]: NULL or [provider, model]
    save,           \* save[s]: NULL or [provider, key, enabled, models, existing]
    saves,          \* saves asked so far
    disturbed,      \* saves during which another one of the same provider was written
    source,         \* the version of the channel's data
    classification, \* NULL or the version it is of
    call            \* call[k]: NULL or [phase, first, source, answer]

aiVars == <<stored, role, save, saves, disturbed, source, classification, call>>

NoModels == [r \in ServiceRoles |-> NULL]

AiInit ==
    /\ stored = [p \in ServiceProviders |-> NULL]
    /\ role = [r \in ServiceRoles |-> NULL]
    /\ save = [s \in Saves |-> NULL]
    /\ saves = 0 /\ disturbed = {}
    /\ source = 0 /\ classification = NULL
    /\ call = [k \in Calls |-> NULL]

classifyVars == <<source, classification, call>>
settingVars == <<stored, role, save, saves, disturbed>>

----------------------------------------------------------------------------
\* updateSettings. A part left out of the request is NULL, and models are given by role.
AsksSave(s, p, key, enabled, models) ==
    /\ save[s] = NULL /\ saves < MaxSaves
    /\ saves' = saves + 1
    /\ save' = [save EXCEPT ![s] = [provider |-> p, key |-> key, enabled |-> enabled,
                                    models |-> models, existing |-> stored[p]]]
    /\ UNCHANGED <<stored, role, disturbed, classifyVars>>

Merged(asked, existing, absent) ==
    IF asked # NULL THEN asked ELSE IF existing # NULL THEN existing ELSE absent

ExistingField(existing, f) == IF existing = NULL THEN NULL ELSE existing[f]

\* upsertProviderSetting: models that are null leave the row's.
SettingOf(v) ==
    LET kept(f, absent) == Merged(v[f], ExistingField(v.existing, f), absent)
    IN  [key |-> kept("key", NULL), enabled |-> kept("enabled", FALSE),
         models |-> LET models == kept("models", NULL)
                    IN  IF models = NULL THEN ExistingField(stored[v.provider], "models") ELSE models]

\* upsertModelRole: one row a role, of the provider saved last with a model for it.
RolesOf(v) ==
    [r \in ServiceRoles |->
       IF v.models # NULL /\ v.models[r] # NULL
       THEN [provider |-> v.provider, model |-> v.models[r]] ELSE role[r]]

WritesSave(s) ==
    /\ save[s] # NULL
    /\ stored' = [stored EXCEPT ![save[s].provider] = SettingOf(save[s])]
    /\ role' = RolesOf(save[s])
    /\ save' = [save EXCEPT ![s] = NULL]
    /\ disturbed' = {x \in Saves \ {s} : x \in disturbed
                        \/ (save[x] # NULL /\ save[x].provider = save[s].provider)}
    /\ UNCHANGED <<saves, classifyVars>>

----------------------------------------------------------------------------
\* classifyChannel.
SourceChanges ==
    /\ source < MaxSource
    /\ source' = source + 1
    /\ UNCHANGED <<classification, call, settingVars>>

Phase(k, phase) == call' = [call EXCEPT ![k].phase = phase]

ReadsSource(k) ==
    /\ call[k] = NULL
    /\ call' = [call EXCEPT ![k] = [phase |-> "read", source |-> source, answer |-> NULL]]
    /\ UNCHANGED <<source, classification, settingVars>>

LooksCached(k) ==
    /\ call[k] # NULL /\ call[k].phase = "read"
    /\ IF classification = call[k].source
       THEN call' = [call EXCEPT ![k].phase = "answered", ![k].answer = classification]
       ELSE Phase(k, "asking")
    /\ UNCHANGED <<source, classification, settingVars>>

\* The provider answers of what it was asked; one row a channel, the last written.
Persists(k) ==
    /\ call[k] # NULL /\ call[k].phase = "asking"
    /\ classification' = call[k].source
    /\ call' = [call EXCEPT ![k].phase = "answered", ![k].answer = call[k].source]
    /\ UNCHANGED <<source, settingVars>>

\* The provider fails: the run is recorded, the classification stays.
ClassifyFails(k) ==
    /\ call[k] # NULL /\ call[k].phase = "asking"
    /\ Phase(k, "answered")
    /\ UNCHANGED <<source, classification, settingVars>>

EndsCall(k) ==
    /\ call[k] # NULL /\ call[k].phase = "answered"
    /\ call' = [call EXCEPT ![k] = NULL]
    /\ UNCHANGED <<source, classification, settingVars>>

SettingsNext ==
    \E s \in Saves :
        \/ WritesSave(s)
        \/ \E p \in ServiceProviders, key \in KeyValues \cup {NULL}, enabled \in Flags \cup {NULL},
              models \in [ServiceRoles -> ModelIds \cup {NULL}] \cup {NULL} :
             AsksSave(s, p, key, enabled, models)

ClassifyNext ==
    \/ SourceChanges
    \/ \E k \in Calls :
         ReadsSource(k) \/ LooksCached(k) \/ Persists(k) \/ ClassifyFails(k) \/ EndsCall(k)

AiNext == SettingsNext \/ ClassifyNext

AiSpec == AiInit /\ [][AiNext]_aiVars

----------------------------------------------------------------------------
\* A save that no other save of its provider overlaps changes nothing it was not asked
\* to change, and no save touches the setting of another provider or the role of a
\* model it does not name.
SavesWhatIsAsked ==
    \A s \in Saves : save[s] # NULL /\ save'[s] = NULL =>
        /\ \A p \in ServiceProviders \ {save[s].provider} : stored'[p] = stored[p]
        /\ \A r \in ServiceRoles : role'[r] # role[r] =>
             save[s].models # NULL /\ role'[r] = [provider |-> save[s].provider, model |-> save[s].models[r]]
        /\ s \notin disturbed => \A f \in {"key", "enabled", "models"} :
             LET before == stored[save[s].provider]
             IN  before # NULL /\ save[s][f] = NULL => stored'[save[s].provider][f] = before[f]

\* A call is answered of the data as they were when it was made.
AnswersOfTheSource ==
    \A k \in Calls : call[k] # NULL => call[k].answer \in {NULL, call[k].source}

=============================================================================
