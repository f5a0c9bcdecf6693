------------------------------ MODULE AiRouter ------------------------------
(***************************************************************************)
(* Which AI provider answers a request (packages/ai: GeminiProvider,        *)
(* NvidiaProvider, AIProviderRouter; the runtimes of the worker and the API  *)
(* that build them from the stored settings and the environment). Nothing   *)
(* here keeps state: a runtime is built anew for every run and request.     *)
(***************************************************************************)
EXTENDS Basics, Integers

AiProviders == {"GEMINI", "NVIDIA"}
Roles == {"FAST", "ANALYSIS", "LONG_CONTEXT", "FALLBACK"}
Other(p) == IF p = "GEMINI" THEN "NVIDIA" ELSE "GEMINI"

\* generate: the wire's answer as a text or an error code. A key is asked for by
\* both, a model too; GEMINI looks for the model first.
Generate(p, client, wire) ==
    IF p = "GEMINI" /\ client.model = NULL THEN "AI_CONFIGURATION_INVALID"
    ELSE IF ~client.key THEN "AI_DISABLED"
    ELSE IF client.model = NULL THEN "AI_CONFIGURATION_INVALID"
    ELSE CASE wire = "unreachable" -> "AI_UNAVAILABLE"
           [] wire = "limited" -> "AI_RATE_LIMITED"
           [] wire = "refused" -> "AI_CONFIGURATION_INVALID"
           [] wire \in {"error", "malformed", "empty"} -> "AI_REQUEST_FAILED"
           [] OTHER -> wire

\* structured: a text the schema rejects is asked to be repaired, once.
Structured(p, client, wires) ==
    LET first == Generate(p, client, wires[1])
        repaired == Generate(p, client, wires[2])
    IN  IF first # "invalid" THEN first
        ELSE IF repaired # "invalid" THEN repaired
        ELSE "AI_SCHEMA_INVALID"

\* isProviderFailure.
Failures == {"AI_DISABLED", "AI_UNAVAILABLE", "AI_RATE_LIMITED", "AI_REQUEST_FAILED"}

----------------------------------------------------------------------------
\* A stored setting: [key, enabled, priority, models], models by role; the
\* environment: [key, models] of each provider.
KeyOf(setting, environment) ==
    LET stored == setting # NULL /\ setting.key
    IN  /\ stored \/ environment.key
        /\ setting # NULL => setting.enabled

PreferredRoles(p) ==
    IF p = "GEMINI" THEN <<"ANALYSIS", "FAST">>
    ELSE <<"ANALYSIS", "LONG_CONTEXT", "FAST", "FALLBACK">>

\* The environment names no FALLBACK model, and LONG_CONTEXT for NVIDIA only.
EnvironmentRoles(p) ==
    IF p = "GEMINI" THEN <<"ANALYSIS", "FAST">> ELSE <<"ANALYSIS", "LONG_CONTEXT", "FAST">>

FirstOf(models, roles) ==
    LET named == {i \in DOMAIN roles : models[roles[i]] # NULL}
    IN  IF named = {} THEN NULL
        ELSE models[roles[CHOOSE i \in named : \A j \in named : i <= j]]

ModelOf(p, setting, environment, recommended) ==
    LET stored == IF setting = NULL THEN NULL ELSE FirstOf(setting.models, PreferredRoles(p))
        fallback == FirstOf(environment.models, EnvironmentRoles(p))
    IN  IF stored # NULL THEN stored ELSE IF fallback # NULL THEN fallback ELSE recommended[p]

Clients(settings, environment, recommended) ==
    [p \in AiProviders |->
       [key |-> KeyOf(settings[p], environment[p]),
        model |-> ModelOf(p, settings[p], environment[p], recommended)]]

Configured(client) == client.key /\ client.model # NULL

Priority(settings, p) ==
    IF settings[p] = NULL THEN (IF p = "GEMINI" THEN 0 ELSE 1) ELSE settings[p].priority

\* loadWorkerAiRuntime: a configured provider first, then the lower priority.
WorkerPrimary(settings, clients) ==
    LET ahead(p) ==
          IF Configured(clients[p]) # Configured(clients[Other(p)]) THEN Configured(clients[p])
          ELSE IF Priority(settings, p) # Priority(settings, Other(p))
          THEN Priority(settings, p) < Priority(settings, Other(p))
          ELSE p = "GEMINI"
    IN  CHOOSE p \in AiProviders : ahead(p)

\* createAiRuntimeFactory: roles of the environment, overridden by the stored ones.
ApiRoles(stored, environment, clients) ==
    [r \in Roles |->
       IF stored[r] # NULL THEN stored[r]
       ELSE IF r = "FALLBACK" THEN [provider |-> "NVIDIA", model |-> clients["NVIDIA"].model]
       ELSE LET p == IF r = "LONG_CONTEXT" THEN "NVIDIA" ELSE "GEMINI"
            IN  IF environment[p].models[r] = NULL THEN NULL
                ELSE [provider |-> p, model |-> environment[p].models[r]]]

----------------------------------------------------------------------------
\* AIProviderRouter.
RoleOf(task) == IF task = "CHANNEL_CLASSIFICATION" THEN "FAST" ELSE "ANALYSIS"

\* The role's provider and model, or the primary with its own.
Selected(primary, roles, task) ==
    IF roles[RoleOf(task)] = NULL THEN [provider |-> primary, model |-> NULL]
    ELSE roles[RoleOf(task)]

\* The other provider is asked for its FALLBACK model, never for the first one's.
FallbackRequest(selected, roles) ==
    LET p == Other(selected.provider)
    IN  [provider |-> p,
         model |-> IF roles["FALLBACK"] # NULL /\ roles["FALLBACK"].provider = p
                   THEN roles["FALLBACK"].model ELSE NULL]

\* A request for a model goes to it, else to the client's own.
Ask(clients, request, wires) ==
    LET p == request.provider
        model == IF request.model # NULL THEN request.model ELSE clients[p].model
    IN  [provider |-> p, model |-> model,
         outcome |-> Structured(p, [clients[p] EXCEPT !.model = model], wires[p])]

\* Slip: a provider that is not configured has nothing to retry.
FallsBackOnRetryable(outcome) == outcome \in Failures \ {"AI_DISABLED"}

FallsBack(outcome) == outcome \in Failures

\* structured: who was asked last, for which model, and what came of it.
Route(clients, primary, roles, task, wires) ==
    LET selected == Selected(primary, roles, task)
        first == Ask(clients, selected, wires)
    IN  IF FallsBack(first.outcome)
        THEN Ask(clients, FallbackRequest(selected, roles), wires)
        ELSE first

\* A text comes of the provider it is attributed to, which is enabled, has a key and sent
\* it within two tries; when none comes, though a provider that is enabled and has a key
\* would send one at once, another one gave an answer that must not be papered over: a
\* text that is not what was asked, or a refusal.
AnswerAttributed(clients, settings, wires, answer) ==
    LET p == answer.provider
        sends(q) == wires[q][1] = "valid" \/ (wires[q][1] = "invalid" /\ wires[q][2] = "valid")
    IN  /\ answer.outcome = "valid" =>
             clients[p].key /\ sends(p) /\ (settings[p] # NULL => settings[p].enabled)
        /\ answer.outcome # "valid" /\ (\E q \in AiProviders : clients[q].key /\ wires[q][1] = "valid") =>
             answer.outcome \in {"AI_SCHEMA_INVALID", "AI_CONFIGURATION_INVALID"}
        /\ answer.outcome \in {"AI_SCHEMA_INVALID", "AI_CONFIGURATION_INVALID"} =>
             clients[p].key /\ wires[p][1] # "valid"
=============================================================================
