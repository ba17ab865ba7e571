------------------------------ MODULE Settings ------------------------------
(***************************************************************************)
(* How WORKFLOW.md becomes the daemon's ServiceConfig, and which text of   *)
(* it a start, a reload and --check accept.  What it shares with BRIDGE.md *)
(* (BridgeSettings) comes first.                                           *)
(*                                                                         *)
(* The front matter of a file is a function from dotted keys to values: a  *)
(* key that is absent, or holds a value of another type, is outside its    *)
(* domain, since every accessor of the code treats the two alike.  A value *)
(* "$NAME" names an environment variable.                                  *)
(***************************************************************************)
EXTENDS Naturals, Sequences, FiniteSets

CONSTANTS
    Env,           \* the variables set to a non-empty value: "$NAME" -> value
    Variables,     \* every value that starts with "$"
    LowerCase,     \* the names with capitals: name -> the name in lower case
    BadTemplates,  \* prompt bodies that do not compile, whatever they are rendered for
    Renders(_, _, _), \* whether a body that compiles renders for an issue and an attempt
    Stub,          \* the issue --check renders for: no labels, blockers or children
    BadUrls,       \* values that are not a URL
    BadPatterns,   \* values that are not a regular expression
    BadKeys,       \* private keys that are unreadable, or no RSA key
    BadRoots,      \* workspace roots that cannot be created
    CloudSites,    \* Jira endpoints under .atlassian.net
    Word16, Word32 \* 2^16 and 2^32, the ranges the code casts to

ASSUME SettingsWidths == Word16 \in Nat \ {0} /\ Word32 \in Nat \ {0}
ASSUME SettingsEnvironment == DOMAIN Env \subseteq Variables

None  == "none"   \* Option::None
Ok    == "ok"
Blank == {"", " "}

FirstError(errors) ==
    IF \A i \in DOMAIN errors : errors[i] = Ok THEN Ok
    ELSE errors[CHOOSE i \in DOMAIN errors :
                   errors[i] # Ok /\ \A j \in DOMAIN errors : j < i => errors[j] = Ok]

Unless(holds, error) == IF holds THEN Ok ELSE error

Value(c, key, default) == IF key \in DOMAIN c THEN c[key] ELSE default

Either(c, first, second, default) == Value(c, first, Value(c, second, default))

Lower(name) == IF name \in DOMAIN LowerCase THEN LowerCase[name] ELSE name

Var(name) == IF name \in DOMAIN Env THEN Env[name] ELSE None

Resolve(s) ==
    IF s \in Variables THEN Var(s) ELSE IF s = "" THEN None ELSE s

\* The function f: the comparison has TLC compute it once, as a table.
Evaluated(f) == CHOOSE g \in {f} : g = f

Optional(c, key) == {c[k] : k \in {key} \cap DOMAIN c}   \* empty for None

Resolved(c, key) == IF key \in DOMAIN c THEN Resolve(c[key]) ELSE None

-----------------------------------------------------------------------------
(* Trackers and providers, shared by the two programs.                     *)

Kinds == {"linear", "jira"}

DefaultEndpoint(kind) == IF kind = "linear" THEN "api.linear.app" ELSE ""

KindError(c) ==
    Unless("tracker.kind" \in DOMAIN c /\ Lower(Value(c, "tracker.kind", "")) \in Kinds, "kind")

NewLinear(t) ==
    FirstError(<<Unless(t.api_key # None, "key"), Unless(t.project_slug # None, "slug")>>)

NewJira(t) ==
    FirstError(<<Unless(t.api_key # None, "key"), Unless(t.project_slug # None, "slug"),
                 Unless(t.endpoint # "" /\ t.endpoint \notin BadUrls, "endpoint")>>)

BuildTracker(t) == IF t.kind = "linear" THEN NewLinear(t) ELSE NewJira(t)

Providers == {"openai", "anthropic", "google", "ollama", "claude_code", "codex", "opencode",
              "codex_app_server"}

Provider(s) ==
    CASE Lower(s) \in {"claude_code", "claude-code", "claudecode", "claude"} -> "claude_code"
      [] Lower(s) \in {"codex", "codex_cli", "codex-cli"}                   -> "codex"
      [] Lower(s) \in {"codex_app_server", "codex-app-server"}              -> "codex_app_server"
      [] Lower(s) \in {"google", "gemini"}                                  -> "google"
      [] Lower(s) \in {"ollama", "local"}                                   -> "ollama"
      [] OTHER                                                               -> Lower(s)

ProviderError(s) == Unless(Provider(s) \in Providers, "config")

IsCli(provider)  == provider \in {"claude_code", "codex", "opencode"}

DefaultCommand(provider) ==
    CASE provider = "claude_code"      -> "claude -p"
      [] provider = "codex"            -> "codex exec"
      [] provider = "opencode"         -> "opencode run"
      [] provider = "codex_app_server" -> "codex app-server"
      [] OTHER                         -> ""

DefaultModel(provider) ==
    CASE provider = "openai"                        -> "gpt-4o-mini"
      [] provider \in {"anthropic", "claude_code"} -> "claude-sonnet-4-6"
      [] provider = "google"                        -> "gemini-1.5-pro"
      [] provider = "ollama"                        -> "llama3.1"
      [] OTHER                                      -> ""

DefaultLlmKey(provider) ==
    CASE provider = "openai"    -> Var("$OPENAI_API_KEY")
      [] provider = "anthropic" -> Var("$ANTHROPIC_API_KEY")
      [] provider = "google"    -> Var("$GOOGLE_API_KEY")
      [] OTHER                  -> None

-----------------------------------------------------------------------------
(* WORKFLOW.md.  A text is [front, config, body]: what its front matter    *)
(* is, the mapping in it, and the text after it.                           *)

Empty == <<>>   \* the empty mapping

ReadWorkflow(text) ==
    CASE text.front = "missing"                  -> [error |-> "file"]
      [] text.front = "malformed"                -> [error |-> "yaml"]
      [] text.front \in {"list", "scalar"}       -> [error |-> "not_map"]
      [] text.front \in {"none", "unclosed", "null"} ->
            [error |-> Ok, config |-> Empty, prompt |-> text.body]
      [] OTHER -> [error |-> Ok, config |-> text.config, prompt |-> text.body]

ServiceTracker(c) ==
    LET kind == Lower(c["tracker.kind"]) IN
    [kind            |-> kind,
     endpoint        |-> Value(c, "tracker.endpoint", DefaultEndpoint(kind)),
     api_key         |-> IF "tracker.api_key" \in DOMAIN c THEN Resolve(c["tracker.api_key"])
                         ELSE Var(IF kind = "linear" THEN "$LINEAR_API_KEY" ELSE "$JIRA_API_TOKEN"),
     project_slug    |-> Value(c, "tracker.project_slug", None),
     active_states   |-> Value(c, "tracker.active_states", {"todo", "in progress"}),
     terminal_states |-> Value(c, "tracker.terminal_states",
                               {"closed", "cancelled", "canceled", "duplicate", "done"}),
     jira_email      |-> Value(c, "tracker.email", Var("$JIRA_EMAIL"))]

Polling(c) == [interval_ms |-> Value(c, "polling.interval_ms", 30000)]

Cleanup(c) ==
    [sweep_interval_secs |-> Value(c, "workspace.cleanup.sweep_interval_secs", 600),
     max_age_hours       |-> Value(c, "workspace.cleanup.max_age_hours", 0)]

\* "$NAME" and "$NAME/..." are expanded; an unset variable is left as it is.
WorkspaceRoot(c) ==
    LET raw == Value(c, "workspace.root", "tmp")
    IN  IF raw \in DOMAIN Env THEN Env[raw] ELSE raw

Hooks(c) ==
    [after_create  |-> Value(c, "hooks.after_create", None),
     before_run    |-> Value(c, "hooks.before_run", None),
     after_run     |-> Value(c, "hooks.after_run", None),
     before_remove |-> Value(c, "hooks.before_remove", None),
     timeout_ms    |-> Value(c, "hooks.timeout_ms", 60000)]

HooksError(c) == Unless(Hooks(c).timeout_ms # 0, "config")

\* The caps of states are filtered before they are narrowed to 32 bits.
StateCaps(c) ==
    LET caps == Value(c, "agent.max_concurrent_agents_by_state", Empty)
        kept == {name \in DOMAIN caps : caps[name] > 0}
    IN  [state \in {Lower(name) : name \in kept} |->
            caps[CHOOSE name \in kept : Lower(name) = state] % Word32]

EnvPolicy(c) ==
    [mode        |-> IF Lower(Value(c, "agent.env_policy.mode", "inherit")) = "scrubbed"
                     THEN "scrubbed" ELSE "inherit",
     passthrough |-> Value(c, "agent.env_policy.passthrough", {})
                     \cup Value(c, "agent.env_policy.forward", {})]

Agent(c) ==
    [max_concurrent_agents |-> Value(c, "agent.max_concurrent_agents", 10) % Word32,
     max_turns             |-> Value(c, "agent.max_turns", 20) % Word32,
     max_retry_backoff_ms  |-> Value(c, "agent.max_retry_backoff_ms", 300000),
     max_concurrent_agents_by_state |-> StateCaps(c),
     env_policy            |-> EnvPolicy(c)]

AgentError(c) == Unless(Agent(c).max_turns # 0, "config")

RequireLabels(c) == Value(c, "agent.dispatch_allowlist.require_labels", {})

LlmProvider(c) == Either(c, "agent.provider", "codex.provider", "anthropic")

LlmError(c) == ProviderError(LlmProvider(c))

Llm(c) ==
    LET provider == Provider(LlmProvider(c)) IN
    [provider    |-> provider,
     model       |-> Either(c, "agent.model", "codex.model", DefaultModel(provider)),
     endpoint    |-> Resolve(Either(c, "agent.endpoint", "codex.endpoint", "")),
     api_key     |-> IF {"agent.api_key", "codex.api_key"} \cap DOMAIN c # {}
                     THEN Resolve(Either(c, "agent.api_key", "codex.api_key", ""))
                     ELSE DefaultLlmKey(provider),
     command     |-> Either(c, "agent.command", "codex.command", DefaultCommand(provider)),
     turn_timeout_ms  |-> Either(c, "codex.turn_timeout_ms", "agent.turn_timeout_ms", 3600000),
     read_timeout_ms  |-> Either(c, "codex.read_timeout_ms", "agent.read_timeout_ms", 5000),
     stall_timeout_ms |-> Either(c, "codex.stall_timeout_ms", "agent.stall_timeout_ms", 300000)]

ServiceServer(c) ==
    [port |-> {p % Word16 : p \in Optional(c, "server.port")},
     bind |-> Value(c, "server.bind", "127.0.0.1")]

Tenant(c) ==
    LET named == Resolved(c, "telemetry.tenant_id")
    IN  IF named \notin Blank \cup {None} THEN named
        ELSE IF Var("$SINFONIA_TENANT_ID") # None THEN Var("$SINFONIA_TENANT_ID") ELSE "default"

Telemetry(c) ==
    [otlp_endpoint |-> Resolved(c, "telemetry.otlp_endpoint"),
     service_name  |-> Value(c, "telemetry.service_name", "sinfonia"),
     tenant_id     |-> Tenant(c),
     headers       |-> {h \in Value(c, "telemetry.headers", {}) : Resolve(h) # None},
     sinfonia_events_secret |-> Resolved(c, "telemetry.sinfonia_events_secret")]

\* Each entry of "states" is [object, keys]: whether it is a mapping, and its keys.
\* No two names of a file differ only in case.
StatesError(c) ==
    LET entries == Value(c, "states", Empty) IN
    Unless(\A name \in DOMAIN entries :
               entries[name].object /\ \A p \in Optional(entries[name].keys, "provider") :
                                            ProviderError(p) = Ok, "config")

StateOverride(keys) ==
    [provider |-> IF "provider" \in DOMAIN keys THEN Provider(keys["provider"]) ELSE None,
     model    |-> Value(keys, "model", None),
     endpoint |-> Resolved(keys, "endpoint"),
     api_key  |-> Resolved(keys, "api_key"),
     command  |-> Value(keys, "command", None),
     turn_timeout_ms |-> Optional(keys, "turn_timeout_ms"),
     prompt_template |-> Either(keys, "prompt", "prompt_template", None)]

States(c) ==
    LET entries == Value(c, "states", Empty)
    IN  [state \in {Lower(name) : name \in DOMAIN entries} |->
            StateOverride(entries[CHOOSE name \in DOMAIN entries : Lower(name) = state].keys)]

FromWorkflowError(c) ==
    FirstError(<<KindError(c), HooksError(c), AgentError(c), LlmError(c), StatesError(c)>>)

FromWorkflow(c) ==
    [tracker |-> ServiceTracker(c), polling |-> Polling(c),
     workspace |-> [root |-> WorkspaceRoot(c), cleanup |-> Cleanup(c)],
     hooks |-> Hooks(c), agent |-> Agent(c), require_labels |-> RequireLabels(c),
     llm |-> Llm(c), server |-> ServiceServer(c), telemetry |-> Telemetry(c),
     states |-> States(c)]

\* A new provider brings its command and key; model and endpoint stay.
Switched(llm, provider) ==
    [llm EXCEPT !.provider = provider,
                !.command  = IF DefaultCommand(provider) = "" THEN @ ELSE DefaultCommand(provider),
                !.api_key  = IF @ = None THEN DefaultLlmKey(provider) ELSE @]

EffectiveLlm(cfg, state) ==
    IF Lower(state) \notin DOMAIN cfg.states THEN cfg.llm
    ELSE LET o    == cfg.states[Lower(state)]
             base == IF o.provider \notin {None, cfg.llm.provider}
                     THEN Switched(cfg.llm, o.provider) ELSE cfg.llm
             Over(own, given) == IF own = None THEN given ELSE own
         IN  [base EXCEPT !.model    = Over(o.model, @),   !.endpoint = Over(o.endpoint, @),
                          !.api_key  = Over(o.api_key, @), !.command  = Over(o.command, @),
                          !.turn_timeout_ms = IF o.turn_timeout_ms = {} THEN @
                                             ELSE CHOOSE t \in o.turn_timeout_ms : TRUE]

EffectivePrompt(cfg, state, body) ==
    IF Lower(state) \in DOMAIN cfg.states /\ cfg.states[Lower(state)].prompt_template # None
    THEN cfg.states[Lower(state)].prompt_template ELSE body

ValidateForDispatch(cfg) ==
    FirstError(<<
        Unless(cfg.tracker.api_key \notin {None, ""}, "key"),
        Unless(cfg.tracker.project_slug \notin {None, ""}, "slug"),
        Unless(~((IsCli(cfg.llm.provider) \/ cfg.llm.provider = "codex_app_server")
                 /\ cfg.llm.command \in Blank), "config"),
        Unless(\A state \in cfg.tracker.active_states :
                  LET llm == EffectiveLlm(cfg, state)
                  IN  ~(IsCli(llm.provider) /\ llm.command \in Blank), "config")>>)

\* Everything reading and validating a workflow can report, in order.
LoadError(text) ==
    LET read == ReadWorkflow(text) IN
    IF read.error # Ok THEN read.error
    ELSE IF FromWorkflowError(read.config) # Ok THEN FromWorkflowError(read.config)
    ELSE ValidateForDispatch(FromWorkflow(read.config))

Service(text) == FromWorkflow(ReadWorkflow(text).config)

\* What rendering a prompt reports; no attempt number (0) is nil in the template.
PromptError(body, issue, attempt) ==
    FirstError(<<Unless(body \notin BadTemplates, "parse"),
                 Unless(Renders(body, issue, attempt), "render")>>)

\* Mutant: --check renders the body and not the prompts of the states.
RenderErrorOfBody(text) == Unless(PromptError(text.body, Stub, 1) = Ok, "template")

\* --check renders every prompt for the stub, as a first retry.
RenderError(text) ==
    LET overrides == Service(text).states
        prompts   == {overrides[state].prompt_template : state \in DOMAIN overrides} \ {None}
    IN  Unless(\A body \in prompts \cup {text.body} : PromptError(body, Stub, 1) = Ok, "template")

Classify(error) ==
    CASE error = Ok                    -> 0
      [] error \in {"yaml", "not_map"} -> 2
      [] error = "template"            -> 4
      [] error = "key"                 -> 5
      [] OTHER                         -> 3   \* config, slug, kind, file

\* Mutant: --check parses the file without validating it for dispatch.
CheckParsed(text) ==
    LET read == ReadWorkflow(text) IN
    Classify(IF read.error # Ok THEN read.error ELSE FromWorkflowError(read.config))

CheckWorkflow(text) ==
    Classify(IF LoadError(text) # Ok THEN LoadError(text) ELSE RenderError(text))

\* What a reload builds before it swaps anything in.
ReloadError(text) ==
    IF LoadError(text) # Ok THEN LoadError(text)
    ELSE FirstError(<<BuildTracker(Service(text).tracker),
                      Unless(Service(text).workspace.root \notin BadRoots, "workspace")>>)

\* At start the address of the HTTP server is parsed too, when --port or the
\* file gives a port.
StartError(text, portFlag) ==
    IF ReloadError(text) # Ok THEN ReloadError(text)
    ELSE Unless((portFlag \/ Service(text).server.port # {})
                    => Service(text).server.bind \notin BadUrls, "bind")
=============================================================================
