---------------------------- MODULE MCDeployment -----------------------------
(* Instances of Deployment for TLC. *)
EXTENDS Deployment, TLC

MCEnv == [x \in {"$KEY"} |-> "key"]
MCLowerCase == [x \in {"Todo"} |-> "todo"] @@ [x \in {"Linear"} |-> "linear"]

WorkflowOf(config, body) == [front |-> "map", config |-> config, body |-> body]
Plain ==
    "tracker.kind" :> "Linear" @@ "tracker.api_key" :> "$KEY" @@ "tracker.project_slug" :> "proj"
    @@ "tracker.active_states" :> {"Todo", "Doing"} @@ "server.port" :> 4000
    @@ "telemetry.sinfonia_events_secret" :> "s1"
NoServer == [k \in DOMAIN Plain \ {"server.port"} |-> Plain[k]]
With(config, key, value) == (key :> value) @@ config

\* "Todo" goes to the codex CLI, and keeps the model of the default provider.
TodoOverride == [name \in {"Todo"} |-> [object |-> TRUE, keys |-> "provider" :> "codex-cli" @@ "prompt" :> "todo"]]
BadOverride  == [name \in {"Todo"} |-> [object |-> TRUE, keys |-> "prompt" :> "{{"]]
RetryOverride == [name \in {"Todo"} |-> [object |-> TRUE, keys |-> "prompt" :> "attempt plus 1"]]

\* "{{" does not compile; the others fail for an issue with children, as B has,
\* or without an attempt number.
MCRenders(body, issue, attempt) ==
    /\ body = "each child" => issue # "B"
    /\ body = "attempt plus 1" => attempt # 0

MCFiles ==
    "plain"    :> WorkflowOf(Plain, "fix it")
    @@ "noserver" :> WorkflowOf(With(NoServer, "agent.max_concurrent_agents", 2), "fix it")
    @@ "states"   :> WorkflowOf(With(NoServer, "states", TodoOverride), "do it")
    @@ "rotated"  :> WorkflowOf(With(Plain, "telemetry.sinfonia_events_secret", "s2"), "fix it")
    @@ "template" :> WorkflowOf(With(NoServer, "states", BadOverride), "fix it")
    @@ "parts"    :> WorkflowOf(With(NoServer, "states", RetryOverride), "each child")
    @@ "gone"     :> [front |-> "missing", config |-> <<>>, body |-> ""]
    @@ "broken"   :> [front |-> "malformed", config |-> <<>>, body |-> ""]
    @@ "listed"   :> [front |-> "list", config |-> <<>>, body |-> ""]
    @@ "bodyonly" :> [front |-> "none", config |-> <<>>, body |-> "fix it"]
    @@ "nokey"    :> WorkflowOf(With(Plain, "tracker.api_key", "$UNSET"), "fix it")
    @@ "jira"     :> WorkflowOf(With(Plain, "tracker.kind", "jira"), "fix it")
    @@ "noturns"  :> WorkflowOf(With(Plain, "agent.max_turns", 65536 * 4), "fix it")
    @@ "nocli"    :> WorkflowOf(With(With(Plain, "agent.provider", "claude"), "agent.command", " "), "fix it")
    @@ "badroot"  :> WorkflowOf(With(Plain, "workspace.root", "/sealed"), "fix it")
    @@ "badbind"  :> WorkflowOf(With(Plain, "server.bind", "nowhere"), "fix it")

BridgeOf(config) == [front |-> "map", config |-> config, body |-> ""]
PlainBridge ==
    "tracker.kind" :> "linear" @@ "tracker.api_key" :> "$KEY" @@ "tracker.project_slug" :> "proj"
    @@ "github.pat" :> "token" @@ "telemetry.sinfonia_events_secret" :> "s1"
    @@ "feedback_loop.max_tokens_per_ticket" :> 3 @@ "feedback_loop.max_cost_per_ticket_usd" :> 3
AppBridge == With([k \in DOMAIN PlainBridge \ {"github.pat"} |-> PlainBridge[k]], "github.app_id", "7")

Failure(name, pattern, priority) ==
    [object |-> TRUE, keys |-> "name" :> name @@ "target_state" :> "Needs Fixes"
                               @@ "check_pattern" :> pattern @@ "priority" :> priority]
Clashing == [array |-> TRUE, entries |-> <<Failure("e2e", "e2e", 1), Failure("unit", "unit", 1)>>]
Around   == [array |-> TRUE, entries |-> <<Failure("e2e", "e2e", 0), Failure("default", "", 0),
                                           Failure("unit", "unit", 0)>>]

MCBridgeFiles ==
    "bridge"   :> BridgeOf(PlainBridge)
    @@ "around"   :> BridgeOf(With(PlainBridge, "feedback_loop.failure_categories", Around))
    @@ "clashing" :> BridgeOf(With(PlainBridge, "feedback_loop.failure_categories", Clashing))
    @@ "nomatter" :> [front |-> "none", config |-> <<>>, body |-> ""]
    @@ "noauth"   :> BridgeOf(With(AppBridge, "github.label_prefix", "x"))
    @@ "badapp"   :> BridgeOf(With(AppBridge, "github.private_key", "torn"))
    @@ "nokey"    :> BridgeOf(With(PlainBridge, "tracker.api_key", "$UNSET"))
    @@ "cloud"    :> BridgeOf(With(With(PlainBridge, "tracker.kind", "jira"), "tracker.endpoint", "acme"))
    @@ "badsite"  :> BridgeOf(With(With(PlainBridge, "tracker.kind", "jira"), "tracker.endpoint", "nowhere"))
    @@ "badbind"  :> BridgeOf(With(PlainBridge, "server.bind", "nowhere"))
    @@ "nosecret" :> BridgeOf(With(With(PlainBridge, "telemetry.sinfonia_events_secret", ""),
                                   "telemetry.sinfonia_event_subscribe_url", "daemon"))

\* One plan per question: every content at a start and in a reload; a reload under
\* a run that begins, and prompts that do not compile or do not render for every
\* issue and attempt; sessions of a daemon and a bridge that serve, on the same
\* ticket and on two, with posts dropped or with a crash; and the two together
\* from their start, with a secret that changes.
From(start, first, bridgeFile, sessions) ==
    [start |-> start, first |-> first, contents |-> {}, bridge |-> bridgeFile,
     sessions |-> sessions, dispatches |-> 0, edits |-> 0, crashes |-> 0, drops |-> 0]
OneTicket  == {[r \in Runs |-> "A"]}
TwoTickets == {[r \in Runs |-> IF r = 1 THEN "A" ELSE "B"]}
Boots  == {From("down", {"gone"}, name, {}) : name \in DOMAIN MCBridgeFiles}
StartAny == [From("down", DOMAIN MCFiles, "nokey", {}) EXCEPT !.contents = DOMAIN MCFiles, !.edits = 1]
Reload == [From("down", {"noserver"}, "nokey", OneTicket)
              EXCEPT !.contents = {"noserver", "states"}, !.edits = 2, !.dispatches = 1]
Render == [From("down", {"template", "parts"}, "nokey", OneTicket \cup TwoTickets) EXCEPT !.dispatches = 2]
Lossy  == [From("serving", {"plain"}, "bridge", OneTicket) EXCEPT !.drops = 1]
Apart  == From("serving", {"plain"}, "bridge", TwoTickets)
Crashy == [From("serving", {"plain"}, "bridge", OneTicket) EXCEPT !.crashes = 1]
Meet   == [From("down", {"plain"}, "bridge", OneTicket)
              EXCEPT !.contents = {"plain", "rotated"}, !.edits = 1, !.dispatches = 1]
MCPlans == Boots \cup {StartAny, Reload, Render, Lossy, Apart, Crashy, Meet}

MCStateOf == [i \in {"A", "B"} |-> IF i = "A" THEN "Todo" ELSE "Doing"]
MCUsages  == {[input |-> 1, output |-> 1]}
MCPrices  == <<"anthropic", "claude-sonnet-4-6">> :> [input |-> 1, output |-> 2]
             @@ <<"openai", "gpt-5">> :> [input |-> 1, output |-> 1]
MCPriceNames == "claude_code" :> "anthropic" @@ "codex" :> "openai"
=============================================================================
