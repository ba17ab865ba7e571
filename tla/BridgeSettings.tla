--------------------------- MODULE BridgeSettings ---------------------------
(***************************************************************************)
(* How BRIDGE.md becomes the bridge's BridgeConfig: the parsers of its     *)
(* sections, the validation rules, and what starting, --check and          *)
(* --self-test make of the result.                                         *)
(***************************************************************************)
EXTENDS Settings, FiniteSetsExt

BridgeTracker(c) ==
    LET kind == Lower(c["tracker.kind"]) IN
    [kind            |-> kind,
     endpoint        |-> Value(c, "tracker.endpoint", DefaultEndpoint(kind)),
     api_key         |-> Resolved(c, "tracker.api_key"),
     project_slug    |-> Resolved(c, "tracker.project_slug"),
     active_states   |-> Value(c, "tracker.active_states", {}),
     terminal_states |-> Value(c, "tracker.terminal_states", {}),
     jira_email      |-> Resolved(c, "tracker.email")]

LabelNames == {"in_progress", "awaiting_review", "needs_fixes", "cap_hit",
               "budget_exceeded", "failure_prefix"}

\* Text of an App id that is no number is no id, like an absent one.
GitHub(c) ==
    [webhook_secret |-> Resolved(c, "github.webhook_secret"),
     pat            |-> Resolved(c, "github.pat"),
     app_id         |-> Resolved(c, "github.app_id"),
     private_key    |-> Resolved(c, "github.private_key"),
     manage_labels  |-> Value(c, "github.manage_labels", TRUE),
     label_prefix   |-> Value(c, "github.label_prefix", "sinfonia"),
     label_aliases  |-> [l \in LabelNames |-> Value(Value(c, "github.label_aliases", Empty), l, None)]]

DefaultCategory(needsFixes) ==
    [name |-> "default", check_pattern |-> None, target_state |-> needsFixes, priority |-> 0]

\* "failure_categories" is [array, entries]; each entry is [object, keys].
CategoryError(entry) ==
    LET pattern == Value(entry.keys, "check_pattern", "") IN
    Unless(/\ entry.object
           /\ {"name", "target_state"} \subseteq DOMAIN entry.keys
           /\ IF pattern # "" THEN pattern \notin BadPatterns
              ELSE Value(entry.keys, "name", "") = "default", "config")

CategoriesError(c) ==
    LET given == Optional(c, "feedback_loop.failure_categories") IN
    Unless(\A list \in given :
               list.array /\ \A i \in DOMAIN list.entries : CategoryError(list.entries[i]) = Ok,
           "config")

Category(keys) ==
    [name |-> keys["name"],
     check_pattern |-> IF Value(keys, "check_pattern", "") = "" THEN None ELSE keys["check_pattern"],
     target_state |-> keys["target_state"], priority |-> Value(keys, "priority", 0)]

FailureCategories(c, needsFixes) ==
    LET given  == Optional(c, "feedback_loop.failure_categories")
        parsed == IF given = {} THEN <<>>
                  ELSE LET list == (CHOOSE l \in given : TRUE).entries
                       IN  [i \in DOMAIN list |-> Category(list[i].keys)]
    IN  IF \E i \in DOMAIN parsed : parsed[i].name = "default" THEN parsed
        ELSE Append(parsed, DefaultCategory(needsFixes))

MergeSection(c) ==
    [enabled |-> Value(c, "feedback_loop.merge_coordinator.enabled", FALSE),
     merge_method |-> Value(c, "feedback_loop.merge_coordinator.merge_method", "rebase"),
     max_update_cycles |-> Value(c, "feedback_loop.merge_coordinator.max_update_cycles", 3) % Word32]

HarnessSection(c) ==
    [ingest |-> Value(c, "feedback_loop.ingest_harness_manifest", TRUE),
     artifact_glob |-> Value(c, "feedback_loop.harness_manifest_artifact_glob", "bridge-*"),
     filename |-> Value(c, "feedback_loop.harness_manifest_filename", "bridge.json"),
     max_artifact_bytes |-> Value(c, "feedback_loop.max_artifact_bytes", 5242880),
     max_failures_parsed |-> Value(c, "feedback_loop.max_failures_parsed", 20),
     max_failure_digest_bytes |-> Value(c, "feedback_loop.max_failure_digest_bytes", 8192)]

FeedbackLoop(c) ==
    LET needsFixes == Value(c, "feedback_loop.needs_fixes_state", "Needs Fixes")
        review     == Value(c, "feedback_loop.awaiting_review_state", "") IN
    [max_attempts          |-> Value(c, "feedback_loop.max_attempts", 5) % Word32,
     needs_fixes_state     |-> needsFixes,
     blocked_state         |-> Value(c, "feedback_loop.blocked_state", "Blocked - Human Review"),
     awaiting_review_state |-> IF review \in Blank THEN None ELSE review,
     required_checks       |-> Value(c, "feedback_loop.required_checks", {}),
     max_tokens_per_ticket |-> Optional(c, "feedback_loop.max_tokens_per_ticket"),
     max_cost_per_ticket_usd |-> Optional(c, "feedback_loop.max_cost_per_ticket_usd"),
     budget_exceeded_state |-> Value(c, "feedback_loop.budget_exceeded_state", "Blocked - Budget Cap"),
     failure_categories    |-> FailureCategories(c, needsFixes),
     harness_manifest      |-> HarnessSection(c),
     merge_coordinator     |-> MergeSection(c)]

FeedbackLoopError(c) ==
    FirstError(<<Unless(Value(c, "feedback_loop.pr_link_pattern", "") \notin BadPatterns, "config"),
                 CategoriesError(c)>>)

FieldNames == {"attempt_count", "last_failure_log", "max_attempts_override", "failure_category",
               "tokens_consumed", "cost_consumed_usd", "max_cost_override_usd"}

CustomFields(c) ==
    LET given == Value(c, "custom_fields", Empty) IN [f \in FieldNames |-> Value(given, f, f)]

\* An address that is empty, or whose variable is unset, is no address.
PublicUrl(c) == Resolved(c, "server.public_url")

BridgeServer(c) ==
    [bind |-> Value(c, "server.bind", "0.0.0.0"), port |-> Value(c, "server.port", 8081) % Word16,
     public_url |-> PublicUrl(c)]

BridgeServerError(c) == Unless(PublicUrl(c) \notin BadUrls, "config")

BridgeTelemetry(c) ==
    [otlp_endpoint |-> Resolved(c, "telemetry.otlp_endpoint"),
     service_name  |-> Value(c, "telemetry.service_name", "sinfonia-bridge"),
     tenant_id     |-> Resolved(c, "telemetry.tenant_id"),
     headers       |-> {h \in Value(c, "telemetry.headers", {}) : Resolve(h) # None},
     sinfonia_events_secret       |-> Resolved(c, "telemetry.sinfonia_events_secret"),
     sinfonia_event_subscribe_url |-> Resolved(c, "telemetry.sinfonia_event_subscribe_url"),
     sinfonia_event_callback_url  |-> Resolved(c, "telemetry.sinfonia_event_callback_url")]

ParseBridge(c) ==
    [tracker |-> BridgeTracker(c), github |-> GitHub(c), feedback_loop |-> FeedbackLoop(c),
     custom_fields |-> CustomFields(c), server |-> BridgeServer(c),
     state_db_path |-> Value(c, "storage.state_db_path", "~/.sinfonia/bridge.db"),
     telemetry |-> BridgeTelemetry(c)]

ParseBridgeError(c) ==
    FirstError(<<KindError(c), FeedbackLoopError(c), BridgeServerError(c)>>)

-----------------------------------------------------------------------------
(* The validation rules, in the order they are tried.                      *)

AuthError(github) ==
    FirstError(<<Unless((github.pat # None) # (github.app_id # None), "config"),
                 Unless(github.app_id # None => github.private_key # None, "config")>>)

SiteError(tracker) ==
    Unless(tracker.kind = "jira" => /\ tracker.endpoint \notin Blank
                                    /\ tracker.endpoint \in CloudSites => tracker.jira_email # None,
           "config")

\* A category clashes with the last one before it of the same priority, unless
\* one of the two is the default category.
PrioritiesError(categories) ==
    Unless(\A j \in DOMAIN categories :
              LET earlier == {i \in 1..(j - 1) : categories[i].priority = categories[j].priority}
              IN  earlier # {} => "default" \in {categories[Max(earlier)].name, categories[j].name},
           "config")

Validate(cfg) ==
    LET loop == cfg.feedback_loop IN
    FirstError(<<
        AuthError(cfg.github),
        SiteError(cfg.tracker),
        Unless(loop.max_attempts >= 1, "config"),
        Unless(loop.needs_fixes_state \notin Blank, "config"),
        Unless(loop.blocked_state \notin Blank, "config"),
        Unless(loop.merge_coordinator.enabled
                   => loop.merge_coordinator.merge_method \in {"rebase", "squash", "merge"}, "config"),
        PrioritiesError(loop.failure_categories),
        Unless(\A f \in FieldNames : cfg.custom_fields[f] \notin Blank, "config"),
        Unless(cfg.telemetry.sinfonia_event_subscribe_url # None
                   => cfg.telemetry.sinfonia_events_secret # None, "config")>>)

\* Without a closed front matter BRIDGE.md is an error, unlike WORKFLOW.md.
\* Empty front matter has no tracker.kind.
ReadBridgeError(text) ==
    CASE text.front = "missing"                            -> "file"
      [] text.front \in {"none", "unclosed", "malformed"} -> "yaml"
      [] text.front \in {"list", "scalar"}                -> "not_map"
      [] text.front = "null"                               -> "kind"
      [] OTHER -> IF ParseBridgeError(text.config) # Ok THEN ParseBridgeError(text.config)
                  ELSE Validate(ParseBridge(text.config))

Bridge(text) == ParseBridge(text.config)

BuildGitHub(github) ==
    IF AuthError(github) # Ok THEN AuthError(github)
    ELSE Unless(github.pat # None \/ github.private_key \notin BadKeys \cup Blank, "github")

\* What stops the bridge after BRIDGE.md has been read: the form of its address,
\* its database, its tracker, its GitHub client, and at last the address, which
\* may be taken.  Whether the database opens and the address is free are outside
\* conditions.
BridgeStartError(text, databaseOpens, listens) ==
    IF ReadBridgeError(text) # Ok THEN ReadBridgeError(text)
    ELSE FirstError(<<Unless(Bridge(text).server.bind \notin BadUrls, "bind"),
                      Unless(databaseOpens, "database"),
                      BuildTracker(Bridge(text).tracker),
                      BuildGitHub(Bridge(text).github),
                      Unless(listens, "listen")>>)

\* Mutant: --self-test asks the services without building their clients.
SelfTestAsksOnly(text, gitHubAnswers, hookAnswers, trackerAnswers) ==
    Cardinality({answer \in {gitHubAnswers, hookAnswers, trackerAnswers} : ~answer})

\* The failures --self-test counts, given what the services answer.
SelfTest(text, gitHubAnswers, hookAnswers, trackerAnswers) ==
    LET cfg == Bridge(text) IN
    Cardinality({check \in {"github", "webhook", "tracker"} :
        CASE check = "github"  -> BuildGitHub(cfg.github) # Ok \/ ~gitHubAnswers
          [] check = "webhook" -> cfg.server.public_url # None /\ ~hookAnswers
          [] check = "tracker" -> BuildTracker(cfg.tracker) # Ok
                                  \/ (~trackerAnswers
                                      /\ (cfg.tracker.kind = "jira" => cfg.tracker.active_states # {}))})
=============================================================================
