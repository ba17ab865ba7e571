SPECIFICATION Spec
CONSTANTS
    Env <- MCEnv
    Variables = {"$KEY", "$UNSET", "$LINEAR_API_KEY", "$OPENAI_API_KEY"}
    LowerCase <- MCLowerCase
    BadTemplates = {"{{"}
    Renders <- MCRenders
    Stub = "stub"
    BadUrls = {"nowhere"}
    BadPatterns = {"("}
    BadKeys = {"torn"}
    BadRoots = {"/sealed"}
    CloudSites = {"acme"}
    Word16 = 65536
    Word32 = 262144
    Files <- MCFiles
    PortFlag = FALSE
    MaxRuns = 2
    StateOf <- MCStateOf
    Usages <- MCUsages
    Callbacks = {"bridge"}
    WebCallbacks = {"bridge"}
    SignalCapacity = 2
    RecentCapacity = 1
    MaxDeliveryAttempts = 2
    Plans <- MCPlans
    BridgeFiles <- MCBridgeFiles
    Tickets = {"A", "B"}
    Handlers = {1, 2}
    Reconciler = 0
    Prices <- MCPrices
    PriceNames <- MCPriceNames
    CostUnit = 2
    BridgeUrl = "bridge"
INVARIANTS
    DeploymentTypeOK
    OrderedSnapshot
    ReloadSettles
    CheckPredictsStart
    CheckedPromptsRender
    FieldsMatch
    CapActedOn
    ChecksPredictBridgeStart
    DeliveredOrGivenUp
PROPERTY PendingFlushed
CHECK_DEADLOCK FALSE
