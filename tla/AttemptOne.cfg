SPECIFICATION Spec
CONSTANTS
    MaxRuns = 2
    Configs <- MCConfigs
    ActiveStates <- Active
    TerminalStates = {"Done"}
    OtherStates = {"Parked"}
    Responses <- MCResponses
    MaxIterations = 2
    MaxLines = 2
    MaxBacklog = 1
    MaxMoves = 1
    MaxRestarts = 1
    MaxDirs = 2
INVARIANTS
    AttemptTypeOK
    CallsAnswered
    SessionPrepared
    NoOvercount
    DashboardCoversBridge
    RightAgent
    ContinuationHasThread
CONSTRAINT Bounded
PROPERTIES WorkspaceKept KeepsProtocol
CHECK_DEADLOCK FALSE
