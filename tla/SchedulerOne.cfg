CONSTANTS
    i1 = i1
    i2 = i2
    i3 = i3
    r1 = r1
    r2 = r2
    r3 = r3
    f1 = f1
    f2 = f2
    Issues = {i1}
    ActiveStates = {"in progress"}
    TerminalStates = {"done"}
    OtherStates = {}
    Todo = "todo"
    Gone = "gone"
    Permitted = {i1}
    MaxConcurrent = 1
    StallDetection = TRUE
    Crashes = TRUE
    NoEntry = NoEntry
    NoView = NoView
    Runs = {r1, r2}
    Fires = {f1, f2}
    MaxTimers = 2
    MaxAttempt = 2
    Blockers <- NoBlockers
    Rank <- RankOfIssue
    StateCap <- NoCap
SPECIFICATION Spec
SYMMETRY Symmetry
INVARIANTS TypeOK ClaimIsAccountedFor RetryHasTimer OneOwner
PROPERTIES RefinesLifecycle KeepsProtocol
