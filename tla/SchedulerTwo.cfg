CONSTANTS
    i1 = i1
    i2 = i2
    i3 = i3
    r1 = r1
    r2 = r2
    r3 = r3
    f1 = f1
    f2 = f2
    Issues = {i1, i2, i3}
    ActiveStates = {"in progress", "rework"}
    TerminalStates = {"done"}
    OtherStates = {}
    Todo = "todo"
    Gone = "gone"
    Permitted = {i1, i2, i3}
    MaxConcurrent = 2
    StallDetection = FALSE
    Crashes = FALSE
    NoEntry = NoEntry
    NoView = NoView
    Runs = {r1, r2, r3}
    Fires = {f1}
    MaxTimers = 1
    MaxAttempt = 1
    Blockers <- NoBlockers
    Rank <- RankOfIssue
    StateCap <- SerialCap
SPECIFICATION Spec
SYMMETRY Symmetry
CONSTRAINT OneMoves
INVARIANTS SlotBound ClaimIsAccountedFor
PROPERTIES OverCapByMovesOnly PassedOverForSlots
