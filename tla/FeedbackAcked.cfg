CONSTANTS
    check_suite = check_suite
    workflow_run = workflow_run
    h1 = h1
    h2 = h2
    Handlers = {h1, h2}
    MaxAttempts = 2
    PromotesOnGreen = TRUE
    Kinds = {check_suite, workflow_run}
    MaxRuns = 2
    MaxDeliveries = 3
    NoJob = NoJob
    Session = Session
    Debounce = Debounce
    NotLoaded = NotLoaded
    Absent = Absent
SPECIFICATION Spec
SYMMETRY Symmetry
CONSTRAINT Bounded
PROPERTIES AckedIsHandled
