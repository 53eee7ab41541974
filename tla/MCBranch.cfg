SPECIFICATION FairSpec
CONSTANTS
    N = 3
    Kind = "conditional_workflow"
    Succ <- StepSucc
    DecisionNodes = {2}
    Options <- BackOrOn
    PerNode = 1
    GlobalLimit = 2
    MaxReInjects = 1
    RequireAll = TRUE
    RequireVerify = TRUE
    MustReviewBy = "nobody"
    MaxAuto = 1
    MaxMismatch = 1
    MaxOutageRetries = 1
    ObservationOnly = FALSE
    Reports <- SomeReports
    Acknowledgers = {"human"}
    Extras = {TRUE}
    DaemonCrashes = FALSE
    FailureBound = 1
    NoReport = NoReport
INVARIANTS
    CompletedEarned
PROPERTIES
    KeepsContract
    StopHonoured
    SilenceEscalates
    StoppedRunEndsThread
CHECK_DEADLOCK FALSE
