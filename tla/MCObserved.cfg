SPECIFICATION FairSpec
CONSTANTS
    N = 2
    Kind = "linear_plan"
    Succ <- NoSucc
    DecisionNodes = {}
    Options <- NoOptions
    PerNode = 2
    GlobalLimit = 3
    MaxReInjects = 1
    RequireAll = TRUE
    RequireVerify = FALSE
    MustReviewBy = "nobody"
    MaxAuto = 2
    MaxMismatch = 5
    MaxOutageRetries = 1
    ObservationOnly = TRUE
    Reports <- SomeReports
    Acknowledgers = {}
    Extras = {TRUE, FALSE}
    DaemonCrashes = FALSE
    FailureBound = 3
    NoReport = NoReport
INVARIANTS
    AttachBoundaryKept
PROPERTIES
    StopHonoured
CHECK_DEADLOCK FALSE
