SPECIFICATION Spec
CONSTANTS
    N = 2
    Kind = "linear_plan"
    Succ <- NoSucc
    DecisionNodes = {}
    Options <- NoOptions
    PerNode = 2
    GlobalLimit = 2
    MaxReInjects = 0
    RequireAll = TRUE
    RequireVerify = TRUE
    MustReviewBy = "stronger_reviewer"
    MaxAuto = 1
    MaxMismatch = 2
    MaxOutageRetries = 0
    ObservationOnly = FALSE
    Reports <- SomeReports
    Acknowledgers = {"stronger_reviewer"}
    Extras = {TRUE, FALSE}
    DaemonCrashes = TRUE
    FailureBound = 3
    NoReport = NoReport
INVARIANTS
    TypeOK
    CompletedEarned
    OrderedProgress
    BudgetRespected
    EscalationStands
PROPERTIES
    LegalMoves
    KeepsContract
CHECK_DEADLOCK FALSE
