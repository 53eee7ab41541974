SPECIFICATION Spec
CONSTANTS
    r1 = r1
    r2 = r2
    h1 = h1
    h2 = h2
    MaxLines = 4
    Limit = 1
    Window = 1
    MaxTime = 3
    Loads <- MCLoads
    Runs <- MCRuns
    Guests = {"other"}
    Handlers <- MCHandlers
    Keys <- MCKeys
    Policies <- MCPolicies
    Clients = {"c1"}
SYMMETRY MCSymmetry
INVARIANTS
    TypeOK
    RepeatNotRead
    FreshRunHasOpenSession
    CompletedIsSettled
    ItemOncePerKey
    CompletedHasArtifact
    LimitKept
    InboundVetted
    ResultTakesEffect
CHECK_DEADLOCK FALSE
