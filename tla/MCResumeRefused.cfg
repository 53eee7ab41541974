SPECIFICATION Spec
CONSTANTS
    r1 = r1
    r2 = r2
    MaxHosts = 2
    Runs <- MCRuns
    Live <- MCLive
    MaxJobs = 2
    Messages <- MCMessages
    Buttons <- MCButtons
    MaxCompleted = 1
    MaxCopies = 2
    SeenMax = 1
INVARIANTS
    PausedIsResumable
CHECK_DEADLOCK FALSE
