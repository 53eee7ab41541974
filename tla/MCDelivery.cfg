SPECIFICATION Spec
CONSTANTS
    Window = 2
    BufferCap = 2
    GapReset = 3
    N = 2
    MaxInstruction = 2
    MaxMismatch = 2
    MaxAuto = 1
    MaxDefers = 2
    MaxPrinted = 3
    MaxResumes = 1
    Numbering <- MCNumbering
INVARIANTS
    TypeOK
    ReplayNeedsRestart
    ToldInOrder
    LostOnlyGivenUp
    SubmittedReached
    NotMixed
CHECK_DEADLOCK FALSE
