SPECIFICATION Spec
CONSTANTS
    d1 = d1
    d2 = d2
    r1 = r1
    r2 = r2
    MaxRequests = 2
    Foreground = Foreground
    Viewer = Viewer
    Daemons <- MCDaemons
    Runs <- MCRuns
SYMMETRY MCSymmetry
INVARIANT PaneExclusive
CHECK_DEADLOCK FALSE
