SPECIFICATION FairSpec
CONSTANTS
    p1 = p1
    p2 = p2
    r1 = r1
    r2 = r2
    Processes <- MCProcesses
    Releases <- MCReleases
    Stall = 3
    Persistent = 2
    Batch = 1
    Limits <- MCLimits
INVARIANT AlertsTrue
PROPERTY AnswersInOrder
PROPERTY AlertsLogged
