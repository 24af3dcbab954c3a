SPECIFICATION FairSpec
CONSTANTS
    MaxEpoch = 3
    MaxEvents = 2
    MaxFaults = 3
    Batch = 2
    PageSize = 1
INVARIANTS WatchIsTrue
PROPERTIES WatchEnds
CHECK_DEADLOCK FALSE
