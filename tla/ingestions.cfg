SPECIFICATION MCFairSpec
CONSTANTS
    Procs = {p1}
    NoProc = NoProc
    Claims = {k1, k2}
    Values = 1
    MaxGen = 1
    MaxEpoch = 1
    MaxRev = 0
    MaxCrash = 1
    Reporting = FALSE
    Modes = {"transient", "encrypted"}
    Inputs = {}
    MaxRounds = 1
    Compositions = {}
    Value <- MCValue
    KeyOf <- MCKeyOf
    Omitted = {"q"}
    SchemaSecrets = {"o"}
INVARIANTS OneIngestPerRevision
PROPERTIES EveryClaimEnds
CHECK_DEADLOCK FALSE
