SPECIFICATION MCSpec
CONSTANTS
    Procs = {p1, p2}
    NoProc = NoProc
    Claims = {k1}
    Values = 1
    MaxGen = 3
    MaxEpoch = 2
    MaxRev = 1
    MaxCrash = 1
    Reporting = TRUE
    Modes = {"transient", "encrypted"}
    Inputs <- MCInputs
    MaxRounds = 2
    Compositions <- MCCompositions
    Value <- MCValue
    KeyOf <- MCKeyOf
    Omitted = {"q"}
    SchemaSecrets = {"o"}
SYMMETRY Symmetry
INVARIANTS
    OperationFollowsClaim
    NoValuePersisted
    RoundTrip
    ProvenanceTrue
    NoValueShown
PROPERTIES
    CommitsStoredEnvelope
    EndedForGood
    ImplementsContract
CHECK_DEADLOCK FALSE
