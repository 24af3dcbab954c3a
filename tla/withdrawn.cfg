SPECIFICATION FairSpec
CONSTANTS
    Procs = {p1}
    NoProc = NoProc
    Drafts = {d1}
    NoDraft = NoDraft
    Machines = {"m1"}
    Published = {}
    Assigned = {}
    Bases = {2}
    MaxEdits = 3
    MaxEvents = 0
    Withdraw = TRUE
PROPERTIES PublicationEnds
CHECK_DEADLOCK FALSE
