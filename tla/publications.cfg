SPECIFICATION FairSpec
CONSTANTS
    Procs = {p1, p2}
    NoProc = NoProc
    Drafts = {d1}
    NoDraft = NoDraft
    Machines = {"m1"}
    Published = {"m1"}
    Assigned = {"m1"}
    Bases = {2}
    MaxEdits = 1
    MaxEvents = 2
    Withdraw = FALSE
PROPERTIES PublicationEnds
CHECK_DEADLOCK FALSE
