SPECIFICATION Spec
CONSTANTS
    Procs = {p1, p2}
    NoProc = NoProc
    Drafts = {d1, d2}
    NoDraft = NoDraft
    Machines = {"m1"}
    Published = {"m1"}
    Assigned = {}
    Bases = {2}
    MaxEdits = 2
    MaxEvents = 1
    Withdraw = TRUE
SYMMETRY Symmetry
INVARIANTS OutcomeTellsRelease
PROPERTIES ReleaseIsCurrent
CHECK_DEADLOCK FALSE
