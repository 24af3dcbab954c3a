SPECIFICATION Spec
CONSTANTS
    m1 = m1
    m2 = m2
    p1 = p1
    p2 = p2
    Machines = {m1, m2}
    NoMachine = NoMachine
    Procs = {p1, p2}
    NoProc = NoProc
    Epochs = {e0, e1, e2}
    FirstEpoch = e0
    NoEpoch = NoEpoch
    Keys = {k1, k2}
    Releases = {r1}
    NoRelease = NoRelease
    Limits <- MCLimits
SYMMETRY Symmetry
INVARIANTS OneInFlight ScopesFollowMode GateIsOwnEntry OneOutcome
PROPERTIES ReleasedIsChecked AdoptsUndisturbed
CHECK_DEADLOCK FALSE
