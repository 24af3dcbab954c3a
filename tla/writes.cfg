SPECIFICATION Spec
CONSTANTS
    Sends <- MCSends
    Limits <- MCLimits
    Principals = {p, q}
    Inputs = {a, b}
    MaxEpoch = 2
    NoRecord = NoRecord
INVARIANTS ExecutedOnce ReportIsTrue
CHECK_DEADLOCK FALSE
