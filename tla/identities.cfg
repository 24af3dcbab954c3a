SPECIFICATION MCSpec
CONSTANTS
    Procs = {p1, p2}
    NoProc = NoProc
    Subjects = {s1, s2}
    NoSubject = NoSubject
    Versions = {v1, v2}
    Absent = Absent
    MaxTokens = 4
    MaxCommands = 4
    MaxFaults = 1
    Humans = {1, 3}
    Services = {2}
    Listed = {2}
    Txs = {t1, t2, t3}
    MaxEpoch = 2
    ActPage = 1
SYMMETRY Symmetry
INVARIANTS RedeemedOnce SignedOutStays RemovesWhatItRead RevokedStaysOut ActsInOrder
CHECK_DEADLOCK FALSE
