SPECIFICATION Spec
CONSTANTS
    A = A
    B = B
    S = S
    G = G
    H = H
    e1 = e1
    e2 = e2
    e3 = e3
    e4 = e4
    Lanes = {A, B}
    ScopedLanes = {}
    QuietLanes = {B}
    EligibleLanes = {A, B}
    Entries = {e1, e2, e3}
    GroupIds = {G, H}
    NoGroup = NoGroup
    Priorities = {0, 1}
    Widths = {0}
    PublishConfigs <- GroupConfigs
    MaxIncarnations = 1
    MaxGeneration = 1
    MaxInstalls = 2
    MaxCalls = 1
    MaxDepth = 2
CONSTRAINT InstallOrReset
SYMMETRY EntrySymmetry
INVARIANTS Custody NoStrandedWork
PROPERTIES ReservationsHold GroupOrder
CHECK_DEADLOCK FALSE
