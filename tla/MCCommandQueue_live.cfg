SPECIFICATION FairSpec
CONSTANTS
    A = A
    B = B
    S = S
    G = G
    H = H
    e1 = e1
    e2 = e2
    e3 = e3
    e4 = e4
    Lanes = {A, B, S}
    ScopedLanes = {S}
    QuietLanes = {}
    EligibleLanes = {A, B}
    Entries = {e1, e2}
    GroupIds = {G, H}
    NoGroup = NoGroup
    Priorities = {0}
    Widths = {1}
    PublishConfigs <- GroupConfigs
    MaxIncarnations = 2
    MaxGeneration = 1
    MaxInstalls = 1
    MaxCalls = 1
    MaxDepth = 2
INVARIANTS IdleScopedLanesRetire OneLiveRunPerScope
PROPERTIES QueuedWorkIsServed
CHECK_DEADLOCK FALSE
