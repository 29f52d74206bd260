SPECIFICATION Spec
CONSTANTS
    e1 = e1
    e2 = e2
    f1 = f1
    f2 = f2
    Events = {e1, e2}
    LaneOf <- MCLanes
    Loose <- MCLoose
    Supersedes <- MCSupersedes
    Slots = {1, 2, 3}
    MaxAttempts = 2
    MaxTries = 2
    MaxFaults = 1
PROPERTIES EveryEventEnds
CHECK_DEADLOCK FALSE
