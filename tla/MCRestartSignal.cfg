SPECIFICATION Spec
CONSTANTS
    Pursuits = {1, 2}
    Hooks = {"h1"}
    Keys = {"s1"}
    MaxFaults = 1
INVARIANTS SignalIsFenced FenceIsOwned WrittenIsHeld
PROPERTIES ContinuationKept RestartIsEmitted
