SPECIFICATION Spec
CONSTANTS
    Pursuits = {1, 2}
    Hooks = {"h1"}
    Keys = {"s1"}
    MaxFaults = 0
INVARIANTS RestartIsPursued
