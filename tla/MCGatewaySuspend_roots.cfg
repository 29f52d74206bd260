SPECIFICATION Spec
CONSTANTS
    Chains = {c1, c2}
    Roots = {r1, r2}
    NoRoot = NoRoot
    NoRequest = NoRequest
    MaxScopes = 1
    Work = {}
    Terminals = {}
    Requests <- OneRequest
    MaxSignals = 4
    MaxSuspends = 1
    MaxTimers = 1
SYMMETRY Symmetry
INVARIANTS RootsCounted NoLostWakeup
PROPERTIES SignalFenceHeld
