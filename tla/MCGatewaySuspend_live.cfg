SPECIFICATION FairSpec
CONSTANTS
    Chains = {c1, c2}
    Roots = {r1, r2}
    NoRoot = NoRoot
    NoRequest = NoRequest
    MaxScopes = 0
    Work = {tty}
    Terminals = {tty}
    Requests <- TwoRequests
    MaxSignals = 0
    MaxSuspends = 1
    MaxTimers = 2
INVARIANTS FenceHasOwner PreparedIsQuiet
PROPERTIES LeaseHonoured SuspensionEnds WaitersProceed
