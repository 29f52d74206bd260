SPECIFICATION FairSpec
CONSTANTS
    plain = plain
    casual = casual
    exact = exact
    gateway = gateway
    cli = cli
    Messages = {plain, casual, exact}
    Processes = {gateway, cli}
    Recoverers = {gateway}
    Stable = {casual, exact}
    Required = {plain, exact}
    Reconciles = {plain, exact}
    Exact = {exact}
    MaxRetries = 2
    MaxCrashes = 2
    MaxStalls = 1
    MaxFaults = 1
    MaxReplays = 1
CONSTRAINT OneMessage
INVARIANTS AtMostOnce EvidenceFirst SendsBounded NoSilentLoss
PROPERTIES FailedForbidsSends KeepsPromise EveryMessageEnds
CHECK_DEADLOCK FALSE
