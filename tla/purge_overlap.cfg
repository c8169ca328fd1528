CONSTANTS
    Batches = {"b1"}
    Items <- MCItems
    Content <- MCContent
    Removals = {r1, r2}
    Matches <- MCMatches
    Workers = {w1}
    Lease = 1
    RunLimit = 1
    SafetyWindow = 1
    MaxClock = 2
    MaxFaults = 0
SPECIFICATION FairSpec
PROPERTIES
    PurgeErases
CHECK_DEADLOCK FALSE
