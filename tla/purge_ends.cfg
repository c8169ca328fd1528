CONSTANTS
    Batches = {"b1", "b2"}
    Items <- MCItems
    Content <- MCContent
    Removals = {r1}
    Matches <- MCMatches
    Workers = {w1, w2}
    Lease = 1
    RunLimit = 1
    SafetyWindow = 1
    MaxClock = 1
    MaxFaults = 0
SPECIFICATION FairSpec
PROPERTIES
    PurgeErases
CHECK_DEADLOCK FALSE
