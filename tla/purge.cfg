CONSTANTS
    Batches = {"b1"}
    Items <- MCItems
    Content <- MCContent
    Removals = {r1, r2}
    Matches <- MCMatches
    Workers = {w1, w2}
    Lease = 1
    RunLimit = 1
    SafetyWindow = 1
    MaxClock = 1
    MaxFaults = 1
SPECIFICATION Spec
SYMMETRY Interchangeable
CHECK_DEADLOCK FALSE
INVARIANTS
    NoRetainedItemLost
