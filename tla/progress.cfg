SPECIFICATION ProgressSpec
CONSTANTS
    Subscriptions = {s1}
    Messages = {m1}
    Deliverers = {w1}
    MaxVersion = 1
    MaxRevision = 1
    Volatile = {"grant"}
    MaxTrouble = 1
    MaxRetries = 0
    Ranges = {r1, r2}
    First = r1
    Pages = 1
    PageWorkers = {w1}
    MaxAttempts = 2
    MaxManual = 0
    MaxHistoryTrouble = 1
    LinkSessions = {s1}
    Relinks = {r1}
    Disconnects = {}
    Logins = {a, b}
    NoLogin = NoLogin
    NoOperation = NoOperation
    MaxLinkGeneration = 2
    MaxLinkCalls = 1
    MaxLinkMishaps = 1
    IngestBatches = {"b1"}
    Encodings = {"z1", "z2"}
    Ingesters = {w1}
    Consumers = {w1}
    Pointers = {m1, m2}
    MaxDeliveries = 2
    MaxIngestMishaps = 1
    Slots = {s1, s2}
    Appliers = {s1}
    MaxSequence = 1
    MaxGeneration = 1
    MaxChanges = 1
    MaxReplay = 1
    MaxSockets = 1
    MaxRealtimeMishaps = 1
CHECK_DEADLOCK FALSE
PROPERTIES
    DeliveriesAreDurableWork
    RangesSettle
    SessionsEnd
    BatchesArrive
    BrowserCatchesUp
