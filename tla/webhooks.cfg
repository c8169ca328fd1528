SPECIFICATION WebhookSpec
CONSTANTS
    Subscriptions = {s1}
    Messages = {m1}
    Deliverers = {w1, w2}
    MaxVersion = 2
    MaxRevision = 2
    Volatile = {}
    MaxTrouble = 1
    MaxRetries = 1
SYMMETRY WorkerSymmetry
CONSTRAINT EditsAlone
CHECK_DEADLOCK FALSE
INVARIANTS
    BacklogStaysWithItsDestination
    OneRequestInFlight
    RevisionsFollowDelivery

    
