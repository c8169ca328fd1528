SPECIFICATION Spec
CONSTANTS
    c1 = c1
    k1 = k1
    k2 = k2
    Commands = {c1}
    NoCommand = NoCommand
    EvidenceIds = {1, 2}
    ConfirmTicks = 2
    LeaseTicks = 1
    ChatOf <- OneChat
    ActionKeys = {k1, k2}
    Reports <- AllReports
    Lag = 1
    MaxTime = 4
    AcceptUntil = 1
    MaxEvidence = 2
    MaxRebuilds = 1
SYMMETRY Interchangeable
CHECK_DEADLOCK FALSE
INVARIANTS
    
    
    CancelledIsNeverSent
PROPERTIES
    NoUnconfirmedLateDispatch
