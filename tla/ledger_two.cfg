SPECIFICATION Spec
CONSTANTS
    c1 = c1
    c2 = c2
    k1 = k1
    Commands = {c1, c2}
    NoCommand = NoCommand
    EvidenceIds = {1}
    ConfirmTicks = 2
    LeaseTicks = 1
    ChatOf <- OneChat
    ActionKeys = {k1}
    Reports <- KeyReports
    Lag = 0
    MaxTime = 4
    AcceptUntil = 2
    MaxEvidence = 1
    MaxRebuilds = 0
SYMMETRY Interchangeable
CHECK_DEADLOCK FALSE
INVARIANTS
    PauseTracksDoubt
PROPERTIES
    NeverEligibleAgain
