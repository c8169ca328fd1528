SPECIFICATION Spec
SYMMETRY Symmetry
CONSTRAINT StandingBound
CHECK_DEADLOCK FALSE
CONSTANTS
    MaxEpoch = 3
    MaxGeneration = 2
    PrivateOps = {c1, c2, r1, n1, m1, m2}
    Contacts = {c1, c2}
    ChatKeys = {k1, k2}
    ChatHandlers = {h1, h2}
    NoContact = NoContact
    NoKey = NoKey
    ReceiptRequests = {r1}
    ReceiptHandlers = {h1, h2}
    NoReceipt = NoReceipt
    GroupKeys = {n1}
    GroupHandlers = {h1, h2}
    NoGroup = NoGroup
    Renames = {m1}
    Additions = {m2}
    ManageHandlers = {h1, h2}
    NoChange = NoChange
INVARIANTS
    
    AskedAtMostOnce
    
    ChangesConverge
