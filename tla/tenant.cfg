SPECIFICATION TenantSpec
CONSTANTS
    None = none
    Grants = {g1}
    Members = {m1}
    Ops = {"message.send", "conversation.read"}
    Chats = {c1}
    MutationKeys = {}
    Keys = {k1}
    IdentityScopes = {"message.send"}
    MaxEpoch = 3
    MaxRank = 4
    OccurredMs <- MCOccurredMs
    Kinds <- AllKinds
    Removable = {"message"}
    IngestBatches = {"b1"}
    Encodings = {"z1", "z2"}
    Ingesters = {p1, p2}
    Consumers = {p1, p2}
    Pointers = {q1, q2}
    MaxDeliveries = 2
    MaxIngestMishaps = 1
CHECK_DEADLOCK FALSE
INVARIANTS
    ProjectionConverges
    HiddenStaysHidden
    AnsweredIsDurable
    PointersAreBacked
PROPERTIES
    NoClaimAfterLapse
