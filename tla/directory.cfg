SPECIFICATION DirectorySpec
CONSTANTS
    p1 = p1
    p2 = p2
    q1 = q1
    q2 = q2
    LinkSessions = {p1, p2}
    Relinks = {r1}
    Disconnects = {d1}
    Logins = {q1, q2}
    NoLogin = NoLogin
    NoOperation = NoOperation
    MaxLinkGeneration = 2
    MaxLinkCalls = 2
    MaxLinkMishaps = 1
    Slots = {p1, p2}
    Appliers = {p1, p2}
    MaxSequence = 2
    MaxGeneration = 2
    MaxChanges = 1
    MaxReplay = 1
    MaxSockets = 1
    MaxRealtimeMishaps = 1
    None = none
    Grants = {g1, g2}
    Members = {m1}
    Ops = {"message.send", "conversation.read"}
    Chats = {c1}
    MutationKeys = {k1, k2}
    MaxEpoch = 5
CONSTRAINT LinkScope
SYMMETRY DirectorySymmetry
CHECK_DEADLOCK FALSE
INVARIANTS
    SessionsLinkOnce
    
    PositionsWereTold
    GrantRowsAreSound
PROPERTIES
    LateAnswersChangeNothing
    NoBroadcastAfterRevocation
    FenceAdvances
