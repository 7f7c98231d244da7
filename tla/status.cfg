SPECIFICATION StatusFairSpec
CHECK_DEADLOCK FALSE
CONSTANTS
    None = None
    Anchors = {a1}
    Clients = {c1}
    Disclosers = {d1}
    Revokers = {r1}
    Workers = {w1, w2}
    SizeBits = 1
    FillLimit = 1
    MaxShard = 0
    MaxTime = 1
    JitterMax = 1
    Heartbeat = 1
    MaxAttempts = 2
INVARIANT PublishedIsRevoked
PROPERTIES ListsGrow RevokedIsServed
