SPECIFICATION Spec
CHECK_DEADLOCK FALSE
CONSTANTS
    None = None
    Users = {u1, u2}
    GroupIds = {g1}
    Slugs = {acme}
    MaxOwned = 1
    Anchors = {m1, m2, m3}
    Clients = {c1}
    Disclosers = {d1, d2}
    Revokers = {r1, r2}
    Workers = {}
    SizeBits = 2
    FillLimit = 2
    MaxShard = 1
    MaxTime = 0
    JitterMax = 0
    Heartbeat = 1
    MaxAttempts = 2
CONSTRAINT Bound
SYMMETRY Symmetry
INVARIANTS HeldIsRevoked RevokedWhenGone
