SPECIFICATION FairSpec
CHECK_DEADLOCK FALSE
CONSTANTS
    u1 = u1  u2 = u2  c1 = c1  c2 = c2
    None = None
    Users = {u1, u2}
    Creds = {c1, c2}
    Batches <- OneBadge
    Refs = {r1, r2}
    Badges = {b1, b2}
    Minters = {m1}
    Deleters = {d1}
    MergePairs <- NoMerge
    Backends = {"signet"}
    Faults = TRUE
    LateDelivery = FALSE
    Reversals = FALSE
    HealAttempts = 2
    Attempts = 2
PROPERTY RequestsEnd
