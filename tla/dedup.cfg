SPECIFICATION Spec
CHECK_DEADLOCK FALSE
CONSTANTS
    u1 = u1  u2 = u2  c1 = c1  c2 = c2
    None = None
    Users = {u1, u2}
    Creds = {c1, c2}
    Batches <- MixedBatches
    Refs = {r1, r2}
    Badges = {b1, b2, b3}
    Minters = {m1, m2}
    Deleters = {d1}
    MergePairs <- EitherMerge
    Backends = {"interim", "signet"}
    Faults = TRUE
    LateDelivery = TRUE
    Reversals = TRUE
    HealAttempts = 2
    Attempts = 1
CONSTRAINT Bound
SYMMETRY Symmetry
INVARIANTS BadgeAnchored OneAccountPerCredential
