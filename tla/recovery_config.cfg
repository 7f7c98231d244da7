SPECIFICATION RcSpec
CHECK_DEADLOCK FALSE
CONSTANTS
    plain = plain
    tlsn = tlsn
    Null = Null
    Rows = {plain, tlsn}
    SoloRows = {tlsn}
    Admins = {a1, a2}
    Runs = {t1}
    WeightMax = 2
    ThresholdMin = 2
    ThresholdMax = 3
    WeakenDelay = 2
    AttemptTTL = 1
    SeedWeight <- MCSeedWeight
    MaxTime = 3
SYMMETRY MCSymmetry
INVARIANTS SoloBlocked NoSoloEntry
PROPERTIES NeverEasierAtOnce
