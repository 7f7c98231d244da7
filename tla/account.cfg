CONSTANTS
    Users = {u1, u2}
    Accounts = {u1, u2}
    Emails = {e1, e2}
    Passkeys = {k1, k2, k3}
    Browsers = {b1, b2}
    Requests = {b1, b2}
    MaxRows = 2
    MaxCodes = 1
    OtpMaxAttempts = 2
    Codes = {c1, c2}
    CodeCount = 1
    Attempts = {a1}
    Types = {t1, t2}
    Weights = {1, 2}
    Thresholds = {2}
    Mails = {1}
    MaxWork = 7
    None = None
    Nobody = Nobody
SPECIFICATION Spec
CONSTRAINT Bound
SYMMETRY Symmetry
INVARIANTS InboxProves OneBootstrap ScoreHonest EntersOnce
CHECK_DEADLOCK FALSE
