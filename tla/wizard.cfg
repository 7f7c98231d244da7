SPECIFICATION Spec
CONSTANTS
    u1 = u1
    u2 = u2
    Users = {u1, u2}
    Creds <- MCCreds
    TlsnPage <- MCPage
    NotaryPinned = TRUE
    NoCred = NoCred
    NoUser = NoUser
    Plugins = {"email-domain", "email-exact", "github", "google", "reddit", "steam", "instagram", "youtube",
               "wallet", "public-key", "hackernews", "dns-txt", "invite-code", "tlsn-attestation"}
    Calls = {k1, k2}
    MaxSessions = 2
    MaxTokens = 2
    InviteTotals = {0, 1}
    Freemail = {"mail"}
CONSTRAINT Bound
SYMMETRY Symmetry
CHECK_DEADLOCK FALSE
INVARIANTS BadgeProven InviteBounded
