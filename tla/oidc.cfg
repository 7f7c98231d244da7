SPECIFICATION Spec
CHECK_DEADLOCK FALSE
CONSTANTS
    u1 = u1  u2 = u2  c1 = c1  c2 = c2  b1 = b1  b2 = b2  b3 = b3
    h1 = h1  h2 = h2  j1 = j1  j2 = j2  k1 = k1  k2 = k2
    name = name  badgeScope = badgeScope  profileScope = profileScope
    None = None
    Users = {u1, u2}
    Clients = {c1, c2}
    Items = {b1, b2, name}
    Badges = {b1, b2}
    NameClaim = name
    ScopeOf <- MCScopeOf
    Configs <- OneConfig
    Requests <- AllRequests
    BadgeOwner0 <- MCBadgeOwner
    Codes = {k1, k2}
    Jtis = {j1, j2}
    Tabs = {t1}
    Handlers = {h1, h2}
    MergePairs <- OneMerge
    AdminOps <- MCAdminOps
CONSTRAINT Bound
SYMMETRY RequestSymmetry
INVARIANTS TypeOK CodeSingleUse TokenFollowsConsent PersonaAuthoritative
           ConsentBound
PROPERTIES RevocationFinal ImplementsPromise
