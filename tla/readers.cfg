SPECIFICATION AllSpec
CHECK_DEADLOCK FALSE
CONSTANTS
    Null = Null
    Users = {"u1", "u2"}
    BadgeIds = {1, 2, 3, 4, 5}
    OwnerOf <- MCOwnerOf
    TypeOf <- MCTypeOf
    AttrOf <- MCAttrOf
    Lifetime <- MCLifetime
    MaxClock = 2
    Policies <- MCPolicies
    ScopeTypes = {"oauth", "age18", "age21"}
    MaxAtLeastN = 3
    MaxNodeChildren = 3
    MaxPolicyNodes = 6
    MaxPolicyDepth = 3
    Month = 2
    Holder = "u1"
    WeightRows <- MCWeightRows
    Star = "*"
    FamilyOf <- MCFamilyOf
    Categories = {"social", "human"}
    InitialWeight <- MCInitialWeight
    InitialCategory <- MCInitialCategory
    WeightChoices = {3, 9}
    CapChoices = {7, 16}
    CutoffChoices <- MCCutoffChoices
    QualifyAt = 8
    ConfigTtl = 1
    Allowlists <- MCAllowlists
    CohortNum <- MCCohortNum
    CohortDen <- MCCohortDen
    RangeLowers = {0, 1, 3}
    SuppressionK = 1
    StatsInterval = 1
    LinkIds = {"l1"}
    Ttls = {1}
    RevocableTypes = {"age21"}
    Viewers = {"home", "cafe"}
    SessionOf <- MCSessionOf
    Addresses = {"c1", "c2", "p"}
    Clients = {"c1", "c2"}
    Absent = Absent
    Headers = {Absent, "c2"}
    Forged <- MCForged
    Proxy = "p"
    Deployments <- MCDeployments
    Window = 3
    MaxHits = 2
    SweepThreshold = 1
    MaxTime = 4
CONSTRAINT Bound
INVARIANTS MatchingIsMaximum NoFalseGap MoreBadgesNeverLower
           NoStalePage WindowHonoured
PROPERTIES OneMinimalSet PublicHides
