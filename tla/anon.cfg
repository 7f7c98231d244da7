SPECIFICATION Spec
CHECK_DEADLOCK FALSE
CONSTANTS
    None = None
    u1 = u1
    u2 = u2
    k1 = k1
    k2 = k2
    Users = {u1, u2}
    Devices = {d1, d2}
    Passkeys = {k1, k2}
    PasskeyOf <- Owner
    RelayIds = {s1, s2}
    Persistent = {d1}
    MaxBlobs = 1
    MaxCycles = 2
    MaxEpoch = 2
    MaxRoots = 2
CONSTRAINT Bound
SYMMETRY Symmetry
INVARIANTS NoStaleBranch RootStaysHome KeptIsBackedUp
