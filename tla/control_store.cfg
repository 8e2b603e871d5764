SPECIFICATION BoundedFairSpec
CONSTANTS
    Backends = {"sqlite", "postgres"}
    Pods = {p1, p2, p3}
    r3 = r3
    p1 = p1
    p2 = p2
    p3 = p3
    Requests = {r1, r2, r3}
    Hardware = {"esp-a", "seed-1", "seed-2"}
    HardwareOf <- MCHardwareOf
    Prefix <- MCPrefix
    EnvAllowlists <- MCEnvAllowlists
    EnvTokens <- MCEnvTokens
    Seeds <- MCSeeds
    SeedHardware <- MCSeedHardware
    MaxAttempts = 2
    MaxStarts = 3
    NoRow = NoRow
CHECK_DEADLOCK FALSE
INVARIANTS
    ToldIsStored
    IdentityIsStable
PROPERTIES
    EveryRequestEnds
