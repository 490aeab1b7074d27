CONSTANTS
    MaxWorkspaces = 1
    MaxEnvironments = 2
    HierarchyRequests = {1, 2}
    PageSize = 1
    QuotaCalls = {1, 2, 3}
    QuotaAmounts = {1, 2}
    QuotaLimits = {0, 2, 3}
    QuotaWindows = {1, 2}
    Allocations = {a1, a2}
    Reviews = {v1, v2}
    Capacities = {10, 12, 14}
    AutoPercent = 20
    UnitPrices <- Prices
    BillingCalls = {1, 2, 3}
    MaxUsage = 1
    Packs = {1, 2}
    PackWorkers = {w1, w2}
    PackMaxAttempts = 2
    MaxPackFaults = 1
    MaxClaims = 3
    Payloads = {"a", "b"}
    ChainWriters = {u1, u2, u3, u4}
    MaxDamages = 1
    Callers = {k1, k2}
    TopScore = 3
    TripBelow = 2
    MaxRetries = 1
    MaxOutages = 1
    SecretCalls = {s1, s2, s3}
    Creator = s0
    ChatCalls = {"x1", "x2"}
    MaxRefusals = 2
    Deployments = {d1, d2}
    RolloutCalls = {l1, l2, l3}
    NoDeployment = none
SPECIFICATION ServicesSpec
INVARIANT
    DeletionReachesAll
    AllowedWithinLimit
    AllocationDecidedOnce
    PolicyFollowsReviewer
    InvoiceIsOneMetering
    LinesAddUp
    PackFailureIsEarned
    ChainVerifies
    NoAppendRefused
    DamageShows
    CurrentIsStored
    LastRotationServed
    HandedOffHasEvent
    RefusalsHandOff
    EscalationsAnswered
    OneActive
PROPERTY
    DeletedStaysDeleted
    LeaseKeepsApart
    EveryPackSettles
    BreakerRecovers
CHECK_DEADLOCK FALSE
