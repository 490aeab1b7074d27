CONSTANTS
    i1 = i1
    w1 = w1
    w2 = w2
    Instances <- MCInstances
    Workers <- MCWorkers
    NoEvent = NoEvent
    MaxAttempts = 2
    MaxFaults = 1
SPECIFICATION Spec
INVARIANTS
    NoDualWrite
    DeliveriesHaveClaims
    RetriesBounded
    OutboxInv
PROPERTIES
    GivingUpIsEarned
    EveryEventSettles
    ImplementsDelivery
