CONSTANTS
    i1 = i1
    w1 = w1
    w2 = w2
    Instances <- MCInstances
    Workers <- MCWorkers
    NoEvent = NoEvent
    MaxAttempts = 2
    MaxFaults = 0
SPECIFICATION Spec
INVARIANT
    ExhaustedIsNotRetried
