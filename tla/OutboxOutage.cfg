CONSTANTS
    i1 = i1
    w1 = w1
    w2 = w2
    Instances <- MCInstances
    Workers <- MCOneWorker
    NoEvent = NoEvent
    MaxAttempts = 2
    MaxFaults = 0
SPECIFICATION Spec
PROPERTY
    BacklogDrains
