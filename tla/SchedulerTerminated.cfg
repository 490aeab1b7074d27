CONSTANTS
    a = a
    b = b
    c = c
    g = g
    j = j
    f = f
    NoStep = NoStep
    Entry = a
    Steps <- Chain_Steps
    Out <- Chain_Out
    Conditional <- Chain_Conditional
    Fallback <- Chain_Fallback
    Mode <- Chain_Mode
    Controls <- AllControls
    MaxParallel = 1
    MaxRequests = 3
    MaxAnswers = 2
    MaxFaults = 0
SPECIFICATION Spec
PROPERTY
    TerminatedIsFinal
CHECK_DEADLOCK FALSE
