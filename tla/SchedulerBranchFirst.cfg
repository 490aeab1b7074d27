CONSTANTS
    a = a
    b = b
    c = c
    g = g
    j = j
    f = f
    NoStep = NoStep
    Entry = a
    Steps <- GateFirst_Steps
    Out <- BranchFirst_Out
    Conditional <- GateFirst_Conditional
    Fallback <- GateFirst_Fallback
    Mode <- GateFirst_Mode
    Controls <- NoControls
    MaxParallel = 2
    MaxRequests = 3
    MaxAnswers = 1
    MaxFaults = 0
SPECIFICATION Spec
INVARIANT
    NothingSkipped
CHECK_DEADLOCK FALSE
