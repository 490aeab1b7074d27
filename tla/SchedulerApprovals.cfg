CONSTANTS
    a = a
    b = b
    c = c
    g = g
    j = j
    f = f
    NoStep = NoStep
    Entry = a
    Steps <- GateFirst_Steps
    Out <- GateFirst_Out
    Conditional <- GateFirst_Conditional
    Fallback <- GateFirst_Fallback
    Mode <- GateFirst_Mode
    Controls <- NoControls
    MaxParallel = 2
    MaxRequests = 5
    MaxAnswers = 1
    MaxFaults = 2
SPECIFICATION Spec
INVARIANTS
    TypeOK
    GateRespected
    NoDoubleExecution
    NothingSkipped
PROPERTIES
    ImplementsLifecycle
CHECK_DEADLOCK FALSE
