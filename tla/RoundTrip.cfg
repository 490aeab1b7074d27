CONSTANTS
    g = g
    h = h
    NoStep = NoStep
    Entry = g
    Steps <- Gates_Steps
    Out <- Gates_Out
    Conditional <- Gates_Conditional
    Fallback <- Gates_Fallback
    Mode <- Gates_Mode
    Controls <- NoControls
    MaxParallel = 1
    MaxRequests = 3
    MaxAnswers = 4
    MaxFaults = 0
    Tickets = {t1, t2}
    NoTicket = NoTicket
    Calls = {c1, c2}
    MaxTries = 2
SPECIFICATION RoundTripSpec
SYMMETRY Alike
INVARIANT
    GateBackedByHuman
    AnswersOnRecord
    DecidedOnRecord
    ReviewerIsHeard
CHECK_DEADLOCK FALSE
