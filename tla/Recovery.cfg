SPECIFICATION RFairSpec
CONSTANTS
    p1 = p1
    p2 = p2
    NoPrompt = NoPrompt
    Prompts = {p1, p2}
    MaxChunks = 1
    MaxFaults = 2
INVARIANTS SessionIdUsedOnce StateFileSurvives OneFinalAcrossRestarts
PROPERTY BusyEndsAcrossRestarts
CHECK_DEADLOCK FALSE
