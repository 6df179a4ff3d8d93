SPECIFICATION Spec
CONSTANTS
    p1 = p1
    p2 = p2
    NoPrompt = NoPrompt
    Prompts = {p1, p2}
    MaxChunks = 2
INVARIANT CompletedHasExited
CHECK_DEADLOCK FALSE
