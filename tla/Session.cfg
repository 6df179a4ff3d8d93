SPECIFICATION FairSpec
CONSTANTS
    p1 = p1
    p2 = p2
    NoPrompt = NoPrompt
    Prompts = {p1, p2}
    MaxChunks = 2
INVARIANTS NoPromptLost OwnOutput OneFinal StateFileFresh
PROPERTIES CleanPaneAtLaunch NothingAfterFinal KeepsPromise EveryPromptAnswered
CHECK_DEADLOCK FALSE
