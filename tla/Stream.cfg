SPECIFICATION Spec
CONSTANTS
    MaxPieces = 5
    MaxPrompts = 2
    Limit = 4
    MaxFailures = 1
INVARIANTS MessagesInOrder AllShownOnce AnswersApart
CHECK_DEADLOCK FALSE
