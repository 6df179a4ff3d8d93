SPECIFICATION FairSpec
CONSTANTS
    q1 = q1
    q2 = q2
    Questions = {q1, q2}
    NoRequest = NoRequest
    Timeout = 1
    Slack = 1
    DeliverBound = 2
    MaxRestarts = 1
INVARIANTS AnswerReachesClaude StopEndsQuestions OneOpenQuestion
CHECK_DEADLOCK FALSE
