SPECIFICATION FairSpec
CONSTANTS
    once = once
    daily = daily
    reused = reused
    home = home
    s1 = s1
    s2 = s2
    Jobs = {once, reused}
    OneTime = {once}
    Reuse = {reused}
    Sessions = {home, s1, s2}
    Home = home
    User = User
    Nothing = Nothing
    MaxSessions = 2
    MaxPrompts = 1
    MaxQueued = 1
INVARIANTS OneTimeOnce UserSessionsKept
PROPERTIES CronSessionsEnd DueIsHandled
CHECK_DEADLOCK FALSE
