SPECIFICATION Spec
CONSTANTS
    once = once
    daily = daily
    reused = reused
    home = home
    s1 = s1
    s2 = s2
    Jobs = {once, daily}
    OneTime = {once}
    Reuse = {}
    Sessions = {home, s1, s2}
    Home = home
    User = User
    Nothing = Nothing
    MaxSessions = 2
    MaxPrompts = 1
    MaxQueued = 1
INVARIANT DeferredIsRetried
CHECK_DEADLOCK FALSE
