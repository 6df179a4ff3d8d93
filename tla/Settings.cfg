SPECIFICATION SettingsSpec
CONSTANTS
    a = a
    b = b
    c = c
    t1 = t1
    m1 = m1
    none = none
    Exts = {a, b, c}
    Graphs <- MCGraphs
    Frontends = {a, c}
    Results = {r1}
    Tools = {t1}
    Servers = {a, m1}
    Models = {}
    Customizers = {a, b}
    None = none
    Overrides <- MCOverrides
    EngineTools = {t1}
    EngineDenied = {}
    Known <- MCKnown
INVARIANTS DependenciesAround NothingAfterFailure NeverWidened
PROPERTIES RecoveredReachAll
CHECK_DEADLOCK FALSE
