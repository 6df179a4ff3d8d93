SPECIFICATION Spec
CONSTANTS
    Servers <- MCServers
    Clients = {c1}
    Inodes = {1, 2}
    MaxCalls = 2
    Tools = {t1, t2}
    Self = vault
    Other = other
INVARIANTS OwnAnswer OncePerServer
PROPERTIES NoSpuriousFailure EveryCallAnswered
CHECK_DEADLOCK FALSE
