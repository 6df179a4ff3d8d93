SPECIFICATION Spec
CONSTANTS
    a = a
    b = b
    k1 = k1
    k2 = k2
    v1 = v1
    w1 = w1
    w2 = w2
    Procs = {a, b}
    Keys = {k1, k2}
    Values = {v1}
    Passphrases = {w1, w2}
    NoValue = NoValue
    NoTier = NoTier
    NoProc = NoProc
    NoSalt = NoSalt
    NoKey = NoKey
    NoOp = NoOp
    MaxCrashes = 1
    LoneFirstStart = TRUE
PROPERTIES KeepsVaultMap SealIsKept ListsOneMoment
CHECK_DEADLOCK FALSE
