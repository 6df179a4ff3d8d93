SPECIFICATION Spec
CONSTANTS
    p1 = p1
    p2 = p2
    j1 = j1
    j2 = j2
    Processes = {p1, p2}
    Jobs = {j1, j2}
    NoJob = NoJob
    MaxVersion = 2
INVARIANTS StoredIsFound
CHECK_DEADLOCK FALSE
