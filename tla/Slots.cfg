SPECIFICATION CSpec
CONSTANTS
    c1 = c1
    c2 = c2
    c3 = c3
    Calls = {c1, c2, c3}
    Limits = {1, 2}
    MaxInFlight = 2
    Names = {1, 2}
    CronName = 0
    NoCall = NoCall
INVARIANTS SlotsDistinct SlotAvailable NamesDistinct MessageWhereChosen
SYMMETRY CallSymmetry
CHECK_DEADLOCK FALSE
