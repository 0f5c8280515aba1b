CONSTANTS
    MaxMessages = 3
    Limit = 2
    Filters = {f}
    IntervalFrom = 2
    IntervalTo = 3
    Rows = {r1, r2}
    NoRow = NoRow
SPECIFICATION PageSpec
INVARIANTS
    StreamMirrored
    TableSound
    PanelFills
