CONSTANTS
    MaxMessages = 2
    Limit = 2
    Filters = {f}
    IntervalFrom = 2
    IntervalTo = 3
SPECIFICATION MessagesFairSpec
PROPERTY LiveRefreshes
