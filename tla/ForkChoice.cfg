SPECIFICATION Spec
CONSTANTS
    slots_per_epoch = 12
    SUB_WINDOWS_PER_WINDOW = 2
    SLOTS_PER_SUB_WINDOW = 2
    GRACE_PERIOD_END = 2
    grace_period_end = 7
    Slots = {1, 3, 7, 8, 10, 11, 12, 13, 20, 23, 24, 36}
    Vrfs = {1, 2}
    MaxBlocks = 5
INVARIANTS
    NodesAgree
    ExtensionsTaken
CHECK_DEADLOCK FALSE
