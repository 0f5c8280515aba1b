SPECIFICATION FairSpec
CONSTANTS
    slots_per_epoch = 12
    SUB_WINDOWS_PER_WINDOW = 2
    SLOTS_PER_SUB_WINDOW = 2
    GRACE_PERIOD_END = 2
    grace_period_end = 7
    Blocks <- BranchesBlocks
    Genesis = "g"
    CS <- BranchesCS
    Pred <- BranchesPred
    WellFormed = {"g", "a2", "a3", "b2", "x3"}
    ValidProof = {"g", "a2", "a3", "b2", "y2"}
    Applies = {"g", "a2", "a3"}
    Delta = 0
    Times = {1, 3, 4}
    CounterSize = 3
    NoBlock = NoBlock
INVARIANTS
    TypeOK
    PendingHasJob
    AnswersReachJob
    OnlyValidTargets
    WorstToBest
PROPERTIES
    NothingBetterLost
    BestBlockReached
CHECK_DEADLOCK FALSE
