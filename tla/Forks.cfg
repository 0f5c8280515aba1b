SPECIFICATION Spec
CONSTANTS
    Blocks <- ForksBlocks
    Genesis = "g"
    Pred <- ForksPred
    Height <- ForksHeight
    Ancestors <- ForksAncestors
    Rank <- ForksRank
    MaxHeight = 12
    K = 3
    Applies <- ForksApplies
    Ledgers = {"G", "L5"}
    GenesisLedger = "G"
    Staking <- AllGenesis
    NextEpoch <- AllGenesis
    Snarked <- ForksSnarked
    Tips = {"a4", "b4", "a5", "b5", "a6"}
    Peers = {p, q}
    Faulty = {q}
    NoBlock = NoBlock
INVARIANTS
    TypeOK
    PendingHasRequest
    NoLostWakeup
    AppliedHaveLedgers
    SyncTargetSound
    PendingQueries
PROPERTIES
    FrontierRefinement
CHECK_DEADLOCK FALSE
