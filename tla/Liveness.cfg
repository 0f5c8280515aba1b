SPECIFICATION FairSpec
CONSTANTS
    Blocks <- SmallForksBlocks
    Genesis = "g"
    Pred <- SmallForksPred
    Height <- SmallForksHeight
    Ancestors <- SmallForksAncestors
    Rank <- SmallForksRank
    MaxHeight = 12
    K = 3
    Applies <- SmallForksApplies
    Ledgers = {"G", "L4"}
    GenesisLedger = "G"
    Staking <- AllGenesis
    NextEpoch <- AllGenesis
    Snarked <- SmallForksSnarked
    Tips = {"a4", "b4", "a5"}
    Peers = {p, f}
    Faulty = {f}
    NoBlock = NoBlock
PROPERTIES
    SyncCompletes
CHECK_DEADLOCK FALSE
