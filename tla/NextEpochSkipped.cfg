SPECIFICATION Spec
CONSTANTS
    Blocks <- EpochsBlocks
    Genesis = "g"
    Pred <- EpochsPred
    Height <- EpochsHeight
    Ancestors <- EpochsAncestors
    Rank <- EpochsRank
    MaxHeight = 12
    K = 2
    Applies <- EpochsBlocks
    Ledgers <- EpochsLedgers
    GenesisLedger = "G"
    Staking <- EpochsStaking
    NextEpoch <- EpochsNextEpoch
    Snarked <- EpochsSnarked
    Tips = {"a3", "a6"}
    Peers = {p}
    Faulty = {}
    NoBlock = NoBlock
INVARIANTS
    NextEpochLedgerPresent
CHECK_DEADLOCK FALSE
