SPECIFICATION Spec
CONSTANTS
    Blocks <- EpochsBlocks
    Genesis = "g"
    Pred <- EpochsPred
    Height <- EpochsHeight
    Ancestors <- EpochsAncestors
    Rank <- EpochsRank
    MaxHeight = 12
    K = 2
    Applies <- EpochsBlocks
    Ledgers <- EpochsLedgers
    GenesisLedger = "G"
    Staking <- EpochsStaking
    NextEpoch <- EpochsNextEpoch
    Snarked <- EpochsSnarked
    Tips = {"a6", "a7", "a8"}
    Peers = {p, q}
    Faulty = {}
    NoBlock = NoBlock
INVARIANTS
    CopyOriginPresent
    ReconstructSucceeds
    CommitRecreatesRoot
    CommitKeepsLedgers
    NextEpochLedgerPresent
CHECK_DEADLOCK FALSE
