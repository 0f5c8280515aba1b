\* The work pool, the scan state, the actions, the pool, the wallets, the dashboard, the
\* node picker and the menu, each in a session of its own.
CONSTANTS
    Sessions <- MCSessions
    RustNodes = {1, 2}
    isDesktop = TRUE
    WorkPoolAnswers <- MCWorkPoolAnswers
    SnarkerOf <- MCSnarkerOf
    Heights = {1, 2}
    ScanStates <- MCScanStates
    Snarkers = {"a", "b"}
    Slots = {1, 2}
    ActionsAnswers <- MCActionsAnswers
    SearchWords = {"Channels"}
    WALLETS = {1, 2}
    AccountsAnswers <- MCAccountsAnswers
    Batches <- MCBatches
    PoolAnswers <- MCPoolAnswers
    PoolSearches = {"x"}
    AppConfigs <- MCAppConfigs
    NewNodes = {3, 4}
    StoredNodes <- MCStoredNodes
    NodeName <- MCNodeName
    NodeFeatures <- MCNodeFeatures
    SyncPhases = {"Bootstrap", "Synced"}
    MaxCustom = 2
    SyncTips <- MCSyncTips
    OneBillion = 1
    PeersAnswers <- MCPeersAnswers
    ProgressAnswers <- MCProgressAnswers
    FrontierLength = 2
SPECIFICATION ToolPagesSpec
INVARIANTS
    SnarksSound
    ActionsSound
    WalletsSound
    MempoolSound
    FrameSound
PROPERTY
    StatusCatchesUp
