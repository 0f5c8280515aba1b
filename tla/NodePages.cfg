\* The pages Overview, Bootstrap and Live of the section Nodes, Overview and Won
\* Slots of the section Block Production, the memory and the fuzzing reports.
CONSTANTS
    Sessions <- MCSessions
    RustNodes = {1, 2}
    ConfigNodes <- MCConfigNodes
    CustomNodes <- MCCustomNodes
    SyncTips <- MCSyncTips
    OneBillion = 2
    isDesktop = TRUE
    FullFrontier = 2
    LastEpoch = 1
    SLOTS_PER_EPOCH = 2
    SlotAnswers <- MCSlotAnswers
    EpochFilters = {"canonical"}
    WonAnswers <- MCWonAnswers
    WonUrls = {2, 3}
    WonFilters = {"accepted"}
    SlotMillis = 1
    Granularities = {512, 1024}
    TreemapViews = {"BINARY", "SLICE"}
    stored <- MCStored
    ProfilerTrees <- MCProfilerTrees
    DirectoriesAnswers <- MCDirectoriesAnswers
    FilesOf <- MCFilesOf
    LineCounters <- MCLineCounters
    FuzzingSearches = {"x"}
SPECIFICATION NodePagesSpec
INVARIANTS
    NodeSelectionsSound
    LedgersInOrder
    NodeRequestsSound
    EpochSound
    WonSound
    ReportsSound
