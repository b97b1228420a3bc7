SPECIFICATION MergingSpec
CONSTANTS
    w1 = w1
    w2 = w2
    Workers <- OneWorker
    Path <- MCPath
    Branches <- MCBranches
    Values <- MCValues
    Modes <- GHAOnly
    DryRun = FALSE
    Template <- Todo
    Contents <- MCContents
    Settings <- MCSettings
PROPERTY ProposesNewValues
