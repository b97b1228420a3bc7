SPECIFICATION RaceSpec
CONSTANTS
    w1 = w1
    w2 = w2
    Workers <- TwoWorkers
    Path <- MCPath
    Branches <- MCBranches
    Values <- MCValues
    Modes <- BothModes
    DryRun = FALSE
    Template <- Todo
    Contents <- MCContents
    Settings <- MCSettings
INVARIANTS
    DeletesOnlyStale
    OffersWhatItRead
SYMMETRY SymWorkers
