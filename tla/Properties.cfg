SPECIFICATION CalmSpec
CONSTANTS
    w1 = w1
    w2 = w2
    Workers <- OneWorker
    Path <- MCPath
    Branches <- MCBranches
    Values <- MCValues
    Modes <- BothModes
    DryRun = FALSE
    Template <- Todo
    Contents <- MCContents
    Settings <- MCSettings
INVARIANTS
    TypeOK
    RightIsLeftAlone
    WritesWhatIsAsked
PROPERTIES SetsWhatIsAsked Converges
