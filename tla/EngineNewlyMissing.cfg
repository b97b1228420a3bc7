SPECIFICATION GentleSpec
CONSTANTS
    w1 = w1
    w2 = w2
    app = app
    Workers <- OneWorker
    App = app
    Branches <- MCBranches
    NumRules = 2
    Path <- PlainPath
    PathsOf <- PlainPathsOf
    Target <- PlainTarget
    HasTemplate <- BothRules
    RepoInfos <- LiveOnly
    SkipForks = TRUE
    SkipArchived = TRUE
    DryRun = FALSE
PROPERTY NewlyMissingIsAdded
