SPECIFICATION AloneSpec
CONSTANTS
    w1 = w1
    w2 = w2
    app = app
    Workers <- TwoWorkers
    App = app
    Branches <- MCBranches
    NumRules = 2
    Path <- PlainPath
    PathsOf <- PlainPathsOf
    Target <- PlainTarget
    HasTemplate <- BothRules
    RepoInfos <- LiveOrArchived
    SkipForks = TRUE
    SkipArchived = TRUE
    DryRun = FALSE
PROPERTY NeverClosesOwnPR
