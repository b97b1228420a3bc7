\* One worker, a rule that either of two files satisfies, a repository that may be
\* archived for a while, and everything people and failures can do.
SPECIFICATION CalmSpec
CONSTANTS
    w1 = w1
    w2 = w2
    app = app
    Workers <- OneWorker
    App = app
    Branches <- MCBranches
    NumRules = 2
    Path <- RichPath
    PathsOf <- RichPathsOf
    Target <- RichTarget
    HasTemplate <- BothRules
    RepoInfos <- LiveOrArchived
    SkipForks = TRUE
    SkipArchived = TRUE
    DryRun = FALSE
INVARIANTS TypeOK ViewExact OwnBranchTakesCommits CoveredIsNotMissing
PROPERTIES UncoveredIsMissing SelfHeals
