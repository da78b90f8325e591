SPECIFICATION FairSpec
CONSTANTS
    PRs <- TwoPulls
    Skipped = {1}
    Updaters = {u1}
    Backloaders = {b1}
    PageSize = 1
    MaxTime = 2
    FailLimit = 0
INVARIANT BackloadIsComplete
PROPERTY MergedAreHandled
CHECK_DEADLOCK FALSE
