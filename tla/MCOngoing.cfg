SPECIFICATION Spec
CONSTANTS
    PRs <- TwoPulls
    Skipped = {}
    Updaters = {u1, u2}
    Backloaders = {}
    PageSize = 1
    MaxTime = 3
    FailLimit = 1
SYMMETRY UpdaterSymmetry
INVARIANT OldAreHandled
CHECK_DEADLOCK FALSE
