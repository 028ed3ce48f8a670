SPECIFICATION Spec
CONSTANTS
    InitialPrs <- MCInitialPrs
    MaxCommits = 3
    MaxPrs = 2
    MaxMain = 2
    MaxRuns = 3
INVARIANT MergedHeadIsEvaluated
