SPECIFICATION Spec
CONSTANTS
    InitialPrs <- MCInitialPrs
    MaxCommits = 2
    MaxPrs = 2
    MaxMain = 3
    MaxRuns = 2
INVARIANTS PublishInv CompletedMeansDone UndisturbedMergeIsEvaluated PreparedForEachMerge
