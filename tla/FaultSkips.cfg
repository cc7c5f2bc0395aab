CONSTANTS
    Nothing = Nothing
    MaxHeight = 4
    Finality = 1
    StartBlock = 1
    Forks = {2}
    Hash <- MCHash
    Branches <- MCBranches
    LogBearing <- MCDense
    MaxRegress = 0
    MayReturn = FALSE
    RaceWipe = FALSE
    Plans <- MCFaultPlan
SPECIFICATION Spec
INVARIANT NothingSkipped
