CONSTANTS
    Nothing = Nothing
    MaxHeight = 4
    Finality = 1
    StartBlock = 1
    Forks = {2, 3, 4}
    Hash <- MCHash
    Branches <- MCBranches
    LogBearing <- MCLogBearing
    MaxRegress = 0
    MayReturn = FALSE
    RaceWipe = FALSE
    Plans <- MCPlans
SPECIFICATION FairSpec
INVARIANTS CycleSound NeverRefused
PROPERTIES CycleEndsOnChain CatchesUp
