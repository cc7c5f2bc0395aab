CONSTANTS
    MaxHeight = 8
    Finality = 2
    StartBlock = 1
    Forks = {1, 2, 3, 4, 5, 6, 7}
    Quiet <- MCQuiet
    Hash <- MCHash
    Branches <- MCBranches
    LogBearing <- MCLogBearing
    MaxRegress = 0
    MinSpan = 3
    MaxSpan = 4
SPECIFICATION FairSpec
INVARIANTS TypeOK WindowComplete SettledMatchesChain NothingDeliveredTwice RevertIsExact
PROPERTIES CycleMatchesChain CatchesUp
