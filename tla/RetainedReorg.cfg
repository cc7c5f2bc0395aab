CONSTANTS
    MaxHeight = 6
    Finality = 2
    StartBlock = 1
    Forks = {1, 2, 3, 4, 5}
    Hash <- MCHash
    Branches <- MCBranches
    LogBearing <- MCLogBearing
    MaxRegress = 0
    MinSpan = 3
    MaxSpan = 4
SPECIFICATION RetainedSpec
INVARIANT RevertsWithinRetention
