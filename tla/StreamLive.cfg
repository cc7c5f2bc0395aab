CONSTANTS
    Nothing = Nothing
    MaxHeight = 3
    Finality = 1
    StartBlock = 1
    Forks = {2, 3}
    Hash <- MCHash
    Branches <- MCBranches
    LogBearing <- MCLogBearing
    MaxRegress = 0
    Folds = {f1}
    s1 = s1
    s2 = s2
    Senders = {s1, s2}
    MayReturn = FALSE
    TornChunks = FALSE
    Deployments <- MCLiveDeployments
SPECIFICATION FairSpec
PROPERTY CatchesUp
