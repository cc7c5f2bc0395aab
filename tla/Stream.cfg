CONSTANTS
    Nothing = Nothing
    MaxHeight = 4
    Finality = 1
    StartBlock = 1
    Forks = {2, 3}
    Hash <- MCHash
    Branches <- MCBranches
    LogBearing <- MCLogBearing
    MaxRegress = 0
    Folds = {f1}
    s1 = s1
    s2 = s2
    Senders = {s1, s2}
    MayReturn = FALSE
    TornChunks = FALSE
    Deployments <- MCDeployments
SPECIFICATION Spec
INVARIANTS StreamSound StreamIsHistory LevelFoldIsStream FoldSound
