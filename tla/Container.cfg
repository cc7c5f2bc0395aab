CONSTANTS
    Nothing = Nothing
    a = a
    b = b
    c = c
    s1 = s1
    s2 = s2
    Generations = {a, b, c}
    Streams = {s1, s2}
    StreamOf <- MCStreamOf
    MaxStreams = 2
    Configs <- MCConfigs
    MaxBlock = 2
    MaxControls = 2
    MaxRestarts = 1
    Racing = FALSE
    Readd = FALSE
    Revert = FALSE
    Overtaken = FALSE
SPECIFICATION FairSpec
INVARIANTS ContainerSound ReadsAdvance OneFetcher
PROPERTIES ReadsNeverGoBack EveryFoldCatchesUp SuccessorIsPromoted
