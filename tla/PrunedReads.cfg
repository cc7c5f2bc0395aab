CONSTANTS
    Keys = {k1}
    Values = {v1, v2}
    Hashes = {h1, h2, h3}
    Cursors = {}
    NoValue = NoValue
    NoCursor = NoCursor
    Untouched = Untouched
    MaxBlock = 4
    Retentions = {"window"}
    WindowBlocks = 1
    FinalityDepth = 1
    RevertReach = 1
    PruneBudgets = {1, 9}
SPECIFICATION ReadsSpec
INVARIANT AnsweredReadsExact
