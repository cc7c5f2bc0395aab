CONSTANTS
    Keys = {k1}
    Values = {v1, v2}
    Hashes = {h1, h2, h3}
    Cursors = {c1}
    NoValue = NoValue
    NoCursor = NoCursor
    Untouched = Untouched
    MaxBlock = 4
    Retentions = {"window", "revert-only", "unbounded"}
    WindowBlocks = 1
    FinalityDepth = 1
    RevertReach = 1
    PruneBudgets = {1, 9}
SPECIFICATION Spec
SYMMETRY Symmetry
INVARIANT StoreSound
PROPERTY ImplementsHistory
