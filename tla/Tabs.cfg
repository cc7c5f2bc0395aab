CONSTANTS
    Nothing = Nothing
    a = a
    b = b
    c = c
    Tabs = {a, b, c}
    MaxBlock = 2
    MaxHandles = 3
    Plans <- MCPlans
SPECIFICATION FairSpec
INVARIANTS LeaseKnown ReadersDoNotWrite LeaderHasTheClaim
PROPERTIES WritesContinue ForegroundCatchesUp
