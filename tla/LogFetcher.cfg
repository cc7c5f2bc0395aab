CONSTANTS
    Nothing = Nothing
    x = x
    y = y
    Senders = {x, y}
    Plans <- MCPlans
    Hash = {}
    MaxHeight = 6
    Finality = 1
    StartBlock = 1
SPECIFICATION FairSpec
INVARIANTS ReceivedWhole StopsOnlyForGood
PROPERTIES CatchesUp
CHECK_DEADLOCK FALSE
