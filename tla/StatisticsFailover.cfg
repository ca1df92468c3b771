SPECIFICATION FairStatisticsSpec
CONSTANTS
    Nodes = {a, b}
    NoNode = NoNode
    MaxHours = 3
    Window = 1
    Patience = 1
    Versions = {1}
    MaxTerms = 2
    MaxErrors = 1
    Disturbances = {}
INVARIANTS StatisticsTypeOK StoreIsContiguous
PROPERTIES PromotionKeepsHistory FollowerCatchesUp
CHECK_DEADLOCK FALSE
