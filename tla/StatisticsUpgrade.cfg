SPECIFICATION FairStatisticsSpec
CONSTANTS
    Nodes = {a, b}
    NoNode = NoNode
    MaxHours = 1
    Window = 1
    Patience = 2
    Versions = {1, 2}
    MaxTerms = 1
    MaxErrors = 0
    Disturbances = {}
PROPERTIES RepairsTellTheTruth
CHECK_DEADLOCK FALSE
