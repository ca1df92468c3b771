SPECIFICATION Spec
CONSTANTS
    Nodes = {a, b}
    NoNode = NoNode
    LeaseTTL = 2
    BaseGrace = 3
    ProbeCeiling = 5
    BackupGrace = 4
    HoldDown = 6
    NotifyTimeout = 3
    ReadyTimeout = 4
    Cold = TRUE
    Fileset = TRUE
    LeaseSource = FALSE
    Disturbances = {"stall"}
PROPERTIES OnlyTheHolderPromotes
