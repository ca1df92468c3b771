SPECIFICATION FairSpec
CONSTANTS
    Nodes = {a, b}
    NoNode = NoNode
    LeaseTTL = 2
    BaseGrace = 2
    ProbeCeiling = 3
    BackupGrace = 2
    HoldDown = 2
    NotifyTimeout = 2
    ReadyTimeout = 2
    Cold = TRUE
    Fileset = TRUE
    LeaseSource = FALSE
    Disturbances = {"power", "wedge", "dockerfault"}
VIEW WithoutHistory
PROPERTIES WedgedLeaderLetsGo FreeLeaseIsTaken HolderPromotes StragglerStops
