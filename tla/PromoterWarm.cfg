SPECIFICATION Spec
CONSTANTS
    Nodes = {a, b}
    NoNode = NoNode
    LeaseTTL = 2
    BaseGrace = 2
    ProbeCeiling = 3
    BackupGrace = 2
    HoldDown = 3
    NotifyTimeout = 3
    ReadyTimeout = 3
    Cold = FALSE
    Fileset = TRUE
    LeaseSource = TRUE
    Disturbances = {"wedge", "power", "hold", "dockerfault"}
VIEW WithoutHistory
SYMMETRY NodeSymmetry
PROPERTIES HoldFreezesRoles HealthyLeaderKeepsLease
