SPECIFICATION Spec
CONSTANTS
    Nodes = {a, b}
    NoNode = NoNode
    LeaseTTL = 2
    BaseGrace = 2
    ProbeCeiling = 3
    BackupGrace = 2
    HoldDown = 2
    NotifyTimeout = 2
    ReadyTimeout = 2
    Cold = TRUE
    Fileset = TRUE
    LeaseSource = FALSE
    Disturbances = {"partition", "filefault", "operator", "handover", "lossy", "stall"}
VIEW WithoutHistory
SYMMETRY NodeSymmetry
PROPERTIES ElectionIsALock
