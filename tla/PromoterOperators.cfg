SPECIFICATION Spec
CONSTANTS
    Nodes = {a, b}
    NoNode = NoNode
    LeaseTTL = 2
    BaseGrace = 2
    ProbeCeiling = 3
    BackupGrace = 2
    HoldDown = 3
    NotifyTimeout = 2
    ReadyTimeout = 2
    Cold = TRUE
    Fileset = TRUE
    LeaseSource = FALSE
    Disturbances = {"hold", "force", "notefault", "adopt", "lossy"}
SYMMETRY NodeSymmetry
PROPERTIES HolddownHonoured HoldFreezesRoles OnlyTheHolderPromotes ElectionIsALock
