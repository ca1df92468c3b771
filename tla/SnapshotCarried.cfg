SPECIFICATION FairSnapshotSpec
CONSTANTS
    Nodes = {a, b}
    NoNode = NoNode
    Entities = {e}
    MaxChanges = 2
    Slots = {s}
    Cold = TRUE
    Disturbances = {}
INVARIANTS SnapshotTypeOK CleanMeansWritten PublishedStateSurvives
PROPERTIES ChangesReachTheStore
