SPECIFICATION FairGoBagSpec
CONSTANTS
    Nodes = {a, b}
    NoNode = NoNode
    Passes = {p}
    Files = {f}
    NoFile = NoFile
    Bodies = {x, y}
    Gone = Gone
    MaxChanges = 1
    MaxMoves = 2
    MaxErrors = 1
    Disturbances = {}
INVARIANTS GoBagTypeOK ManifestFetchable PublisherKnowsTheStore
PROPERTIES StandbyCatchesUp GarbageGoes
CHECK_DEADLOCK FALSE
