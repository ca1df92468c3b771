SPECIFICATION HouseSpec
CONSTANTS
    Disturbances = {}
    Layers = {automation}
    MaxCallErrors = 1
    Conditions = {"backend", "ingress", "radio", "degraded", "devices"}
    Chosen = {"backend", "ingress", "radio", "degraded", "devices", "promoted", "recovered"}
    MaxPending = 8
    FailuresBeforeAlarm = 2
    MaxLives = 2
    MaxActs = 2
    MaxFaults = 1
INVARIANTS PhoneAgrees
PROPERTIES OperatorHoldStands HouseStaysPut GateUndoesItsWork
