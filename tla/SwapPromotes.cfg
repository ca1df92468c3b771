SPECIFICATION FairSwapSpec
CONSTANTS
    Others = {d1}
    MaxGen = 2
    Topologies = {TRUE, FALSE}
    Disturbances = {"failures", "stopfault", "mvfault"}
INVARIANTS SwapTypeOK NeverRunsAsThePeer HoldsItsFiles MarkerTellsTheTree ListsItsOwnHardware
PROPERTIES PromotionReachesTheStart
CHECK_DEADLOCK FALSE
