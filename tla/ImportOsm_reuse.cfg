CONSTANTS
    File <- OsmFile
    Source <- Pbf
    NumStages <- OsmNumStages
    In <- OsmIn
    Timed <- OsmTimed
    Out <- OsmOut
    Faults = {"crash"}
    MaxFaults = 1
    MaxInstalls = 2
    MaxClock = 60
    ByHand = {"replace"}
SPECIFICATION Spec
INVARIANT ReusedAllFresh
