CONSTANTS
    File <- OsmFile
    Source <- Pbf
    NumStages <- OsmNumStages
    In <- OsmIn
    Timed <- OsmTimed
    Out <- OsmOut
    Faults = {"read"}
    MaxFaults = 1
    MaxInstalls = 1
    MaxClock = 60
    ByHand = {}
SPECIFICATION Spec
INVARIANT ReturnedWhole
