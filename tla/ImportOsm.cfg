CONSTANTS
    File <- OsmFile
    Source <- Pbf
    NumStages <- OsmNumStages
    In <- OsmIn
    Timed <- OsmTimed
    Out <- OsmOut
    Faults = {"crash", "read", "write"}
    MaxFaults = 2
    MaxInstalls = 3
    MaxClock = 60
    ByHand = {"replace", "remove"}
SPECIFICATION FairSpec
INVARIANTS ReturnedFresh StagesFresh NoPartialFile
PROPERTIES SettledStays EventuallyReturned
