SPECIFICATION FairSpec
CONSTANTS
    Packaged = {"qrank"}
    Derived <- AtpFiles
    ByHand <- HandFiles
    MaxRelease <- Releases
    MaxStaleness = 1
    MaxFaults = 1
    MaxByHand = 2
    MaxClock = 12
INVARIANTS Described ParquetIntact
PROPERTIES SettledStays EventuallyImported FetchedOnce
