CONSTANTS
    Size <- Varying
    MayIgnoreRange = TRUE
    Faults = {"cut", "crash"}
    MaxFaults = 3
    ByHand = {"free", "remove", "drop"}
    MaxByHand = 3
SPECIFICATION FairSpec
INVARIANTS TypeOK MetadataOfPlanet MetadataOfIndex
PROPERTY FetchedUnlessOverlong
