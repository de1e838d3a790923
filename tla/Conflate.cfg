CONSTANTS
    Worlds <- MCWorlds
    SpiderOrder <- MCSpiderOrder
    Workers = {w1, w2}
    Capacity = 2
    FaultKinds = {"read", "match", "write"}
    MaxFaults = 1
    MIN_NAME_FEATURES = 2
    MAX_NAME_VALUES = 2
    MIN_SWISS_TRANSIT_FEATURES = 2
    Enclaves <- MCEnclaves
    CategoryPairs <- MCCategoryPairs
    Numbers <- MCNumbers
    TrackNumbers = {"1", "2"}
    Padded <- MCPadded
    BatchRows = 2
    Views <- MCViews
    QRank <- MCQRank
SPECIFICATION ProductsSpec
CHECK_DEADLOCK FALSE
INVARIANTS
    OkIsComplete
    Reproducible
    StableAssignment
    KeepsTheBest
    StrongEvidenceWins
    ContradictionsNeverMatch
    SharedEvidenceTellsNothing
    GoneIsJustified
    ImportanceAveragesHalf
    MapOfTheFile
    EditsAgree
PROPERTY
    Terminates
