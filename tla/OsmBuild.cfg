CONSTANT
    Planets <- MCPlanets
    Hash <- MCHash
    BUCKET_COUNT = 2
    VALUES = 2
SPECIFICATION Spec
INVARIANT
    Collected
    BottomUp
    NothingLost
    AreaOfRings
CHECK_DEADLOCK FALSE
