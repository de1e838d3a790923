CONSTANTS
    Size <- Growing
    MayIgnoreRange = FALSE
    Faults = {"cut"}
    MaxFaults = 1
    ByHand = {}
    MaxByHand = 0
SPECIFICATION Spec
INVARIANT OneRelease
