CONSTANTS
    Size <- Growing
    MayIgnoreRange = FALSE
    Faults = {"crash"}
    MaxFaults = 1
    ByHand = {}
    MaxByHand = 0
SPECIFICATION FairSpec
PROPERTY EventuallyFetched
