CONSTANTS
    Source = "planet"
    Writer <- prune_ways_Writer
    Worker = {w1, w2}
    Feeder = {c, r}
    FeedsTo <- prune_ways_FeedsTo
    FeedSize = 1
    Blobs <- prune_ways_Blobs
    Capacity = 1
    Faults = {"crash", "read", "write"}
    MaxFaults = 2
    MaxInstalls = 1
    MaxClock = 8
    rel_member_collector = c
    rel_strings_reader = r
SPECIFICATION FairSpec
INVARIANT TypeOK
PROPERTIES OkMeansAll ImplementsMemo Terminates
