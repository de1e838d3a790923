CONSTANTS
    NoId = "none"
    NumParts <- Parts
    RunIds = {"none", "job", "other"}
    FirstId = "job"
    Replaceable <- Inputs
    MaxRelease = 2
    Disturbances = {"crash", "step", "rows", "upload", "replace", "volume", "identity", "unset"}
    MaxDisturbed = 2
    MaxClock = 60
SPECIFICATION FairSpec
INVARIANTS ManifestResolves ManifestDescribes OneRunPerDirectory
PROPERTIES NeverRetracts PublishedStays EventuallyDone
