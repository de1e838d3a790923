CONSTANTS
    NoId = "none"
    NumParts <- Parts
    RunIds = {"none", "job", "other"}
    FirstId = "job"
    Replaceable <- Inputs
    MaxRelease = 1
    Disturbances = {"identity"}
    MaxDisturbed = 1
    MaxClock = 60
SPECIFICATION Spec
PROPERTY OnlyManifestReplaced
