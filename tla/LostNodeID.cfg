SPECIFICATION FairSpec
CONSTANTS
    Images = {a}
    NoImage = NoImage
    HasDeploymentAbort = TRUE
    UserOps = {"delete"}
    Faults = {"save", "database"}
    MaxEdits = 1
    MaxFaults = 2
PROPERTIES
    NodeIDRecorded
CHECK_DEADLOCK FALSE
