SPECIFICATION Spec
CONSTANTS
    Images = {a}
    NoImage = NoImage
    HasDeploymentAbort = TRUE
    UserOps = {"delete"}
    Faults = {"save"}
    MaxEdits = 1
    MaxFaults = 1
INVARIANTS
    NoOrphanedNode
CHECK_DEADLOCK FALSE
