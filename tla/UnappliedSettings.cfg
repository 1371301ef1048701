SPECIFICATION Spec
CONSTANTS
    Images = {a}
    NoImage = NoImage
    HasDeploymentAbort = TRUE
    UserOps = {"raid", "secret"}
    Faults = {"ironic"}
    MaxEdits = 2
    MaxFaults = 1
INVARIANTS
    FailedCleaningIsRepeated
CHECK_DEADLOCK FALSE
