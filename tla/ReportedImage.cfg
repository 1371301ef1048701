SPECIFICATION Spec
CONSTANTS
    Images = {a, b}
    NoImage = NoImage
    HasDeploymentAbort = TRUE
    UserOps = {"image"}
    Faults = {}
    MaxEdits = 1
    MaxFaults = 0
INVARIANTS
    ReportedImageIsDeployed
CHECK_DEADLOCK FALSE
