SPECIFICATION Spec
CONSTANTS
    Images = {a}
    NoImage = NoImage
    HasDeploymentAbort = FALSE
    UserOps = {"detach", "ext", "image", "delete"}
    Faults = {"save", "call", "ironic", "database", "slot"}
    MaxEdits = 2
    MaxFaults = 2
INVARIANTS
    TypeOK
    NodeReleased
PROPERTIES
    WorkloadUntouched
CHECK_DEADLOCK FALSE
