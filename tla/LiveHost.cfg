SPECIFICATION FairSpec
CONSTANTS
    Images = {a}
    NoImage = NoImage
    HasDeploymentAbort = TRUE
    UserOps = {"online", "refresh", "detach", "raid", "bmc"}
    Faults = {"save", "call", "ironic", "database", "slot"}
    MaxEdits = 2
    MaxFaults = 1
PROPERTIES
    PowerConverges
    InspectionRequestServed
    DetachCompletes
CHECK_DEADLOCK FALSE
