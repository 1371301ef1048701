SPECIFICATION MCSpec
CONSTANTS
    Images = {a, b}
    NoImage = NoImage
    HasDeploymentAbort = TRUE
    UserOps = {"image", "delete"}
    Faults = {"save", "call", "ironic", "database", "slot"}
    MaxEdits = 2
    MaxFaults = 2
INVARIANTS
    AvailableHostIsClean
    SettingsAppliedUndisturbed
PROPERTIES
    ImplementsLifecycle
    DeprovisioningErases
CHECK_DEADLOCK FALSE
