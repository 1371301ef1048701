SPECIFICATION FairSpec
CONSTANTS
    Images = {a, b}
    NoImage = NoImage
    HasDeploymentAbort = TRUE
    UserOps = {"image", "secret", "delete"}
    Faults = {"save", "call", "ironic", "slot"}
    MaxEdits = 2
    MaxFaults = 1
PROPERTIES
    DeletionCompletes
    ProvisioningCompletes
    CredentialsConverge
    NodeIDRecorded
CHECK_DEADLOCK FALSE
