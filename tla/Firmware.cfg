SPECIFICATION MCSpec
CONSTANTS
    Values = {a, b}
    FirstValue = a
    Updates = {u}
    Invalid = bad
    UserOps = {"settings", "components", "config", "policy", "reboot"}
    MaxEdits = 2
    MaxFaults = 1
    MaxFailures = 1
INVARIANTS
    OnlyValidFirmware
    RecordedUpdatesWereSent
    RecordedUpdatesArrive
PROPERTIES
    ComponentsEventuallyObserved
    UpdatesEventuallyFlashed
    RebootCompletes
CHECK_DEADLOCK FALSE
