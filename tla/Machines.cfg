SPECIFICATION MCSpec
CONSTANTS
    c1 = c1
    c2 = c2
    h1 = h1
    h2 = h2
    h3 = h3
    h4 = h4
    s1 = s1
    s2 = s2
    a = a
    BadRegexp = BadRegexp
    NoHost = NoHost
    Nobody = Nobody
    Other = Other
    AnyNamespace = AnyNamespace
    NoConfig = NoConfig
    NoUrl = NoUrl
    Claims = {c1, c2}
    Hosts = {h1, h2}
    Labels = {"zone"}
    HostNamespace <- MCHostNamespace
    ClaimSpec <- MCClaimSpec
    PolicySets <- MCPolicySets
    MaxHostEdits = 2
    MaxLost = 1
    WantedSpecs <- MCWantedSpecs
    SupportedFormats = {"iso"}
    Unsupported = "other"
    Unbuildable = "bad"
    MaxImageEdits = 2
    MaxImageFaults = 1
    Urls = {a, b}
    DataOps = {"url", "delete", "reboot", "pause", "detach", "host"}
    MaxDataEdits = 2
    MaxDataFaults = 1
    MaxSubEdits = 2
    MaxSubFaults = 2
    SharingHosts = {h1, h2}
    Uses = {"bmc", "network"}
    MaxSecretEdits = 3
    MaxSecretFaults = 1
    Switches = {s1, s2}
    SwitchWorkers = 2
    MaxSwitchEdits = 1
    MaxSwitchFaults = 1
    BusyHosts = {h1, h2, h3, h4}
    VirtualMedia = {h4}
    MaxBusyHosts = 1
    HostWorkers = 2
    MaxJobs = 1
    HeaderChoices = {FALSE}
    Foci = {"data", "switch", "capacity"}
INVARIANTS
    BusyBound
PROPERTIES
    PowerOnWithSettledDrive
    HostPowersOn
    DataImageDeletionEnds
    ConditionsConverge
    ConfigConverges
    DelayedHostsProceed
CHECK_DEADLOCK FALSE
