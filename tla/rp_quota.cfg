\* Three tenants in a row, two of them without metadata: the scale of the code,
\* where the default in bytes passes 64 bits when it is multiplied twice more.
SPECIFICATION MCSpec
CONSTANTS
    Tenants = {1, 2, 3}
    HostsOf <- LastHasHost
    Quota <- FirstHasQuota
    Unreadable = {2, 3}
    DefaultQuota = 1
    MB = 2
    Width = 8
    DayLen = 2
    MaxRecords = 2
    EndTime = 5
    Keys = {"network", "meter"}
    Network = "network"
    ConfValues <- TwoTypes
    Unset = Unset
    MaxDeeds = 1
PROPERTIES DefaultIsKept
CHECK_DEADLOCK FALSE
