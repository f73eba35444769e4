\* A tenant of two hosts and one of none without metadata, records over three
\* days; two settings and three edits, signals or crashes.
SPECIFICATION MCSpec
CONSTANTS
    Tenants = {1, 2}
    HostsOf <- TwoAndNone
    Quota <- FirstHasQuota
    Unreadable = {2}
    DefaultQuota = 1
    MB = 2
    Width = 8
    DayLen = 2
    MaxRecords = 4
    EndTime = 6
    Keys = {"network", "meter"}
    Network = "network"
    ConfValues <- TwoTypes
    Unset = Unset
    MaxDeeds = 3
PROPERTIES CullsOverQuota LeavesWithinQuota RoundEnds SignalsAreObeyed
CHECK_DEADLOCK FALSE
