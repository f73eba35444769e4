\* Two lives of the agent, a collector that may stop once, late datagrams.
\* Five agents' reports; lists of two, eight meters, a timeout of two minutes.
SPECIFICATION MCSpec
CONSTANTS
    Lives = 2
    Window = 2
    ExpireAfter = 3
    RotateAfter = 2
    SlowEvery = 3
    FastEvery = 2
    StartDelay = 1
    SerialsPerTick = 3
    SerialMod = 1000
    WrapZone = 8
    Skew = 0
    MaxLate = 0
    MaxDelay = 3
    MaxCrashes = 1
    StartTime = 3
    EndTime = 8
    MaxArray = 2
    MaxMeters = 8
    MeterTimeout = 2
    TooLong = {"muchtoolongname"}
    NoData = NoData
    Outside = Outside
    Nothing = Nothing
    Worlds <- MCWorlds
    Watchers <- MCWatchers
    Conf <- MCConf
    Missing = Missing
    StaleAfter = 1
    MaxRestarts = 1
INVARIANTS NextSerialIsNew KeyIsNewest ReadersStayInside
PROPERTIES
    MeterInOrder
    ShowsWhatWasReported ProblemsAreReal SummaryIsOfOneRound
CHECK_DEADLOCK FALSE
