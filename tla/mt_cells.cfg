\* An agent with a Nagios check.
SPECIFICATION MetersSpec
CONSTANTS
    MaxArray = 2
    MaxMeters = 8
    MeterTimeout = 2
    TooLong = {"muchtoolongname"}
    NoData = NoData
    Outside = Outside
    Nothing = Nothing
    Worlds <- MCNagios
    Watchers <- MCWatchers
    Conf <- MCConf
    Missing = Missing
    StaleAfter = 1
    MaxRestarts = 1
INVARIANTS ValuesFitTheirCells
CHECK_DEADLOCK FALSE
