SPECIFICATION Spec
CONSTANTS
    Absent = Absent
    Torn = Torn
    Null = Null
    Meters = {"pkts"}
    Defaults <- MCDefaults
    Users = {"admin", "ann"}
    Values = {1, 2}
    Threads = {"a", "b"}
    Collector = "collector"
    Worlds <- MCWorlds
PROPERTIES
    RequestsAreAtomic
    OverviewHeals
CHECK_DEADLOCK FALSE
