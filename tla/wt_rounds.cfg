\* Two watched meters, none or three matches per watcher; one host and a restart;
\* one address, a ring of two results, sequences of two bits, two receivers.
SPECIFICATION MCSpec
CONSTANTS
    Meters = {"pcpu", "loadavg"}
    HitCounts = {0, 3}
    TenantWatches <- WarningOnly
    Hosts = {h1}
    Statuses = {"UNSET", "OK", "WARN", "ALERT", "CRIT", "STALE"}
    Trouble = {"ALERT", "CRIT", "STALE"}
    Slots = {1}
    Overdue = 2
    Actionable = 4
    MaxRestarts = 1
    RingSize = 2
    SeqWrap = 4
    LowWrap = 2
    Receivers = {r1, r2}
    NoTarget = NoTarget
INVARIANTS ListedStatusIsCurrent
PROPERTIES NoOverreach SettlesOnLevel FirstTroubleReported LossAgrees
CHECK_DEADLOCK FALSE
