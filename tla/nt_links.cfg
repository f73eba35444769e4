\* Three hosts of a tenant in trouble, and no time that passes.
SPECIFICATION NotifySpec
CONSTANTS
    Hosts = {h1, h2, h3}
    Statuses = {"UNSET", "OK", "ALERT", "CRIT", "STALE"}
    Trouble = {"ALERT", "CRIT", "STALE"}
    Slots = {1, 2, 3}
    Overdue = 0
    Actionable = 0
    MaxRestarts = 0
INVARIANTS TroubleIsListed
CHECK_DEADLOCK FALSE
