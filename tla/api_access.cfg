SPECIFICATION Spec
CONSTANTS
    t1 = t1
    t2 = t2
    k1 = k1
    k2 = k2
    Tenants = {t1, t2}
    Hosts = {h1}
    NilUuid = nil
    Times = {"2021-04-01T11:38"}
    Ints = {"43200"}
    OddFields = {"pim@host"}
    Threads = {"web", "cli"}
    CliThread = "cli"
    CliTenant = t1
    Tokens = {k1, k2}
    SessionIds = {s1, s2}
    Worlds <- MCWorlds
    Issued <- MCIssued
    NodeMax = 2
    InvalidMax = 1
    TimeoutValid = 2
    TimeoutInvalid = 1
    SessionIdle = 1
    Revalidate = 1
    MaxStall = 1
    MaxTime = 4
INVARIANTS
    RightsAreGranted
    SessionOutlivesUse
    LockoutIsShort
    AdminIsUnderstood
CHECK_DEADLOCK FALSE
