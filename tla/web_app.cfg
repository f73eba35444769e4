\* The page: two hosts of one tenant; two tries; three things that happen.
\* The ring: three slots, traffic that never fills them, every wrap of both
\* cursors, failed receives at any place and a consumer that wakes up
\* spuriously.
SPECIFICATION MCSpec
CONSTANTS
    Hosts = {h1, h2}
    TenantOf <- OneTenant
    OwnTenant = "t1"
    None = None
    ModuleCount = 2
    MaxRetry = 2
    MaxEvents = 3
    QCount = 3
    MaxBacklog = 2
    MaxEntries = 6
    MaxErrors = 1
    MaxSpurious = 1
CONSTRAINT SpinBound
INVARIANTS NoLostWakeup
PROPERTIES PageSettles InOrderOnce EveryEntryTaken
CHECK_DEADLOCK FALSE
