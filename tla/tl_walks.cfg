\* Two hosts, of one tenant or of one each, and objects for one removal and
\* return.
SPECIFICATION Spec
CONSTANTS
    NTenants = 2
    Hosts = {h1, h2}
    TenantMaps <- EitherWay
    MaxObjects = 3
    MaxTries = 2
    WriterFirst = FALSE
SYMMETRY HostSymmetry
INVARIANTS NoDeadlock IdleHoldsNothing WalksStayAlive
CHECK_DEADLOCK FALSE
