CONSTANTS
    c1 = c1
    c2 = c2
    c3 = c3
    a1 = a1
    a2 = a2
    Threads = {t1, t2}
    Clients = {c1, c2}
    Addresses = {a1}
    AddressOf <- SharedAddress
    MaxConnections = 1
    UseSemaphore = TRUE
    NoClient = NoClient
    NoThread = NoThread
SPECIFICATION FairSpec
INVARIANTS TypeOK PermitsCounted
PROPERTIES GoneIsDropped StopReturns
CHECK_DEADLOCK FALSE
