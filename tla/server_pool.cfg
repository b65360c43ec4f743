CONSTANTS
    c1 = c1
    c2 = c2
    c3 = c3
    a1 = a1
    a2 = a2
    Threads = {t1, t2}
    Clients = {c1, c2, c3}
    Addresses = {a1}
    AddressOf <- OneAddress
    MaxConnections = 2
    UseSemaphore = FALSE
    NoClient = NoClient
    NoThread = NoThread
SPECIFICATION Spec
SYMMETRY PoolSymmetry
INVARIANTS ReadArgsExclusive ReadArgsConserved OnlineSocketIsOpen ConnectionsCounted
PROPERTY RegistrySpec
CHECK_DEADLOCK FALSE
