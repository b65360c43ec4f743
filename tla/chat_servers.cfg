CONSTANTS
    c1 = c1
    c2 = c2
    c3 = c3
    u1 = u1
    u2 = u2
    u3 = u3
    Conns = {c1, c2, c3}
    Uids = {u1, u2, u3}
    NoUid = NoUid
    NoConn = NoConn
    Programs <- ClientPrograms
    BigCount = 1
    InboxFull = 4
SPECIFICATION Spec
SYMMETRY Symmetry
INVARIANTS TypeOK  TableIsLive
PROPERTIES AnnouncedToAll AnnouncedWhileUnique
CHECK_DEADLOCK FALSE
