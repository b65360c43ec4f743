CONSTANTS
    c1 = c1
    c2 = c2
    u1 = u1
    u2 = u2
    NoUid = NoUid
    NoConn = NoConn
    k1 = k1
    k2 = k2
    con1 = con1
    con2 = con2
    data1 = data1
    data2 = data2
    Clients = {k1, k2}
    Config <- MCConfig
    Names = {n1}
    Callbacks = {f1, f2}
    Fetches = "all"
    MaxNotes = 3
    MaxArrays = 2
    MaxBound = 3
    e1 = e1
    e2 = e2
    e3 = e3
    ok = ok
    bad = bad
    mail = mail
    Elems = {e1, e2, e3}
    TypeOf <- MCTypeOf
    Areas = {e3}
    Urls = {ok, bad, mail}
    NoUrl = NoUrl
    Class <- MCClass
    Http = {ok, bad}
    PlainHttp = {bad}
    HttpsPage = TRUE
    removeError = TRUE
    Batch = 2
    MaxRecords = 3
SPECIFICATION Spec
INVARIANTS TypeOK ProxyBeforeUse FetchedInOrder
PROPERTIES TriggerCallsAll ScanFindsAll ObserverRemoves FriendsArrive CallsEnd NoteArrives
CHECK_DEADLOCK FALSE
