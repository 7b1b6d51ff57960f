SPECIFICATION Spec
CONSTANTS
    c1 = c1  c2 = c2  k1 = k1  k2 = k2  d1 = d1  d2 = d2  t1 = t1  t2 = t2
    Nothing = Nothing
    Tombstone = Tombstone
    NoTxn <- MinusOne
    Collections = {c1}
    Keys = {k1}
    Docs = {d1}
    Threads = {t1, t2}
    KeysOf <- SharedKeys
    Admins = {t1, t2}
    Requests = {"put", "del", "create", "drop", "index", "shutdown"}
    StrayWrites = TRUE
    TornWrites = TRUE
    RacyAppends = TRUE
    MaxWal = 3
    MaxCrashes = 2
    MaxTid = 0
    MaxOps = 0
INVARIANTS
    WriteAhead
    FailureExplained
CHECK_DEADLOCK FALSE
