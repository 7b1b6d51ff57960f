SPECIFICATION Spec
CONSTANTS
    c1 = c1  c2 = c2  k1 = k1  k2 = k2  d1 = d1  d2 = d2  t1 = t1  t2 = t2
    Nothing = Nothing
    Tombstone = Tombstone
    NoTxn <- MinusOne
    Collections = {c1}
    Keys = {k1, k2}
    Docs = {d1, d2}
    Threads = {t1, t2}
    KeysOf <- OwnKeys
    Admins = {t1}
    Requests = {"put", "del", "create", "shutdown"}
    StrayWrites = FALSE
    TornWrites = FALSE
    RacyAppends = FALSE
    MaxWal = 4
    MaxCrashes = 2
    MaxTid = 0
    MaxOps = 0
INVARIANTS
    MemoryMatchesLog
    ReplayMatchesLog
PROPERTIES
    ImplementsDurableStore
    Restarts
