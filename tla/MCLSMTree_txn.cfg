SPECIFICATION Spec
CONSTANTS
    c1 = c1  c2 = c2  k1 = k1  k2 = k2  d1 = d1  d2 = d2  t1 = t1  t2 = t2
    Nothing = Nothing
    Tombstone = Tombstone
    NoTxn <- MinusOne
    Collections = {c1}
    Keys = {k1}
    Docs = {d1}
    Threads = {t1, t2}
    KeysOf <- SharedKeys
    Admins = {t1}
    Requests = {"create", "drop", "txn"}
    StrayWrites = FALSE
    TornWrites = FALSE
    RacyAppends = FALSE
    MaxWal = 3
    MaxCrashes = 1
    MaxTid = 2
    MaxOps = 2
INVARIANTS
    CommitSeesFixedOperations
    RecoverySucceeds
PROPERTIES
    RequestsEnd
