SPECIFICATION Spec
CONSTANTS
    Threads = {t1, t2, t3, t4}
    Sockets = {s1, s2}
    Dead = Dead
INVARIANTS
    OnePlaceEach
    OpenTransactionsOwned
    NoLostWakeup
PROPERTIES
    GetSessionEnds
    
CHECK_DEADLOCK FALSE
