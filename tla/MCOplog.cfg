CONSTANTS
    NCPU = 2
    a = a
    b = b
    t1 = t1
    t2 = t2
    Logs = {a, b}
    Ways = {1}
    hash_way <- OneWay
    Threads = {t1, t2}
    Calls <- SharedCore
    Syncers = {s1}
    Synced = {a}
    None = None
    MaxCalls = 2
    MaxSyncs = 2
SPECIFICATION FairSpec
INVARIANTS TypeOK NoPanic
PROPERTIES Ordered SyncReturns
CHECK_DEADLOCK FALSE
