SPECIFICATION Spec
CONSTANTS
    w1 = w1
    w2 = w2
    r1 = r1
    s1 = s1
    s2 = s2
    Writer = {w1, w2}
    Reader = {r1}
    Store = {s1}
    HomeOf <- OneStore
    Wal = FALSE
    Actor = {alice}
    Target = {t1, t2}
    Fingerprint = {f1, f2}
    NoThread = NoThread
    NoRequest = NoRequest
    MaxScans = 2
    MaxLog = 3
SYMMETRY OneStoreSymmetry
INVARIANTS
    TypeOK
    GetScanIsComplete
    DiffIsFresh
    NoSiblingHoldsWriteLock
