SPECIFICATION FairSpec
CONSTANTS
    w1 = w1
    w2 = w2
    r1 = r1
    s1 = s1
    s2 = s2
    Writer = {w1, w2}
    Reader = {}
    Store = {s1, s2}
    HomeOf <- TwoStores
    Wal = TRUE
    Actor = {alice}
    Target = {t1}
    Fingerprint = {f1, f2}
    NoThread = NoThread
    NoRequest = NoRequest
    MaxScans = 2
    MaxLog = 3
INVARIANTS
    AtomicVisibility
    AuditMatchesScans
    ReturnedIdIsOwn
    AckedIsDurable
PROPERTIES
    LockIsReleased
    AppendOnly
    ImplementsLedger
