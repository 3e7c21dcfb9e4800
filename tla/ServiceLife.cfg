SPECIFICATION FairSpec
CONSTANTS
    k1 = k1
    k2 = k2
    k3 = k3
    admins = admins
    ops = ops
    others = others
    Secret = {k1, k2, k3}
    Group = {admins, ops, others}
    RoleMap <- MCRoleMap
    NoCredential = NoCredential
    DayLength = 2
    NoKey = NoKey
    Environment <- MCEnvironment
    Header <- MCHeader
    NoProcess = NoProcess
    NoCall = NoCall
    MaxClock = 4
    MaxRetries = 1
    Timeout = 1
    Backoff = 1
INVARIANTS
    TypeOK
    CallsAreAuthorised
    OutcomesMatchScans
    LicenseInForce
    WithinDeadline
    FallbackIsDeterministic
PROPERTIES
    CallEnds
