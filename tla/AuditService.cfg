SPECIFICATION Spec
CONSTANTS
    Thread = {p1, p2}
    Viewer = {v1}
    Actor = {alice, bob, carol}
    Target = {t1}
    NoRequest = NoRequest
    Seats = 1
    MaxScansPerMonth = 2
    MonthOf <- TwoPerMonth
    MaxClock = 3
    MaxScans = 3
SYMMETRY Symmetry
INVARIANTS
    TypeOK
    ScanOvershootBound
    SeatOvershootBound
    SequentialScansInOrder
    UsageCoversScans
PROPERTIES
    UsesLedger
