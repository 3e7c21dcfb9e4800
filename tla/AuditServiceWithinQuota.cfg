SPECIFICATION Spec
CONSTANTS
    Thread = {p1, p2}
    Viewer = {}
    Actor = {alice}
    Target = {t1}
    NoRequest = NoRequest
    Seats = 0
    MaxScansPerMonth = 2
    MonthOf <- TwoPerMonth
    MaxClock = 3
    MaxScans = 3
SYMMETRY Symmetry
INVARIANT
    WithinQuota
