SPECIFICATION FairSpec
CONSTANTS
    Thread = {p1, p2, p3}
    NoThread = NoThread
INVARIANTS
    AtMostOneStore
    ReturnsTheStore
PROPERTIES
    LockIsReleased
