SPECIFICATION FairSpec
CONSTANTS
    Callers = {"c1", "c2"}
    Throttles = {"t1", "t2"}
    Pods = {"p1", "p2"}
    Programs <- MCPrograms
    Buckets = {1, 2}
    Bucket <- MCOwnBuckets
INVARIANTS
    TypeOK
    NoConcurrentMapAccess
    MapIsCurrent
PROPERTIES
    ImplementsReservations
    CallsReturn
