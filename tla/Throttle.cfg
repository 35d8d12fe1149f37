CONSTANTS
    p1 = p1
    p2 = p2
    w1 = w1
    w2 = w2
    Pods = {p1, p2}
    Workers = {w1}
    Request <- MCRequest
    Threshold <- MCThreshold
    Clustered = FALSE
    Endings = {"deleted"}
    Disturbances = {}
    MaxDisturbances = 0
SPECIFICATION FairSpec
INVARIANTS
    TypeOK
    InFlightIsReserved
    Accounted
    NoOverAdmission
PROPERTIES
    UnreserveAfterStatusUpdateUnlessFailed
    ImplementsAdmission
    StatusConverges
    ApiStatusConverges
