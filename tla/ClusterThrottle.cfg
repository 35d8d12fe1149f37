CONSTANTS
    p1 = p1
    p2 = p2
    w1 = w1
    w2 = w2
    Pods = {p1, p2}
    Workers = {w1}
    Request <- MCTwins
    Threshold <- MCOne
    Clustered = TRUE
    Endings = {"finished"}
    Disturbances = {"updateError"}
    MaxDisturbances = 1
SPECIFICATION Spec
SYMMETRY MCSymmetry
INVARIANTS
    Accounted
    AdmissionInv
    ReservationsDrain
