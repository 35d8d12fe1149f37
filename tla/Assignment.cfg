CONSTANTS
    Pods = {"p1"}
    Incarnations = {1, 2}
    Throttles = {"t1", "t2"}
    Kind <- MCClusterThrottles
    PodLabels = {"a", "b"}
    NamespaceLabels = {"prod", "dev"}
    InitialLabels <- MCLabelA
    InitialNamespace = "prod"
    InitialSelector <- MCByLabel
    EditedSelectors <- MCWiden
    Changes = {"relabelPending", "relabelBound", "recreatePod", "editSelector", "editThrottlerName", "deleteThrottle"}
    MaxChanges = 2
SPECIFICATION Spec
INVARIANTS
    TypeOK
    Accounted
    DrainedWhenQuiet
    CountedWhenQuiet
CHECK_DEADLOCK FALSE
