CONSTANTS
    Pods = {"p1"}
    Incarnations = {1}
    Throttles = {"t1", "t2"}
    Kind <- MCBothKinds
    PodLabels = {"a", "b"}
    NamespaceLabels = {"prod", "dev"}
    InitialLabels <- MCLabelA
    InitialNamespace = "prod"
    InitialSelector <- MCOneNamespace
    EditedSelectors <- MCBreak
    Changes = {"relabelNamespace", "breakSelector"}
    MaxChanges = 1
SPECIFICATION FairSpec
INVARIANTS
    DrainedWhenQuiet
PROPERTIES
    CountsConverge
CHECK_DEADLOCK FALSE
