SPECIFICATION FairSpec
CONSTANTS
    Pods = {"p1", "p2"}
    Limits = {0, 1, 2}
INVARIANTS
    WokenWhenItPasses
PROPERTIES
    ThrottleOpens
CHECK_DEADLOCK FALSE
