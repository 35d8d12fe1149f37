SPECIFICATION FairSpec
CONSTANTS
    SpecThreshold <- MCSpec
    Overrides <- MCOverrides
    Horizon = 6
    MaxTook = 1
    MaxDisturbances = 2
INVARIANTS
    TypeOK
    CalculatedIsInEffect
    WakeUpOrdered
    HoldsUntilNextOverride
    FirstOverrideLives
PROPERTIES
    ThresholdConverges
CHECK_DEADLOCK FALSE
