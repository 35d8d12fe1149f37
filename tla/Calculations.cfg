CONSTANTS
    MaxThreshold = 2
    MaxUsed = 2
    MaxRequest = 3
    MaxQuantity = 1
    MaxContainers = 2
    PodLabels = {"a", "b"}
    NamespaceLabels = {"prod", "dev"}
    MaxTerms = 2
    Mentioned = {{}, {"pod"}, {"cpu"}, {"memory"}}
    MaxRecorded = 4
    Milli = 2
    Unit = 3
SPECIFICATION Spec
INVARIANTS
    AdmissionIsExact
    KindsAdmitTheSame
    CountedIsThePeak
    ListLaws
    NamespaceFilterLosesNothing
    SelectedByOneTerm
    FlagsAgreeWithAmounts
CHECK_DEADLOCK FALSE
