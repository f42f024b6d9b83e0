SPECIFICATION FairSpec
CONSTANTS
    Second = 12
    Gaps = {1}
    Annotations <- FourAnnotations
    Edits <- ManyEdits
    Absent = Absent
    Malformed = Malformed
    MaxUid = 2
INVARIANTS TypeOK ReasonableLoadsRun PhasesRealiseProfile PoolCoversThePeak
PROPERTIES EditsSurvive ShadowAppears
CHECK_DEADLOCK FALSE
