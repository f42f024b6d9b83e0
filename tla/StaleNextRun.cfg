SPECIFICATION Spec
CONSTANTS
    Reports <- OneReport
    Specs <- ScheduleEdits
    Legacies = {}
    SpawnFailures = {}
    Disrupts = FALSE
    HistoryLimit = 1
    Period = 1
    ReadyTimeout = 0
    TriggerDelay = 0
    MaxTime = 1
    MaxOrphans = 1
    MaxGeneration = 2
    FaultKinds = {"ApiError", "Crash", "OutsideJobDelete", "LosePod"}
    MaxUpsets = 1
INVARIANTS NextRunWillHappen
CHECK_DEADLOCK FALSE
