SPECIFICATION FairSpec
CONSTANTS
    Reports <- OneReport
    Specs <- JustScheduled
    Legacies = {}
    SpawnFailures = {}
    Disrupts = FALSE
    HistoryLimit = 1
    Period = 1
    ReadyTimeout = 0
    TriggerDelay = 0
    MaxTime = 1
    MaxOrphans = 1
    MaxGeneration = 1
    FaultKinds = {"ApiError", "Crash"}
    MaxUpsets = 1
PROPERTIES RunsFinish ScheduleRecurs
CHECK_DEADLOCK FALSE
