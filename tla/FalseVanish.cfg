SPECIFICATION Spec
CONSTANTS
    Reports <- OneReport
    Specs <- JustOneShot
    Legacies = {}
    SpawnFailures = {}
    Disrupts = FALSE
    HistoryLimit = 1
    Period = 1
    ReadyTimeout = 0
    TriggerDelay = 0
    MaxTime = 1
    MaxOrphans = 1
    MaxGeneration = 1
    FaultKinds = {}
    MaxUpsets = 0
PROPERTIES VanishedJobIsGone
CHECK_DEADLOCK FALSE
