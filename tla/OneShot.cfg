SPECIFICATION Spec
CONSTANTS
    Reports <- TwoReports
    Specs <- JustOneShot
    Legacies <- JustOneShot
    SpawnFailures = {}
    Disrupts = FALSE
    HistoryLimit = 2
    Period = 1
    ReadyTimeout = 0
    TriggerDelay = 0
    MaxTime = 0
    MaxOrphans = 1
    MaxGeneration = 3
    FaultKinds = {"ApiError", "Crash", "OutsideJobDelete", "LosePod"}
    MaxUpsets = 2
INVARIANTS TypeOK ReconcilerIsCoherent
PROPERTIES OneEntryPerRun VerdictIsFinal JobIsGuarded
CHECK_DEADLOCK FALSE
