SPECIFICATION Spec
CONSTANTS
    Reports <- TwoReports
    Specs <- JustOneShot
    Legacies <- JustOneShot
    SpawnFailures = {"TLSCABundleMissing"}
    Disrupts = TRUE
    HistoryLimit = 1
    Period = 1
    ReadyTimeout = 0
    TriggerDelay = 1
    MaxTime = 1
    MaxOrphans = 1
    MaxGeneration = 2
    FaultKinds = {"ApiError", "Crash", "OutsideJobDelete", "LosePod"}
    MaxUpsets = 1
INVARIANTS FinishedExplainsPhase HistoryShowsVerdict ReconcilerIsCoherent
PROPERTIES VerdictIsFinal KeepsTheContract
CHECK_DEADLOCK FALSE
