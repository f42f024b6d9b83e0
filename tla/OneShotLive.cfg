SPECIFICATION FairSpec
CONSTANTS
    Reports <- OneReport
    Specs <- JustOneShot
    Legacies = {}
    SpawnFailures = {}
    Disrupts = FALSE
    HistoryLimit = 1
    Period = 1
    ReadyTimeout = 0
    TriggerDelay = 0
    MaxTime = 1
    MaxOrphans = 1
    MaxGeneration = 2
    FaultKinds = {"ApiError", "Crash"}
    MaxUpsets = 2
INVARIANTS ObservedMeansFinished
PROPERTIES RunsFinish DeletionCompletes EditsAreObserved
CHECK_DEADLOCK FALSE
