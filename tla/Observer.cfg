SPECIFICATION FairSpec
CONSTANTS
    Absent = Absent
    Malformed = Malformed
    Slices = {s1, s2}
    IPs = {a, b}
    leakageWindow = 2
    drainWindow = 2
    DefaultLookback = 1
    SLA = 1
    PollInterval = 1
    HPAStates <- ThreeHPAStates
    FirstSlices <- OneSlice
    ReadySets <- ThreeReadySets
    Stats <- OneStat
    Postures <- ThreePostures
    Sents = {100}
    Bursts <- TwoBursts
    maxErrorSamples = 2
    criticalCount = 2
    MaxTime = 2
    MaxChanges = 2
    MaxInstances = 2
INVARIANTS TypeOK EventsExplainReadiness OnlyDeletionsAreMissed CountsMatchWindows ScalingVerdictIsEarned TrafficVerdictIsOfTheLoad BlockingBudgetsAreNamed BlameIsExact
PROPERTIES ReportIsPrinted
CHECK_DEADLOCK FALSE
