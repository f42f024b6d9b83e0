SPECIFICATION FairSpec
CONSTANTS
    Second = 2
    Gaps = {1, 2}
    PhaseList <- WarmupThenStep
    Workers = {w1, w2}
    Answers <- ThreeAnswers
    scheduleBuffer = 1
    maxErrorSamples = 1
    Slack = 1
INVARIANTS TypeOK ArrivalsAreConserved ResultIsTheRecord OnlyMeasuredPhasesCount
PROPERTIES ResultIsFinal RunReturns
CHECK_DEADLOCK FALSE
