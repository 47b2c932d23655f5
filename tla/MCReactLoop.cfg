SPECIFICATION FairReactSpec
CONSTANTS
    MaxRounds = 5
    MaxRetries = 1
    NoAction = NoAction
    OtherTools <- MCOtherTools
INVARIANT ReportIsLast
INVARIANT CompletedIsReported
INVARIANT RefusalsReachReport
PROPERTY RunEnds
