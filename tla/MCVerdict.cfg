CONSTANTS
    Counts = {0, 1, 2}
    Drops <- MCDrops
    Churn <- MCChurn
    Confidences = {59, 60}
SPECIFICATION Spec
INVARIANTS
    ConfidenceIsNoVote
    EveryClassAnswered
PROPERTY
    CauseMovesOnlyOnRecord
CHECK_DEADLOCK FALSE
