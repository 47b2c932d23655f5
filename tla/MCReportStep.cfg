CONSTANTS
    Retries = 3
    LLMTimeout = 4
    Margin = 1
    ProbeTimeout = 3
    ProbeMax = 7
    Backoff = 2
SPECIFICATION Spec
INVARIANTS
    BoardMatchesResult
    TimeIsBounded
PROPERTY
    StepReturns
CHECK_DEADLOCK FALSE
