SPECIFICATION Spec
CONSTANTS
    MaxTurns = 1
    MaxLive = 1
    MaxWords = 1
    MaxRounds = 1
    MaxBatch = 1
    MaxRetries = 0
    MaxMishaps = 0
    Finisher = {f1}
    NoTurn = 0
CHECK_DEADLOCK FALSE
INVARIANT StatusAgreesWithOutcome
