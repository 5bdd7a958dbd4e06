SPECIFICATION Spec
CONSTANTS
    MaxTurns = 2
    MaxLive = 2
    MaxWords = 2
    MaxRounds = 2
    MaxBatch = 1
    MaxRetries = 0
    MaxMishaps = 0
    Finisher = {}
    NoTurn = 0
CHECK_DEADLOCK FALSE
INVARIANT OneTurnAtATime
