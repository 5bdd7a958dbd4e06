SPECIFICATION Spec
CONSTANTS
    MaxTurns = 2
    MaxLive = 2
    MaxWords = 3
    MaxRounds = 1
    MaxBatch = 2
    MaxRetries = 1
    MaxMishaps = 1
    Finisher = {f1, f2}
    NoTurn = 0
CONSTRAINT Narrow
CHECK_DEADLOCK FALSE
INVARIANT TypeOK
INVARIANT WordsKept
INVARIANT WordsInOrder
INVARIANT BusyMeansSomebodyWorks
INVARIANT CallsSettled
INVARIANT EntryIsNewest
INVARIANT EndedOnce
PROPERTY ChamberRefinesTurns
