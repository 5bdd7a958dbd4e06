SPECIFICATION JSpec
CONSTANTS
    MaxJobs = 1
    MaxLines = 1
CHECK_DEADLOCK FALSE
INVARIANT EndingsAreRemembered
