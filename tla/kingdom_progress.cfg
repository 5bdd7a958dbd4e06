SPECIFICATION Spec
CONSTANTS
    Call = {c1, c2}
    Tab = {t1, t2}
    MaxErrands = 2
    BCall = {k1, k2}
    MaxChromes = 2
    MaxServers = 2
    Port = {p1}
    MaxSpaces = 2
    MaxBlows = 1
    MaxJobs = 2
    MaxLines = 1
CHECK_DEADLOCK FALSE
INVARIANT WorkersTypeOK
INVARIANT AnswerLandsOnce
INVARIANT CollectedErrandsShut
INVARIANT StopReachesErrands
INVARIANT NoChromeForgotten
INVARIANT NoSpaceForgotten
INVARIANT ReportsAreWhole
PROPERTY QuestionsEnd
PROPERTY ErrandsAwaitedNotForEver
PROPERTY IdleBrowserCloses
PROPERTY DoorsFollowServers
PROPERTY KilledJobEnds
