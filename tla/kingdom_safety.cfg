SPECIFICATION Spec
CONSTANTS
    MaxRequests = 2
    MaxFaults = 1
    MaxChanges = 2
    Calling = {1}
    Backlog = 2
    MaxUpsets = 1
    MaxPasses = 3
    MaxMishaps = 1
    Deed = {d1, d2}
    Root = {ra, rb}
    MaxOpenings = 2
    MaxFailures = 2
    MaxUpheavals = 3
    Panel = {s1, s2}
    MaxShells = 2
    MaxChunks = 2
    Kept = 1
    MaxUnheard = 1
    RecentReplies = 1
    LiveReplies = 2
    MostReplayed = 6
    ResultFloor = 2
    FullBudget = 24
    BudgetFloor = 5
    MostAttempts = 3
    Limits = {4, 12}
    MaxReplies = 3
    MaxTalks = 1
    File = {fa, fb}
    MaxTyped = 1
    MaxPatches = 1
    MaxActs = 4
    MaxLength = 3
    MaxNotes = 1
    MaxDemands = 3
    MaxPending = 2
    MaxEntries = 2
    MaxDrafts = 2
    MaxCalls = 2
    Cargo = cargo
    Rustup = rustup
    Secret = secret
    MaxDeclared = 1
    MaxEdits = 2
    MaxTicks = 1
CHECK_DEADLOCK FALSE
INVARIANT RecordsTypeOK
INVARIANT WorkKept
INVARIANT OutcomeIsTrue
 
INVARIANT WellsFollowTheLiving
INVARIANT EveryPlanIsKept
INVARIANT PanelMissesNothing
INVARIANT ShellsAreListed
INVARIANT ShedsOnlyWhatItMust
INVARIANT StampsGuardTheWork
INVARIANT EditsAreSimultaneous
INVARIANT NotesAreHeardOnce
INVARIANT RepliesStayWhole
INVARIANT FenceIsAsTicked
INVARIANT FenceIsAsTold
PROPERTY NoWellTakenAway
PROPERTY AskedAgainNoLarger
