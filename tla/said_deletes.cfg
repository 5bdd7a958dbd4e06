SPECIFICATION MSpec
CONSTANTS
    MaxNotes = 1
    MaxDemands = 3
    MaxPending = 2
    MaxEntries = 2
    MaxDrafts = 2
    MaxCalls = 2
CHECK_DEADLOCK FALSE
INVARIANT DeletesWhatWasMeant
