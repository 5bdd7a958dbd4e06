SPECIFICATION DSpec
CONSTANTS
    File = {fa, fb}
    MaxTyped = 1
    MaxPatches = 1
    MaxActs = 5
CHECK_DEADLOCK FALSE
INVARIANT OverwritesOnlyWhatWasSeen
