\* Expected violation: after Promise.all rejects, later failures of the batch are never logged.
CONSTANTS
    f1 = f1
    f2 = f2
    Files <- MCFiles
    FileName <- MCFileName
    Selections <- MCSelections
    PrefixChoices <- MCPrefixChoices
    TargetChoices <- MCTargetChoices
    MaxBatches = 2
    MaxShows = 2
SPECIFICATION Spec
INVARIANT EachErrorLogged
