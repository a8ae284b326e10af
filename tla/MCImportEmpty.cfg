\* Expected violation: a spray answer with neither Exceptions nor a wuid is passed over, and the form closes as if the batch had fully succeeded.
CONSTANTS
    f1 = f1
    f2 = f2
    Files <- MCFiles
    FileName <- MCFileName
    Selections <- MCSelections
    PrefixChoices <- MCPrefixFew
    TargetChoices <- MCTargetChoices
    MaxBatches = 1
    MaxShows = 1
SPECIFICATION Spec
INVARIANT FulfilledBatchReported
