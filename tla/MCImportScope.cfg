\* Expected violation: a name prefix ending in "::" gets a second "::" (substring(-2) is the whole prefix).
CONSTANTS
    f1 = f1
    f2 = f2
    Files <- MCFiles
    FileName <- MCFileName
    Selections <- MCSelections
    PrefixChoices <- MCPrefixChoices
    TargetChoices <- MCTargetChoices
    MaxBatches = 2
    MaxShows = 2
SPECIFICATION Spec
INVARIANT ScopeSeparatedOnce
