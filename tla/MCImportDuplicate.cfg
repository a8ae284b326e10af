\* Expected violation: Import pressed twice while the form is shown sprays every file twice.
CONSTANTS
    f1 = f1
    f2 = f2
    Files <- MCFiles
    FileName <- MCFileName
    Selections <- MCSelections
    PrefixChoices <- MCPrefixChoices
    TargetChoices <- MCTargetChoices
    MaxBatches = 2
    MaxShows = 2
SPECIFICATION Spec
INVARIANT OneSprayPerFile
