\* Two files, two Imports, two showings, every kind of answer in any order: the form state stays well formed.
CONSTANTS
    f1 = f1
    f2 = f2
    Files <- MCFiles
    FileName <- MCFileName
    Selections <- MCSelections
    PrefixChoices <- MCPrefixFew
    TargetChoices <- MCTargetChoices
    MaxBatches = 2
    MaxShows = 2
SPECIFICATION Spec
INVARIANT TypeOK
