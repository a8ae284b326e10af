\* Three Deletes, answers in any order: every confirmed Delete is reported.
CONSTANTS
    p0 = p0
    p1 = p1
    p2 = p2
    Paths <- MCPaths
    EmptyPath = p0
    MaxRequests = 3
SPECIFICATION Spec
INVARIANT NewestAnswerShown
