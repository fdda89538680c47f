SPECIFICATION Spec
CONSTANTS
    Paths <- MCPaths
    Trees <- MCTrees
    InputLists <- MCInputLists
    MaxFiles = 3
    MaxBytes = 4
    MaxEdits = 3
    MaxTicks = 2
    None = None
INVARIANTS EachFileIsOneMoment UntouchedPathsAreExact
CHECK_DEADLOCK FALSE
