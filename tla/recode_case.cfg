SPECIFICATION MCSpec
CONSTANTS
    Processes = {p1, p2}
    MaxRuns = 2
    None = None
    UpperOf <- MCUpperOf
    Digits <- MCDigits
    Codes <- MCCodes
    CodeLength = 2
    DropIds <- MCDropIds
    References <- MCReferences
    MinReference = 2
    Limits = {1, None}
SYMMETRY Symmetry
INVARIANT IdentifiersNameTheirDrop
CHECK_DEADLOCK FALSE
