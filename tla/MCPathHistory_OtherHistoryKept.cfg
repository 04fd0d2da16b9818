\* The dialog history next to rows of another type in the same table.
CONSTANTS
    p1 = p1
    p2 = p2
    p3 = p3
    Paths <- MCPaths
    HistLimit = 2
    MaxTorrents = 3
    MaxTime = 5

SPECIFICATION Spec
SYMMETRY MCSymmetry

PROPERTY OtherHistoryKept
