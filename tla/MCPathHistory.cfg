\* A limit of 2 rows with 3 paths and dialogs of up to 3 torrents, so that
\* the trim drops rows, and dialogs write fewer, as many or more paths than
\* the limit.
CONSTANTS
    p1 = p1
    p2 = p2
    p3 = p3
    Paths <- MCPaths
    HistLimit = 2
    MaxTorrents = 3
    MaxTime = 5

SPECIFICATION Spec
SYMMETRY MCSymmetry

INVARIANT TypeOK
INVARIANT LastPathsOffered
