\* One torrent with three files: the context menu read past file_priorities.
CONSTANTS
    p1 = p1
    p2 = p2
    h1 = h1
    h2 = h2
    Paths <- MCPaths
    Hashes <- MCHashes
    NFiles = 3
    MaxTorrents = 1

SPECIFICATION Spec
SYMMETRY MCSymmetry

INVARIANT MenuMarksCurrentPriority
