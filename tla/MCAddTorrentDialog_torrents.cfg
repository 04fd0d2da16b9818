\* Two torrents of one file each: switching the selection, editing and
\* metadata arriving for either, with equal or distinct info hashes.
CONSTANTS
    p1 = p1
    p2 = p2
    h1 = h1
    h2 = h2
    Paths <- MCPaths
    Hashes <- MCHashes
    NFiles = 1
    MaxTorrents = 2

SPECIFICATION Spec
SYMMETRY MCSymmetry

INVARIANT ViewMatchesSelection
