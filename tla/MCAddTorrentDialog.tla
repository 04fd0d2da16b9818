------------------------- MODULE MCAddTorrentDialog -------------------------
(* Model-checking instance of AddTorrentDialog.                            *)
EXTENDS AddTorrentDialog, TLC

CONSTANTS p1, p2, h1, h2

MCPaths == {p1, p2}
MCHashes == {h1, h2}

MCSymmetry == Permutations(MCPaths) \cup Permutations(MCHashes)

=============================================================================
