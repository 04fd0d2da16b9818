--------------------------- MODULE MCPathHistory ---------------------------
(* Model-checking instance of PathHistory: three paths, a history of two. *)
EXTENDS PathHistory, TLC

CONSTANTS p1, p2, p3

MCPaths == {p1, p2, p3}

MCSymmetry == Permutations(MCPaths)

=============================================================================
