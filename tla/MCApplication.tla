---------------------------- MODULE MCApplication ----------------------------
(* Three processes, two directories and one name.                         *)
EXTENDS Application, TLC

CONSTANTS a1, a2, a3, d1, d2, n1

MCProcs == {a1, a2, a3}
MCProcsTwo == {a1, a2}
MCDirs == {d1, d2}
MCNames == {n1}

MCSymmetry == Permutations(MCProcs) \cup Permutations(MCDirs)

=============================================================================
