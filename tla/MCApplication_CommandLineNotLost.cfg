\* Three launches race through start-up; each has at most one parameter
\* (a magnet link, a relative or an absolute path) and one of two working
\* directories, so that a relative path means different files in different
\* processes.
CONSTANTS
    a1 = a1  a2 = a2  a3 = a3  d1 = d1  d2 = d2  n1 = n1
    NoDir = NoDir
    NoProc = NoProc
    Procs <- MCProcs
    Dirs <- MCDirs
    Names <- MCNames
    MaxArgs = 1
SPECIFICATION Spec
SYMMETRY MCSymmetry
INVARIANT CommandLineNotLost
CHECK_DEADLOCK FALSE
