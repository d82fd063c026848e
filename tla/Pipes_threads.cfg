CONSTANTS
    Ids = {a1, a2, a3, a4}
    Procs = {p1, p2}
    Threads = {t1, t2}
    First = t1
    Main = p1
    NPipes = 2
    MaxLinks = 1
    Careful = TRUE
SYMMETRY Symmetry
SPECIFICATION Spec
CHECK_DEADLOCK FALSE
INVARIANT PipesCorrect
PROPERTY EntryKept
