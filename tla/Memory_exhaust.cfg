CONSTANTS
    NSpaces = 2
    NBoot = 1
    Kinds = {"stack", "heap", "heritage"}
    Edge = {}
    MemEntries = 5
    MaxUsers = 127
    Forking = TRUE
    Leavers = {}
    Opens = {}
    Values = {0, 1}
SPECIFICATION Spec
INVARIANTS ExhaustedMeansUsed
CHECK_DEADLOCK FALSE
