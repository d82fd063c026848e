CONSTANTS
    o1 = o1
    o2 = o2
    o3 = o3
    o4 = o4
    NSpaces = 3
    NBoot = 1
    Kinds = {"heap", "heritage"}
    Edge = {}
    MemEntries = 3
    MaxUsers = 127
    Forking = TRUE
    Leavers = {}
    Opens = {}
    Values = {0, 1}
SPECIFICATION SystemSpec
INVARIANTS
    BlocksCorrect DirsCorrect FsCorrect DrivesCorrect ContainersCorrect
    CpuCorrect AllocatorsCorrect ProgramsCorrect FramesExact Private SharingCorrect
    Vm86Correct PciCorrect TerminalCorrect
SYMMETRY Symmetry
CHECK_DEADLOCK FALSE
