CONSTANTS
    Procs <- MCProcs
    Irqs = {1, 2}
    Irq <- MCLines
    Pic <- TwoPics
    Exiting = {"p", "q", "r"}
    Reaper = "reaper"
SPECIFICATION Spec
INVARIANTS SettledOnce HandlersKept
PROPERTY LinesServed
CHECK_DEADLOCK FALSE
