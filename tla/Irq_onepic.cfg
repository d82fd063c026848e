CONSTANTS
    Procs <- MCProcs
    Irqs = {1, 2}
    Irq <- MCLines
    Pic <- OnePic
    Exiting = {}
    Reaper = "reaper"
SPECIFICATION Spec
INVARIANT DeliverableSettled
CHECK_DEADLOCK FALSE
