CONSTANTS
    MaxPid = 4
    Stacks = 2
    LeaderMayLeave = FALSE
    Forkers = {1}
    Threaders = {}
    Waiters = {}
    Callers = {1, 3}
SPECIFICATION Spec
PROPERTIES CallReturns DeadFreed
CHECK_DEADLOCK FALSE
