CONSTANTS
    MaxPid = 4
    Stacks = 2
    LeaderMayLeave = FALSE
    Forkers = {1, 2}
    Threaders = {1}
    Waiters = {1}
    Callers = {1, 2, 3}
SPECIFICATION Spec
INVARIANTS StacksCounted FamilyKept AnswersAccounted
PROPERTY ErrnoLostOnlyByReuse
CHECK_DEADLOCK FALSE
