CONSTANTS
    Tasks = {t1, t2, t3}
    Timed = {t1, t2}
    MAX_WAITERS = 3
    POLLS = 1
    MAX_NEST = 1
    None = None
SPECIFICATION Spec
CHECK_DEADLOCK FALSE
INVARIANT TimedResult
