CONSTANTS
    Tasks = {t1, t2, t3}
    Timed = {t1, t2}
    MAX_WAITERS = 2
    POLLS = 1
    MAX_NEST = 2
    None = None
SPECIFICATION FairSpec
CHECK_DEADLOCK FALSE
INVARIANTS TypeOK NoLostWakeup EntriesWait
PROPERTY Woken
