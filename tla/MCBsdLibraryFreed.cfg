CONSTANTS
    Clients = {t1, t2}
    Launchers = {t1, t2}
    None = None
    MAX_RUNS = 1
    REPLY_SLOT_MAX = 2
    Break = FALSE
SPECIFICATION LibSpec
INVARIANT FreedUnused
CHECK_DEADLOCK FALSE
