CONSTANTS
    Tasks = {m1, t1, t2}
    Mains = {m1}
    Records = {r1, r2}
    Bits = {30, 31}
    TIMER_SLOT_MAX = 2
    None = None
SPECIFICATION FairSpec
INVARIANTS TypeOK RecordHeld OwnRequest
PROPERTIES SignalOwned JoinReturns
CHECK_DEADLOCK FALSE
