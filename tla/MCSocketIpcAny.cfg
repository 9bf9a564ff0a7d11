CONSTANTS
    Clients = {c1, c2}
    Launchers = {L}
    None = None
    MAX_RUNS = 2
    REPLY_SLOT_MAX = 1
    Break = TRUE
SPECIFICATION Spec
INVARIANTS TypeOK OnePlace SignalPending EndsWhenTold
