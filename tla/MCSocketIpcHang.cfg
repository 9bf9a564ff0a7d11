CONSTANTS
    Clients = {c1, c2}
    Launchers = {L}
    None = None
    MAX_RUNS = 2
    REPLY_SLOT_MAX = 2
    Break = FALSE
SPECIFICATION FairSpec
PROPERTY CallReturns
