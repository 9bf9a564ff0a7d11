CONSTANTS
    Clients = {t1, t2}
    Launchers = {t1, t2}
    None = None
    MAX_RUNS = 2
    REPLY_SLOT_MAX = 2
    Break = TRUE
SPECIFICATION LibFairSpec
CONSTRAINT Orderly
INVARIANTS SoleEngine AllAnswered OwnReplyPort CodeLoaded StartedRuns
PROPERTIES LibCallReturns LibLauncherReturns ExpungeDone
