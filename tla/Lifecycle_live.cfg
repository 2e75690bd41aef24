SPECIFICATION FairSpec
CONSTANTS
    p1 = p1
    p2 = p2
    p3 = p3
    Participant = {p1, p2}
    Coordinated = {p1, p2}
    Required = {p1, p2}
    TimeSynced = {p1}
    AsyncReady = {p2}
    Subscribing = {p1}
    Throwing = {p2}
    UserCall <- MCStopPauseAbort
    Eager = {}
    MayCrash = {p2}
CHECK_DEADLOCK FALSE
PROPERTY StopSpreads
PROPERTY AbortSpreads
PROPERTY LossIsReported
