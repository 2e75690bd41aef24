SPECIFICATION Spec
CONSTANTS
    p1 = p1
    p2 = p2
    k1 = k1
    k2 = k2
    Participant = {p1, p2}
    AtStart = {p1}
    Client = {p1}
    Server = {p1}
    HasHandler = {p1}
    Labelled = {p1}
    MayLeave = {}
    Call = {k1, k2}
    Caller <- MCCaller
    Timeout <- MCTimeout
    TimerThread = FALSE
    NoCall = NoCall
    MaxLost = 1
    CountModulus = 256
CHECK_DEADLOCK FALSE
PROPERTY UnreachableIsTrue
