SPECIFICATION FairSpec
CONSTANTS
    p1 = p1
    p2 = p2
    k1 = k1
    k2 = k2
    Participant = {p1, p2}
    AtStart = {p1}
    Client = {p1}
    Server = {p1, p2}
    HasHandler = {p2}
    Labelled = {}
    MayLeave = {p2}
    Call = {k1, k2}
    Caller <- MCCaller
    Timeout <- MCTimeout
    TimerThread = FALSE
    NoCall = NoCall
    MaxLost = 1
    CountModulus = 256
CHECK_DEADLOCK FALSE
INVARIANT CountedServersReceive
INVARIANT CountIsExact
PROPERTY NothingAfterTimeout
PROPERTY TimedCallsEnd
PROPERTY CallsEnd
PROPERTY MatchesConnect
