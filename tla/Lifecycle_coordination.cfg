SPECIFICATION Spec
CONSTANTS
    p1 = p1
    p2 = p2
    p3 = p3
    Participant = {p1, p2, p3}
    Coordinated = {p1, p2}
    Required = {p1, p2, p3}
    TimeSynced = {p1}
    AsyncReady = {}
    Subscribing = {p3}
    Throwing = {}
    UserCall <- MCStopAndPause
    Eager = {}
    MayCrash = {}
CHECK_DEADLOCK FALSE
INVARIANT TypeOK
INVARIANT RunsTogether
INVARIANT DepartureIsAnnounced
PROPERTY StartsAfterReplies
