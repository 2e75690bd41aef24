SPECIFICATION FairSpec
CONSTANTS
    p1 = p1
    p2 = p2
    p3 = p3
    Participant = {p1, p2}
    Coordinated = {p2}
    Async = {p1}
    Driver = {}
    OptOut = {}
    StepSize <- MCEqualSteps
    AtStart = {p1}
    MayPause = {}
    MayStop = {}
    MayLeave = {}
    MaxTime = 4
CHECK_DEADLOCK FALSE
PROPERTY LateCoordinatedAborts
