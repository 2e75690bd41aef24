SPECIFICATION Spec
CONSTANTS
    p1 = p1
    p2 = p2
    p3 = p3
    Participant = {p1, p2, p3}
    Coordinated = {p1, p2, p3}
    Async = {p3}
    Driver = {p2}
    OptOut = {p3}
    StepSize <- MCLongerSteps
    AtStart = {p1, p2, p3}
    MayPause = {}
    MayStop = {p2}
    MayLeave = {p2}
    MaxTime = 3
CHECK_DEADLOCK FALSE
INVARIANT NoAbortAmongCoordinated
PROPERTY ImplementsVirtualTime
