SPECIFICATION Spec
CONSTANTS
    p1 = p1
    p2 = p2
    p3 = p3
    Participant = {p1, p2, p3}
    Coordinated = {}
    Async = {p2}
    Driver = {p3}
    OptOut = {p2}
    StepSize <- MCLongerSteps
    AtStart = {p1, p2}
    MayPause = {}
    MayStop = {}
    MayLeave = {p3}
    MaxTime = 3
CHECK_DEADLOCK FALSE
INVARIANT TypeOK
INVARIANT Chronology
INVARIANT AnnouncedAfterCompletion
PROPERTY AnnouncedStepsInTimeOrder
PROPERTY FirstStepNotInThePast
PROPERTY DynamicStepsAlign
