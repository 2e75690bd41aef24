SPECIFICATION FairSpec
CONSTANTS
    p1 = p1
    p2 = p2
    p3 = p3
    Participant = {p1, p2}
    Coordinated = {}
    Async = {p2}
    Driver = {p2}
    OptOut = {}
    StepSize <- MCMixedSteps
    AtStart = {p1}
    MayPause = {p1}
    MayStop = {}
    MayLeave = {p2}
    MaxTime = 3
CHECK_DEADLOCK FALSE
PROPERTY EveryoneAdvances
PROPERTY JoinerAdvances
