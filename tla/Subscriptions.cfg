SPECIFICATION FairSpec
CONSTANTS
    p1 = p1
    p2 = p2
    p3 = p3
    t1 = t1
    t2 = t2
    Participant = {p1, p2, p3}
    AtStart = {p1, p3}
    Topic = {t1, t2}
    Publisher <- MCPublisher
    Receives <- MCReceives
    Async = {t2}
    Discovered = {t2}
    Starts = {p1}
    MayLeave = {p3}
    MaxPublications = 2
    NoTopic = NoTopic
CHECK_DEADLOCK FALSE
INVARIANT SubscribedWhenReturned
INVARIANT NoPublicationMissed
INVARIANT NothingPendingBetweenRegistrations
PROPERTY HandlerWaitsForSubscriptions
PROPERTY RegistrationReturns
PROPERTY HandlerIsInvoked
