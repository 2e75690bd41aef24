SPECIFICATION FairSpec
CONSTANTS
    p1 = p1
    p2 = p2
    Participant = {p1, p2}
    RemoteCapable = {p1, p2}
    ProxyCapable = {p1, p2}
    MayLeave = {p1, p2}
    MayTimeOut = {p1, p2}
    Duplicated = {p1}
    NoPeer = NoPeer
CHECK_DEADLOCK FALSE
INVARIANT FullMesh
INVARIANT NamesReferToPeers
INVARIANT OneLinkPerPair
PROPERTY LinksStay
PROPERTY JoinEnds
PROPERTY DepartedAreRemoved
