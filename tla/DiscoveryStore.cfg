SPECIFICATION Spec
CONSTANTS
    s1 = s1
    s2 = s2
    h1 = h1
    h2 = h2
    h3 = h3
    k1 = k1
    k2 = k2
    v1 = v1
    v2 = v2
    Service = {s1, s2}
    Handler = {h1, h2, h3}
    Key = {k1, k2}
    Value = {v1, v2}
    LabelLists <- MCLabelLists
    NoLabel = NoLabel
CHECK_DEADLOCK FALSE
SYMMETRY Symmetry
INVARIANT JoinedMatch
INVARIANT RemovedIsLeft
INVARIANT LabelMapIsExact
PROPERTY ArrivalIsExact
