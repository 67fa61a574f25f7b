SPECIFICATION MCSpec
CONSTANTS
    r1 = r1
    r2 = r2
    g1 = g1
    g2 = g2
    t1 = t1
    t2 = t2
    u1 = u1
    u2 = u2
    RouteId = {r1, r2}
    GroupId = {g1, g2}
    TargetId = {t1, t2}
    Url = {u1, u2}
    NoUrl = NoUrl
    NoGroup = NoGroup
    NoRow = NoRow
    NoPost = NoPost
    Priority = {1, 2}
    RouteInput <- MCRouteInput
    TargetInput <- MCTargetInput
    AutoDisableThreshold = 2
    MaxEdits = 2
    MaxFaults = 1
PROPERTY
    ServedPairsExisted
