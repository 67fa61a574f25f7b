SPECIFICATION MCSpec
CONSTANTS
    r1 = r1
    g1 = g1
    t1 = t1
    t2 = t2
    u1 = u1
    u2 = u2
    blank = blank
    RouteId = {r1}
    GroupId = {g1}
    TargetId = {t1, t2}
    Url = {u1, u2, blank}
    BlankUrl = {blank}
    NoUrl = NoUrl
    NoGroup = NoGroup
    NoRow = NoRow
    NoPost = NoPost
    NoProbe = NoProbe
    NoDraft = NoDraft
    Priority = {1}
    RouteInput <- MCRouteInput
    TargetInput <- MCTargetInput
    AutoDisableThreshold = 2
    MaxEvents = 3
INVARIANT
    SystemTypeOK
PROPERTIES
    DownTargetLeavesRotation
    UpTargetServed
