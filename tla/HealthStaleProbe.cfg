SPECIFICATION MCSpec
CONSTANTS
    g1 = g1
    t1 = t1
    t2 = t2
    u1 = u1
    u2 = u2
    blank = blank
    RouteId = {}
    GroupId = {g1}
    TargetId = {t1, t2}
    Url = {u1, u2, blank}
    BlankUrl = {blank}
    NoUrl = NoUrl
    NoGroup = NoGroup
    NoRow = NoRow
    NoPost = NoPost
    NoProbe = NoProbe
    NoDraft = NoDraft
    Priority = {}
    RouteInput = {}
    TargetInput <- MCTargetInput
    AutoDisableThreshold = 3
    MaxDisturbances = 4
PROPERTY
    DisabledUrlFailed
