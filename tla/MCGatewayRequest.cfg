CHECK_DEADLOCK FALSE
SYMMETRY Perms
SPECIFICATION Spec
CONSTANTS
    Request = {q1, q2}
    Client <- MCClient
    Configuration <- MCConfiguration
    Slash = Slash
    Char = {Slash, a, b}
    AnyHost = AnyHost
    NoRoute = NoRoute
    NoTarget = NoTarget
    NoKey = NoKey
    NoRequest = NoRequest
    NoPort = NoPort
    ContentType = ContentType
    ForwardedHost = ForwardedHost
    GatewayRoute = GatewayRoute
    Json = Json
    NoText = NoText
    Key = {f, g}
    Scalar = {v, w, Null}
    Map = Map
    List = List
    Null = Null
    BadPath = BadPath
    MaxDepth = 2
    MaxIndex = 1
    BadUrl = {bad}
    LogRequests = TRUE
    MaxReloads = 1
    MaxRestarts = 1
    a = a
    b = b
    h1 = h1
    h2 = h2
    p1 = p1
    conn = conn
    f = f
    g = g
    u1 = u1
    u2 = u2
    bad = bad
    web = web
    k = k
    v = v
    w = w
INVARIANTS
    TypeOK
    RoutedToBest
    OneConfiguration
    ForwardedWhole
    BodyWhole
    OneRowPerAnswer
    NumbersUnique
