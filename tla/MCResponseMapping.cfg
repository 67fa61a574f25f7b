CHECK_DEADLOCK FALSE
SPECIFICATION Spec
CONSTANTS
    Request = {q1, q2}
    user = user
    name = name
    data = data
    ok = ok
    yes = yes
    ann = ann
    bob = bob
    Key = {user, name, data, ok}
    Scalar = {ann, bob, yes, Null}
    RuleLists <- MCRuleLists
    Responses <- MCResponses
    Config = Config
    Map = Map
    List = List
    Null = Null
    Slice = Slice
    Missing = Missing
    NoPath = NoPath
    BadPath = BadPath
    NoValue = NoValue
    MaxDepth = 3
    MaxIndex = 4
INVARIANTS
    TypeOK
    MapsAsWritten
    RequestsShareNothing
