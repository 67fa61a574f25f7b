SPECIFICATION Spec
CONSTANTS
    p1 = p1
    u1 = u1
    u2 = u2
    ann = ann
    bob = bob
    x = x
    y = y
    g = g
    t = t
    Client = {c1, c2}
    Process = {p1}
    StableSecret = {}
    User = {u1, u2}
    Name = {ann, bob, kim}
    Password = {x, y}
    FirstAccount <- MCFirstAccount
    Item = {g, t}
    GroupOf <- MCGroupOf
    FirstItems = {g}
    NoItem = NoItem
    NoPassword = NoPassword
    NoToken = NoToken
    Configured = Configured
    Idle = Idle
    MaxRequests = 2
    MaxFaults = 1
PROPERTIES
    RenameKeepsPassword
