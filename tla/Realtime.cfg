SPECIFICATION Spec
CONSTANTS
    u1 = u1
    u2 = u2
    o1 = o1
    o2 = o2
    s1 = s1
    s2 = s2
    k1 = k1
    t1 = t1
    t2 = t2
    e1 = e1
    e2 = e2
    None = None
    Users = {u1, u2}
    Orgs = {o1, o2}
    Shipments = {s1, s2}
    Parties <- MCParties
    Sockets = {k1}
    Streams = {t1, t2}
    Events = {e1, e2}
    About <- MCAbout
    FirstOrg <- MCFirstOrg
INVARIANTS
    OnlyPartiesHear
    StreamsAreRegistered
    FallbackReaches
CHECK_DEADLOCK FALSE
