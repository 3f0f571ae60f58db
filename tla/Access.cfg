SPECIFICATION Spec
CONSTANTS
    r1 = r1
    r2 = r2
    r3 = r3
    r4 = r4
    r5 = r5
    u1 = u1
    p1 = p1
    p2 = p2
    ph = ph
    None = None
    Reqs <- MCReqs
    Users = {u1}
    Passwords = {p1, p2}
    Phones = {ph}
    TokenTTL = 2
    Limit = 2
    MaxNow = 3
    Scripts <- MCScripts
INVARIANTS
    SessionGoneIsBlocked
    
    CounterExpires

    
CHECK_DEADLOCK FALSE
