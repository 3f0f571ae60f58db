SPECIFICATION Spec
CONSTANTS
    r1 = r1
    r2 = r2
    r3 = r3
    r4 = r4
    s1 = s1
    s2 = s2
    None = None
    Reqs <- MCReqs
    Shipments = {s1, s2}
    TypeOf <- MCTypeOf
    NoTarget = {s2}
    MaxItems = 2
    Scripts <- MCScripts
INVARIANTS
    AcknowledgedIsQueued
    
    
CHECK_DEADLOCK FALSE
