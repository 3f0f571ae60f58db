SPECIFICATION Spec
CONSTANTS
    r1 = r1
    r2 = r2
    r3 = r3
    r4 = r4
    r5 = r5
    s1 = s1
    None = None
    Indexer = Indexer
    Reqs <- MCReqs
    Shipments = {s1}
    MaxCycles = 2
    Scripts <- MCScripts
INVARIANTS
    ResolvedIsConfirmed
    StatusIsOnChain
    IndexedUpToCursor
CHECK_DEADLOCK FALSE
