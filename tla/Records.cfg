SPECIFICATION Spec
CONSTANTS
    r1 = r1
    r2 = r2
    r3 = r3
    old = old
    a = a
    b = b
    None = None
    Reqs <- MCReqs
    Old = old
    Orgs = {a, b}
    MaxPhotos = 1
    ExportMax = 2
    MaxPages = 5
    Scripts <- MCScripts
CHECK_DEADLOCK FALSE
INVARIANT ReferencedIsStored
INVARIANT PhotosBounded
INVARIANT WalkComplete
