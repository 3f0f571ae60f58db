SPECIFICATION Spec
CONSTANTS
    r1 = r1
    r2 = r2
    r3 = r3
    r4 = r4
    r5 = r5
    e1 = e1
    e2 = e2
    n0 = n0
    n1 = n1
    Home = Home
    None = None
    Reqs <- MCReqs
    Emails = {e1, e2}
    Names = {n0, n1}
    Scripts <- MCScripts
INVARIANTS
    AcceptedHasAccount
    ClosedUnlessResent
    OneAccountPerEmail
    OrgHasAdmin
PROPERTY
    ExpiredOnlyWhenDue
CHECK_DEADLOCK FALSE
