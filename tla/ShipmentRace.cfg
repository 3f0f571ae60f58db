SPECIFICATION Spec
CONSTANTS
    s1 = s1
    s2 = s2
    p1 = p1
    org1 = org1
    None = None
    Payments <- OnePayment
    ShipmentOf <- PaymentOfS1
    Orgs <- OneOrg
    Shipments <- OneShipment
    OwnedBy <- OwnsS1
    Slots = {r1, r2}
    BulkIds <- JustS1
    Targets <- RaceTargets
    Soroban = FALSE
    Faults = {"mongo", "ledger", "chain", "crash"}
    MaxRequests = 4
CHECK_DEADLOCK FALSE
INVARIANT HistoryJustified
INVARIANT LedgerBacked
INVARIANT RecordedReleaseIsReal
INVARIANT ReleasesBounded
PROPERTY HistoriesGrow
