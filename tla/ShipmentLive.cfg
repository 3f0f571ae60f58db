SPECIFICATION FairSpec
CONSTANTS
    s1 = s1
    s2 = s2
    p1 = p1
    org1 = org1
    None = None
    Payments <- OnePayment
    ShipmentOf <- PaymentOfS1
    Orgs <- OneOrg
    Shipments <- OneShipment
    OwnedBy <- OwnsS1
    Slots = {r1, r2}
    BulkIds <- OnceOrTwice
    Targets <- RaceTargets
    Soroban = TRUE
    Faults = {}
    MaxRequests = 3
CHECK_DEADLOCK FALSE
PROPERTY DeliveredIsPaid
